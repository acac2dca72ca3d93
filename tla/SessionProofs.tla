---------------------------- MODULE SessionProofs ----------------------------
(***************************************************************************)
(* For any tabs, any number of requests in them, any users and any number  *)
(* of answers, and however tabs mix their items in localStorage: the       *)
(* dashboard needs a token, nobody comes back after an undisturbed logout  *)
(* or login, and a call ends only sessions that were refused.              *)
(*                                                                         *)
(* What a tab holds is no guide to what the others and the requests under  *)
(* way may still bring; the invariant adds, for each refresh under way,    *)
(* whose token it has sent and how old that is, and for each tab that is   *)
(* starting that localStorage has nothing it must not read.                *)
(***************************************************************************)
EXTENDS Session, TLAPS

Steps == {"idle"} \cup Refreshing \cup Asking
Calls == [step : Steps, sent : Tokens("access") \cup Tokens("refresh"), more : BOOLEAN]
Pages == {"login", "dashboard", "loading"}
Kinds == {"access", "refresh", "browser"}

\* A request r, if it is a refresh, has sent the refresh token, or none, of the
\* user who may be there if that is known, and one no newer than that of the
\* session s of its tab, if that has one.
Sent(r, s, who) ==
  r.step \in Refreshing =>
    /\ r.sent \in Tokens("refresh")
    /\ s.refresh # NoToken => r.sent.issue <= s.refresh.issue
    /\ who # "unknown" => OwnerOf(r.sent) \in {who, Nobody}

CallOK(c) == /\ Sent(call[c], session[c[1]], intended)
             /\ page[c[1]] = "loading" => call[c] = Idle

\* If it is known who there may be, no form waits for an answer, and no tab that
\* starts can read anything else.
NoLoginWaits == intended # "unknown" => \A t \in Tabs : ~ Waiting(t)
StartsClean ==
  intended # "unknown" =>
    \A t \in Tabs : page[t] = "loading" => OnlyOf(storage, intended)

Inv == /\ TypeOK /\ DashboardNeedsToken /\ OnlyIntendedUser
       /\ NoLoginWaits /\ StartsClean /\ \A c \in places : CallOK(c)

USE SessionAssumption DEF SessionAssumption
------------------------------------------------------------------------------
(* The parts of the state.                                                   *)

LEMMA TokenTypes ==
  /\ NoToken \in Tokens("access") /\ NoToken \in Tokens("refresh")
  /\ \A i \in Issues : AccessToken(i) \in Tokens("access") /\ RefreshToken(i) \in Tokens("refresh")
  /\ LoggedOut \in Sessions
  BY DEF Tokens, NoToken, AccessToken, RefreshToken, LoggedOut, Sessions

LEMMA IdleIsCall == Idle \in Calls /\ Idle.step = "idle" /\ Idle.step \notin Refreshing
  BY TokenTypes DEF Idle, Calls, Steps, Refreshing

\* TypeOK in the form the steps use.
LEMMA Types ==
  TypeOK <=>
    /\ places \in Layouts
    /\ owner \in Seq(Users) /\ Len(owner) <= MaxIssues[places]
    /\ expired \in [Kinds -> 0 .. Len(owner)]
    /\ session \in [Tabs -> Sessions] /\ storage \in Sessions
    /\ copied \in [Tabs -> 0 .. 3]
    /\ page \in [Tabs -> Pages]
    /\ login \in [Tabs -> Users \cup {Nobody}]
    /\ call \in [places -> Calls]
    /\ smooth \in BOOLEAN
    /\ intended \in Users \cup {Nobody, "unknown"}
  BY DEF TypeOK, Calls, Steps, Kinds, Pages

\* A token that is none is Nobody's; one of an answer is its user's.
LEMMA Owners ==
  ASSUME owner \in Seq(Users), NEW type \in {"access", "refresh"}, NEW token \in Tokens(type)
  PROVE  /\ token = NoToken => OwnerOf(token) = Nobody /\ token.issue = 0
         /\ token # NoToken => /\ token.issue \in Issues /\ token.issue \in Nat \ {0}
                               /\ token.type = type
                               /\ OwnerOf(token) = owner[token.issue]
                               /\ OwnerOf(token) \in Users
  BY DEF Tokens, NoToken, OwnerOf, Issues

\* The three items of a session.
LEMMA OnlyOfParts ==
  ASSUME NEW s, NEW who
  PROVE  OnlyOf(s, who) <=> /\ OwnerOf(s.access) \in {who, Nobody}
                            /\ OwnerOf(s.refresh) \in {who, Nobody}
                            /\ s.user \in {who, Nobody}
<1>1. /\ UserOf("access", s) = OwnerOf(s.access)
      /\ UserOf("refresh", s) = OwnerOf(s.refresh)
      /\ UserOf("user", s) = s.user
  BY DEF UserOf
<1>2. QED
  BY <1>1 DEF OnlyOf, Parts

LEMMA NothingLeft == \A who : OnlyOf(LoggedOut, who)
  BY OnlyOfParts DEF OwnerOf, LoggedOut

\* The server's answers, and so tokens, only become more.
LEMMA AnswersGrow ==
  ASSUME owner \in Seq(Users),
         owner' = owner \/ \E u \in Users : owner' = Append(owner, u)
  PROVE  /\ owner' \in Seq(Users) /\ Len(owner) <= Len(owner')
         /\ \A i \in Issues : i \in Issues' /\ owner'[i] = owner[i]
         /\ \A type : Tokens(type) \subseteq Tokens(type)'
         /\ Sessions \subseteq Sessions' /\ Calls \subseteq Calls'
         /\ \A token \in Tokens("access") \cup Tokens("refresh") :
              OwnerOf(token)' = OwnerOf(token)
         /\ \A s \in Sessions : \A who : OnlyOf(s, who) => OnlyOf(s, who)'
<1>1. /\ owner' \in Seq(Users) /\ Len(owner) <= Len(owner')
      /\ \A i \in Issues : i \in Issues' /\ owner'[i] = owner[i]
  <2>1. CASE owner' = owner
    BY <2>1 DEF Issues
  <2>2. CASE \E u \in Users : owner' = Append(owner, u)
    <3>1. PICK u \in Users : owner' = Append(owner, u)
      BY <2>2
    <3>2. /\ owner' \in Seq(Users) /\ Len(owner') = Len(owner) + 1 /\ Len(owner) \in Nat
          /\ \A i \in 1 .. Len(owner) : owner'[i] = owner[i]
      BY <3>1
    <3>3. QED
      BY <3>2 DEF Issues
  <2>3. QED
    BY <2>1, <2>2
<1>2. \A type : Tokens(type) \subseteq Tokens(type)'
  BY <1>1 DEF Tokens
<1>3. Sessions \subseteq Sessions' /\ Calls \subseteq Calls'
  BY <1>2 DEF Sessions, Calls
<1>4. \A token \in Tokens("access") \cup Tokens("refresh") : OwnerOf(token)' = OwnerOf(token)
  <2>1. \A token \in Tokens("access") \cup Tokens("refresh") :
          token = NoToken \/ token.issue \in Issues
    BY DEF Tokens
  <2>2. QED
    BY <1>1, <2>1 DEF OwnerOf
<1>5. ASSUME NEW s \in Sessions, NEW who, OnlyOf(s, who) PROVE OnlyOf(s, who)'
  <2>1. s.access \in Tokens("access") /\ s.refresh \in Tokens("refresh")
    BY DEF Sessions
  <2>2. OwnerOf(s.access)' = OwnerOf(s.access) /\ OwnerOf(s.refresh)' = OwnerOf(s.refresh)
    BY <1>4, <2>1
  <2>3. /\ UserOf("access", s)' = OwnerOf(s.access)' /\ UserOf("refresh", s)' = OwnerOf(s.refresh)'
        /\ UserOf("user", s)' = s.user
    BY DEF UserOf
  <2>4. QED
    BY <1>5, <2>2, <2>3, OnlyOfParts DEF OnlyOf, Parts
<1>6. QED
  BY <1>1, <1>2, <1>3, <1>4, <1>5

\* What authFetch sends first, if it is a refresh, is the refresh token it has, and
\* that fits the session.
LEMMA AuthFetchSends ==
  ASSUME owner \in Seq(Users), NEW s \in Sessions, NEW more \in BOOLEAN
  PROVE  /\ AuthFetch(s, more) \in Calls
         /\ AuthFetch(s, more).step \in Refreshing =>
              s.access # NoToken /\ AuthFetch(s, more).sent = s.refresh
         /\ \A who : (who # "unknown" => OnlyOf(s, who)) => Sent(AuthFetch(s, more), s, who)
<1>1. s.access \in Tokens("access") /\ s.refresh \in Tokens("refresh")
  BY DEF Sessions
<1>2. AuthFetch(s, more) \in Calls
  BY <1>1 DEF AuthFetch, Request, Calls, Steps, Refreshing, Asking
<1>3. AuthFetch(s, more).step \in Refreshing =>
        s.access # NoToken /\ AuthFetch(s, more).sent = s.refresh
  BY DEF AuthFetch, Request, Refreshing
<1>4. s.refresh.issue \in Nat
  BY <1>1, Owners
<1>5. \A who : OnlyOf(s, who) => OwnerOf(s.refresh) \in {who, Nobody}
  BY OnlyOfParts
<1>6. QED
  BY <1>1, <1>2, <1>3, <1>4, <1>5 DEF Sent

\* So does the refresh after a request was refused.
LEMMA RefreshAgainSends ==
  ASSUME owner \in Seq(Users), NEW s \in Sessions, NEW more \in BOOLEAN, NEW who,
         who # "unknown" => OnlyOf(s, who)
  PROVE  /\ Request("refresh again", s.refresh, more) \in Calls
         /\ Sent(Request("refresh again", s.refresh, more), s, who)
<1>1. s.refresh \in Tokens("refresh") /\ s.refresh.issue \in Nat
  BY Owners DEF Sessions
<1>2. Request("refresh again", s.refresh, more) \in Calls
  BY <1>1 DEF Request, Calls, Steps, Refreshing
<1>3. who # "unknown" => OwnerOf(s.refresh) \in {who, Nobody}
  BY OnlyOfParts
<1>4. Request("refresh again", s.refresh, more).sent = s.refresh
  BY DEF Request
<1>5. s.refresh.issue <= s.refresh.issue
  BY <1>1
<1>6. QED
  BY <1>1, <1>2, <1>3, <1>4, <1>5 DEF Sent

\* A refresh token that was refused is the one the tab has, or an older one, or none.
LEMMA RefusedIsNotNewer ==
  ASSUME owner \in Seq(Users), NEW s \in Sessions, NEW r, NEW who,
         Sent(r, s, who), r.step \in Refreshing, ~ Valid(r.sent, "refresh")
  PROVE  ~ Valid(s.refresh, "refresh") \/ s.refresh.issue > r.sent.issue
<1>1. s.refresh \in Tokens("refresh") /\ r.sent \in Tokens("refresh")
  BY DEF Sessions, Sent
<1>2. CASE s.refresh = NoToken
  BY <1>2 DEF Valid, NoToken
<1>3. CASE s.refresh # NoToken
  <2>1. r.sent.issue <= s.refresh.issue /\ s.refresh.issue \in Nat \ {0} /\ r.sent.issue \in Nat
    BY <1>1, <1>3, Owners DEF Sent
  <2>2. CASE r.sent.issue = s.refresh.issue
    <3>1. r.sent # NoToken
      BY <2>1, <2>2 DEF NoToken
    <3>2. r.sent = s.refresh
      BY <1>1, <1>3, <2>2, <3>1 DEF Tokens
    <3>3. QED
      BY <3>2
  <2>3. QED
    BY <2>1, <2>2
<1>4. QED
  BY <1>2, <1>3
------------------------------------------------------------------------------
LEMMA InitInv == Init => Inv
<1> SUFFICES ASSUME Init PROVE Inv
  OBVIOUS
<1>1. owner \in Seq(Users) /\ Len(owner) = 0 /\ LoggedOut \in Sessions /\ Idle \in Calls
  BY TokenTypes, IdleIsCall DEF Init
<1>2. TypeOK
  <2>1. places \in Layouts /\ MaxIssues[places] \in Nat
    BY DEF Init
  <2>2. expired \in [Kinds -> 0 .. Len(owner)]
    BY <1>1 DEF Init, Kinds
  <2>3. /\ page \in [Tabs -> Pages] /\ copied \in [Tabs -> 0 .. 3]
        /\ login \in [Tabs -> Users \cup {Nobody}]
        /\ session \in [Tabs -> Sessions] /\ storage \in Sessions
        /\ call \in [places -> Calls]
    BY <1>1 DEF Init, Pages
  <2>4. smooth \in BOOLEAN /\ intended \in Users \cup {Nobody, "unknown"}
    BY DEF Init
  <2>5. QED
    BY <1>1, <2>1, <2>2, <2>3, <2>4, Types
<1>3. DashboardNeedsToken /\ StartsClean /\ NoLoginWaits
  BY DEF Init, DashboardNeedsToken, StartsClean, NoLoginWaits, Waiting
<1>4. OnlyIntendedUser
  BY NothingLeft DEF Init, OnlyIntendedUser, OnlyOf
<1>5. \A c \in places : CallOK(c)
  <2>1. \A c \in places : c[1] \in Tabs
    BY DEF Tabs
  <2>2. QED
    BY <2>1, IdleIsCall DEF Init, CallOK, Sent
<1>6. QED
  BY <1>2, <1>3, <1>4, <1>5 DEF Inv
------------------------------------------------------------------------------
(* Sessions and localStorage stay as they are.                               *)

\* Calls, forms and pages may change, but no page begins to load, and one that
\* ends to load has copied everything.
LEMMA SessionsStay ==
  ASSUME Inv, UNCHANGED <<places, owner, session, storage, copied>>,
         intended' \in {intended, "unknown"}, smooth' \in BOOLEAN,
         expired' \in [Kinds -> 0 .. Len(owner)],
         login' \in [Tabs -> Users \cup {Nobody}],
         intended' # "unknown" => \A t \in Tabs : Waiting(t)' => Waiting(t),
         page' \in [Tabs -> Pages],
         \A t \in Tabs : page'[t] = "loading" => page[t] = "loading",
         \A t \in Tabs : page'[t] = "dashboard" => session[t].access # NoToken,
         call' \in [places -> Calls],
         \A c \in places : \/ call'[c] = call[c]
                           \/ /\ Sent(call'[c], session[c[1]], intended)
                              /\ page'[c[1]] # "loading"
  PROVE  Inv'
<1>1. /\ Tabs' = Tabs /\ Issues' = Issues /\ Sessions' = Sessions /\ Calls' = Calls
      /\ \A s, who : OnlyOf(s, who)' = OnlyOf(s, who)
      /\ \A t : ToCopy(t)' = ToCopy(t)
  BY DEF Tabs, Issues, Sessions, Calls, Tokens, OnlyOf, UserOf, OwnerOf, ToCopy
<1>2. \A r, s, who : Sent(r, s, who)' = Sent(r, s, who)
  BY <1>1 DEF Sent, Tokens, OwnerOf, Issues
<1>3. TypeOK'
  BY <1>1, Types DEF Inv, TypeOK, Calls, Steps, Kinds, Pages, Tokens
<1>4. DashboardNeedsToken' /\ NoLoginWaits' /\ StartsClean'
  BY <1>1 DEF Inv, DashboardNeedsToken, NoLoginWaits, StartsClean
<1>5. OnlyIntendedUser'
  <2>1. \A item, s : UserOf(item, s)' = UserOf(item, s)
    BY DEF UserOf, OwnerOf
  <2>2. QED
    BY <1>1, <2>1 DEF Inv, OnlyIntendedUser
<1>6. ASSUME NEW c \in places PROVE CallOK(c)'
  <2>1. c[1] \in Tabs
    BY DEF Tabs
  <2>2. CASE call'[c] = call[c]
    BY <1>2, <2>1, <2>2 DEF Inv, CallOK, Sent
  <2>3. CASE Sent(call'[c], session[c[1]], intended) /\ page'[c[1]] # "loading"
    BY <1>2, <2>3 DEF CallOK, Sent
  <2>4. QED
    BY <2>2, <2>3
<1>7. QED
  BY <1>3, <1>4, <1>5, <1>6 DEF Inv

LEMMA SubmitLoginInv ==
  ASSUME Inv, NEW t \in Tabs, NEW user \in Users, SubmitLogin(t, user)
  PROVE  Inv'
<1>1. /\ login' \in [Tabs -> Users \cup {Nobody}] /\ call \in [places -> Calls]
      /\ page \in [Tabs -> Pages] /\ expired \in [Kinds -> 0 .. Len(owner)] /\ smooth \in BOOLEAN
  BY Types DEF Inv, SubmitLogin
<1>2. QED
  BY <1>1, SessionsStay DEF SubmitLogin, Inv, DashboardNeedsToken

LEMMA LoginRefusedInv ==
  ASSUME Inv, NEW t \in Tabs, LoginRefused(t)
  PROVE  Inv'
<1>1. /\ login' \in [Tabs -> Users \cup {Nobody}] /\ call \in [places -> Calls]
      /\ login \in [Tabs -> Users \cup {Nobody}]
      /\ page \in [Tabs -> Pages] /\ expired \in [Kinds -> 0 .. Len(owner)] /\ smooth \in BOOLEAN
  BY Types DEF Inv, LoginRefused
<1>2. \A u \in Tabs : Waiting(u)' => Waiting(u)
  BY <1>1 DEF LoginRefused, Waiting
<1>3. QED
  BY <1>1, <1>2, SessionsStay DEF LoginRefused, Inv, DashboardNeedsToken

LEMMA ExpireInv ==
  ASSUME Inv, NEW kind \in Kinds, Expire(kind)
  PROVE  Inv'
<1>1. /\ login \in [Tabs -> Users \cup {Nobody}] /\ call \in [places -> Calls]
      /\ page \in [Tabs -> Pages] /\ expired \in [Kinds -> 0 .. Len(owner)] /\ smooth \in BOOLEAN
      /\ owner \in Seq(Users)
  BY Types DEF Inv
<1>2. expired' \in [Kinds -> 0 .. Len(owner)]
  <2>1. expired[kind] + 1 \in 0 .. Len(owner)
    BY <1>1 DEF Expire
  <2>2. QED
    BY <1>1, <2>1 DEF Expire
<1>3. \A u \in Tabs : Waiting(u)' => Waiting(u)
  BY DEF Expire, Waiting
<1>4. QED
  BY <1>1, <1>2, <1>3, SessionsStay DEF Expire, Inv, DashboardNeedsToken

LEMMA StutterInv ==
  ASSUME Inv, UNCHANGED vars
  PROVE  Inv'
<1>1. /\ login \in [Tabs -> Users \cup {Nobody}] /\ call \in [places -> Calls]
      /\ page \in [Tabs -> Pages] /\ expired \in [Kinds -> 0 .. Len(owner)] /\ smooth \in BOOLEAN
  BY Types DEF Inv
<1>2. \A u \in Tabs : Waiting(u)' => Waiting(u)
  BY DEF vars, Waiting
<1>3. QED
  BY <1>1, <1>2, SessionsStay DEF vars, Inv, DashboardNeedsToken

\* A page is shown as the router says.
LEMMA ShowInv ==
  ASSUME Inv, NEW t \in Tabs, NEW p \in {"login", "dashboard"}, Show(t, p, session[t]),
         p = "dashboard" => session[t].access # NoToken,
         UNCHANGED <<places, owner, expired, session, storage, copied, login, smooth, intended>>
  PROVE  Inv'
<1>1. /\ login \in [Tabs -> Users \cup {Nobody}] /\ call \in [places -> Calls]
      /\ page \in [Tabs -> Pages] /\ expired \in [Kinds -> 0 .. Len(owner)] /\ smooth \in BOOLEAN
      /\ owner \in Seq(Users) /\ session[t] \in Sessions
  BY Types DEF Inv
<1>2. page' = [page EXCEPT ![t] = p]
  BY DEF Show
<1>3. \/ call' = call
      \/ \E c \in places : c[1] = t /\ call' = [call EXCEPT ![c] = AuthFetch(session[t], TRUE)]
  BY DEF Show
<1>4. /\ AuthFetch(session[t], TRUE) \in Calls
      /\ Sent(AuthFetch(session[t], TRUE), session[t], intended)
  BY <1>1, AuthFetchSends DEF Inv, OnlyIntendedUser
<1>5. call' \in [places -> Calls]
  BY <1>1, <1>3, <1>4, ZenonT(30)
<1>6. \A c \in places : \/ call'[c] = call[c]
                        \/ /\ Sent(call'[c], session[c[1]], intended)
                           /\ page'[c[1]] # "loading"
  BY <1>1, <1>2, <1>3, <1>4
<1>7. /\ page' \in [Tabs -> Pages]
      /\ \A u \in Tabs : page'[u] = "loading" => page[u] = "loading"
      /\ \A u \in Tabs : page'[u] = "dashboard" => session[u].access # NoToken
  BY <1>1, <1>2 DEF Pages, Inv, DashboardNeedsToken
<1>8. \A u \in Tabs : Waiting(u)' => Waiting(u)
  BY DEF Waiting
<1>9. QED
  BY <1>1, <1>5, <1>6, <1>7, <1>8, SessionsStay

LEMMA GuardNeedsToken ==
  ASSUME NEW to \in {"login", "dashboard"}, NEW s
  PROVE  /\ Guard(to, s) \in {"login", "dashboard"}
         /\ Guard(to, s) = "dashboard" => s.access # NoToken
  BY DEF Guard, IsAuthenticated

LEMMA NavigateInv ==
  ASSUME Inv, NEW t \in Tabs, NEW to \in {"login", "dashboard"}, Navigate(t, to)
  PROVE  Inv'
  BY GuardNeedsToken, ShowInv DEF Navigate

LEMMA StartInv ==
  ASSUME Inv, NEW t \in Tabs, NEW to \in {"login", "dashboard"}, Start(t, to)
  PROVE  Inv'
<1>1. Guard(to, session[t]) \in {"login", "dashboard"}
  BY GuardNeedsToken
<1>2. QED
  BY <1>1, GuardNeedsToken, ShowInv DEF Start
------------------------------------------------------------------------------
(* An item is copied.                                                        *)

LEMMA NextItem ==
  ASSUME NEW t, copied[t] \in 0 .. 3, copied[t] < 3
  PROVE  /\ Items[copied[t] + 1] \in Parts
         /\ \A item \in ToCopy(t) :
              \/ item = Items[copied[t] + 1]
              \/ copied'[t] = copied[t] + 1 => item \in ToCopy(t)'
<1>1. copied[t] = 0 \/ copied[t] = 1 \/ copied[t] = 2
  OBVIOUS
<1>2. Items[1] = "access" /\ Items[2] = "refresh" /\ Items[3] = "user"
  BY DEF Items
<1>3. Items[copied[t] + 1] \in Parts
  BY <1>1, <1>2 DEF Parts
<1>4. ASSUME NEW item \in ToCopy(t), copied'[t] = copied[t] + 1, item # Items[copied[t] + 1]
      PROVE  item \in ToCopy(t)'
  <2>1. PICK k \in copied[t] + 1 .. 3 : item = Items[k]
    BY DEF ToCopy
  <2>2. k # copied[t] + 1
    BY <1>4, <2>1
  <2>3. k \in copied'[t] + 1 .. 3
    BY <1>4, <2>1, <2>2
  <2>4. QED
    BY <2>1, <2>3 DEF ToCopy
<1>5. QED
  BY <1>3, <1>4

\* One item of s is replaced by that of r.
Replaced(s, r, item) == [s EXCEPT ![item] = r[item]]

LEMMA ItemReplaced ==
  \A s, r \in Sessions, item, j \in Parts :
    /\ Replaced(s, r, item) \in Sessions
    /\ UserOf(j, Replaced(s, r, item)) = IF j = item THEN UserOf(j, r) ELSE UserOf(j, s)
<1> TAKE s, r \in Sessions, item, j \in Parts
<1> DEFINE x == Replaced(s, r, item)
<1>1. CASE item = "access"
  <2>1. x \in Sessions /\ x.access = r.access /\ x.refresh = s.refresh /\ x.user = s.user
    BY <1>1 DEF Sessions, Replaced
  <2>2. QED
    BY <1>1, <2>1 DEF UserOf, Parts
<1>2. CASE item = "refresh"
  <2>1. x \in Sessions /\ x.access = s.access /\ x.refresh = r.refresh /\ x.user = s.user
    BY <1>2 DEF Sessions, Replaced
  <2>2. QED
    BY <1>2, <2>1 DEF UserOf, Parts
<1>3. CASE item = "user"
  <2>1. x \in Sessions /\ x.access = s.access /\ x.refresh = s.refresh /\ x.user = r.user
    BY <1>3 DEF Sessions, Replaced
  <2>2. QED
    BY <1>3, <2>1 DEF UserOf, Parts
<1>4. QED
  BY <1>1, <1>2, <1>3 DEF Parts

LEMMA StoreInv ==
  ASSUME Inv, NEW t \in Tabs, Store(t)
  PROVE  Inv'
<1> DEFINE item == Items[copied[t] + 1]
<1>1. /\ TypeOK /\ owner \in Seq(Users) /\ session[t] \in Sessions /\ storage \in Sessions
      /\ copied \in [Tabs -> 0 .. 3] /\ copied[t] < 3 /\ page[t] # "loading"
      /\ UNCHANGED <<places, owner, expired, session, page, login, call, smooth, intended>>
  BY Types DEF Inv, Store
<1>2. /\ Tabs' = Tabs /\ Issues' = Issues /\ Sessions' = Sessions /\ Calls' = Calls
      /\ \A s, who : OnlyOf(s, who)' = OnlyOf(s, who)
      /\ \A j, s : UserOf(j, s)' = UserOf(j, s)
  BY <1>1 DEF Tabs, Issues, Sessions, Calls, Tokens, OnlyOf, UserOf, OwnerOf
<1>3. storage' = [storage EXCEPT ![item] = session[t][item]] /\ item \in Parts
  BY <1>1, NextItem DEF Store
<1>4. /\ storage' \in Sessions
      /\ UserOf(item, storage') = UserOf(item, session[t])
      /\ \A j \in Parts : j # item => UserOf(j, storage') = UserOf(j, storage)
  <2>1. session[t] \in Sessions /\ storage \in Sessions /\ item \in Parts
    BY <1>1, <1>3
  <2>2. storage' = Replaced(storage, session[t], item)
    BY <1>3 DEF Replaced
  <2> HIDE DEF item
  <2>3. QED
    BY <2>1, <2>2, ItemReplaced
<1>5. copied' = [copied EXCEPT ![t] = @ + 1] /\ copied' \in [Tabs -> 0 .. 3]
  <2>1. copied[t] \in 0 .. 3 /\ copied[t] < 3
    BY <1>1
  <2>2. copied[t] + 1 \in 0 .. 3
    BY <2>1
  <2>3. QED
    BY <1>1, <2>2 DEF Store
<1>6. TypeOK'
  BY <1>1, <1>2, <1>4, <1>5 DEF TypeOK, Calls, Steps, Tokens
<1>7. DashboardNeedsToken' /\ NoLoginWaits'
  BY <1>1, <1>2 DEF Inv, DashboardNeedsToken, NoLoginWaits, Waiting
<1>8. intended # "unknown" => UserOf(item, storage') \in {intended, Nobody}
  BY <1>3, <1>4 DEF Inv, OnlyIntendedUser, OnlyOf
<1>9. StartsClean'
  <2>1. OnlyOf(storage, intended) /\ intended # "unknown" => OnlyOf(storage', intended)
    BY <1>4, <1>8 DEF OnlyOf
  <2>2. QED
    BY <1>1, <1>2, <2>1 DEF Inv, StartsClean
<1>10. OnlyIntendedUser'
  <2> SUFFICES ASSUME intended # "unknown", NEW j \in Parts,
                      UserOf(j, storage') \notin {intended, Nobody}
               PROVE  \E u \in Tabs : page[u] # "loading" /\ j \in ToCopy(u)'
    BY <1>1, <1>2 DEF Inv, OnlyIntendedUser
  <2>1. j # item /\ UserOf(j, storage) \notin {intended, Nobody}
    BY <1>4, <1>8
  <2>2. PICK u \in Tabs : page[u] # "loading" /\ j \in ToCopy(u)
    BY <2>1 DEF Inv, OnlyIntendedUser
  <2>3. CASE u = t
    BY <1>1, <1>5, <2>1, <2>2, <2>3, NextItem
  <2>4. CASE u # t
    <3>1. copied'[u] = copied[u]
      BY <1>1, <1>5, <2>4
    <3>2. QED
      BY <2>2, <3>1 DEF ToCopy
  <2>5. QED
    BY <2>2, <2>3, <2>4
<1>11. \A c \in places : CallOK(c)'
  BY <1>1, <1>2 DEF Inv, CallOK, Sent, Tokens, OwnerOf
<1>12. QED
  BY <1>1, <1>6, <1>7, <1>9, <1>10, <1>11 DEF Inv

LEMMA ReadInv ==
  ASSUME Inv, NEW t \in Tabs, Read(t)
  PROVE  Inv'
<1> DEFINE item == Items[copied[t] + 1]
           x == Replaced(session[t], storage, item)
<1>1. /\ TypeOK /\ owner \in Seq(Users) /\ session \in [Tabs -> Sessions] /\ storage \in Sessions
      /\ copied \in [Tabs -> 0 .. 3] /\ copied[t] < 3 /\ page[t] = "loading"
      /\ UNCHANGED <<places, owner, expired, storage, page, login, call, smooth, intended>>
  BY Types DEF Inv, Read
<1>2. /\ Tabs' = Tabs /\ Issues' = Issues /\ Sessions' = Sessions /\ Calls' = Calls
      /\ \A s, who : OnlyOf(s, who)' = OnlyOf(s, who)
      /\ \A j, s : UserOf(j, s)' = UserOf(j, s)
  BY <1>1 DEF Tabs, Issues, Sessions, Calls, Tokens, OnlyOf, UserOf, OwnerOf
<1>3. session' = [session EXCEPT ![t] = x] /\ item \in Parts
  BY <1>1, NextItem DEF Read, Replaced
<1>4. /\ x \in Sessions
      /\ UserOf(item, x) = UserOf(item, storage)
      /\ \A j \in Parts : j # item => UserOf(j, x) = UserOf(j, session[t])
  <2>1. session[t] \in Sessions /\ storage \in Sessions /\ item \in Parts
    BY <1>1, <1>3
  <2> HIDE DEF item
  <2>2. QED
    BY <2>1, ItemReplaced
<1>5. copied' = [copied EXCEPT ![t] = @ + 1] /\ copied' \in [Tabs -> 0 .. 3]
  <2>1. copied[t] \in 0 .. 3 /\ copied[t] < 3
    BY <1>1
  <2>2. copied[t] + 1 \in 0 .. 3
    BY <2>1
  <2>3. QED
    BY <1>1, <2>2 DEF Read
<1>6. TypeOK'
  <2>1. session' \in [Tabs -> Sessions]
    BY <1>1, <1>3, <1>4
  <2>2. QED
    BY <1>1, <1>2, <1>5, <2>1 DEF TypeOK, Calls, Steps, Tokens
<1>7. \A u \in Tabs : u # t => session'[u] = session[u] /\ ToCopy(u)' = ToCopy(u)
  BY <1>1, <1>3, <1>5 DEF ToCopy
<1>8. DashboardNeedsToken' /\ NoLoginWaits' /\ StartsClean'
  BY <1>1, <1>2, <1>7 DEF Inv, DashboardNeedsToken, NoLoginWaits, Waiting, StartsClean
<1>9. OnlyIntendedUser'
  <2> SUFFICES ASSUME intended # "unknown" PROVE OnlyIntendedUser'
    BY <1>1 DEF OnlyIntendedUser
  <2>1. OnlyOf(x, intended)
    <3>1. OnlyOf(storage, intended) /\ OnlyOf(session[t], intended)
      BY <1>1 DEF Inv, StartsClean, OnlyIntendedUser
    <3>2. QED
      BY <1>3, <1>4, <3>1 DEF OnlyOf
  <2>2. \A u \in Tabs : OnlyOf(session'[u], intended)
    BY <1>1, <1>3, <1>7, <2>1 DEF Inv, OnlyIntendedUser
  <2>3. QED
    BY <1>1, <1>2, <1>7, <2>2 DEF Inv, OnlyIntendedUser
<1>10. ASSUME NEW c \in places PROVE CallOK(c)'
  <2>1. c[1] \in Tabs
    BY DEF Tabs
  <2>2. CASE c[1] = t
    BY <1>1, <2>2, IdleIsCall DEF Inv, CallOK, Sent
  <2>3. CASE c[1] # t
    BY <1>1, <1>2, <1>7, <2>1, <2>3 DEF Inv, CallOK, Sent, Tokens, OwnerOf
  <2>4. QED
    BY <2>2, <2>3
<1>11. QED
  BY <1>1, <1>6, <1>8, <1>9, <1>10 DEF Inv

LEMMA LoadInv ==
  ASSUME Inv, NEW t \in Tabs, AtRest(t), Load(t)
  PROVE  Inv'
<1>1. /\ TypeOK /\ owner \in Seq(Users) /\ session \in [Tabs -> Sessions]
      /\ copied \in [Tabs -> 0 .. 3] /\ page \in [Tabs -> Pages]
      /\ login \in [Tabs -> Users \cup {Nobody}] /\ call \in [places -> Calls]
      /\ UNCHANGED <<places, owner, expired, storage, smooth>>
  BY Types DEF Inv, Load
<1>2. /\ Tabs' = Tabs /\ Issues' = Issues /\ Sessions' = Sessions /\ Calls' = Calls
      /\ \A s, who : OnlyOf(s, who)' = OnlyOf(s, who)
      /\ \A j, s : UserOf(j, s)' = UserOf(j, s)
  BY <1>1 DEF Tabs, Issues, Sessions, Calls, Tokens, OnlyOf, UserOf, OwnerOf
<1>3. /\ session' = [session EXCEPT ![t] = LoggedOut]
      /\ copied' = [copied EXCEPT ![t] = 0]
      /\ page' = [page EXCEPT ![t] = "loading"]
      /\ login' = [login EXCEPT ![t] = Nobody]
      /\ call' = [c \in places |-> IF c[1] = t THEN Idle ELSE call[c]]
      /\ intended' = IF OnlyOf(storage, intended) THEN intended ELSE "unknown"
  BY DEF Load
<1>4. TypeOK'
  <2>1. session' \in [Tabs -> Sessions] /\ copied' \in [Tabs -> 0 .. 3] /\ page' \in [Tabs -> Pages]
    BY <1>1, <1>3, TokenTypes DEF Pages
  <2>2. login' \in [Tabs -> Users \cup {Nobody}] /\ call' \in [places -> Calls]
    BY <1>1, <1>3, IdleIsCall
  <2>3. intended' \in Users \cup {Nobody, "unknown"}
    BY <1>1, <1>3 DEF TypeOK
  <2>4. QED
    BY <1>1, <1>2, <2>1, <2>2, <2>3 DEF TypeOK, Calls, Steps, Tokens, Pages
<1>5. ToCopy(t) = {}
  BY DEF AtRest, ToCopy
<1>6. \A u \in Tabs : u # t => /\ session'[u] = session[u] /\ page'[u] = page[u]
                               /\ login'[u] = login[u] /\ ToCopy(u)' = ToCopy(u)
  BY <1>1, <1>3 DEF ToCopy
<1>7. session'[t] = LoggedOut /\ page'[t] = "loading" /\ login'[t] = Nobody
  BY <1>1, <1>3
<1>8. intended' # "unknown" => intended' = intended /\ OnlyOf(storage, intended)
  BY <1>3
<1>9. DashboardNeedsToken' /\ NoLoginWaits'
  BY <1>2, <1>6, <1>7, <1>8 DEF Inv, DashboardNeedsToken, NoLoginWaits, Waiting
<1>10. StartsClean'
  BY <1>1, <1>2, <1>8 DEF StartsClean
<1>11. OnlyIntendedUser'
  <2> SUFFICES ASSUME intended' # "unknown" PROVE OnlyIntendedUser'
    BY DEF OnlyIntendedUser
  <2>1. \A u \in Tabs : OnlyOf(session'[u], intended)
    BY <1>6, <1>7, <1>8, NothingLeft DEF Inv, OnlyIntendedUser
  <2>2. QED
    BY <1>1, <1>2, <1>8, <2>1 DEF OnlyIntendedUser, OnlyOf
<1>12. ASSUME NEW c \in places PROVE CallOK(c)'
  <2>1. c[1] \in Tabs
    BY DEF Tabs
  <2>2. CASE c[1] = t
    BY <1>3, <2>2, IdleIsCall DEF CallOK, Sent
  <2>3. CASE c[1] # t
    BY <1>1, <1>2, <1>3, <1>6, <1>8, <2>1, <2>3 DEF Inv, CallOK, Sent, Tokens, OwnerOf
  <2>4. QED
    BY <2>2, <2>3
<1>13. QED
  BY <1>1, <1>4, <1>9, <1>10, <1>11, <1>12 DEF Inv
------------------------------------------------------------------------------
(* A session ends.                                                           *)

\* logout(), when c, the call that makes it, has at most a request to send, and
\* no other call changes.
LEMMA LogOutKeepsInv ==
  ASSUME Inv, NEW t \in Tabs, AtRest(t), NEW c, LogOut(t, c),
         UNCHANGED <<places, owner, expired, storage, login>>,
         smooth' \in BOOLEAN,
         call' \in [places -> Calls],
         \A d \in places : IF d = c THEN call'[d].step \notin Refreshing ELSE call'[d] = call[d],
         c \in places => c[1] = t
  PROVE  Inv'
<1>1. /\ TypeOK /\ session \in [Tabs -> Sessions] /\ page \in [Tabs -> Pages]
      /\ copied \in [Tabs -> 0 .. 3]
  BY Types DEF Inv
<1>2. /\ Tabs' = Tabs /\ Issues' = Issues /\ Sessions' = Sessions /\ Calls' = Calls
      /\ \A s, who : OnlyOf(s, who)' = OnlyOf(s, who)
      /\ \A j, s : UserOf(j, s)' = UserOf(j, s)
  BY DEF Tabs, Issues, Sessions, Calls, Tokens, OnlyOf, UserOf, OwnerOf
<1>3. /\ session' = [session EXCEPT ![t] = LoggedOut]
      /\ copied' = [copied EXCEPT ![t] = 0]
      /\ page' = [page EXCEPT ![t] = "login"]
      /\ intended' = IF Quiet(t, c) /\ ~ Waiting(t) THEN Nobody ELSE intended
  BY DEF LogOut
<1>4. TypeOK'
  <2>1. session' \in [Tabs -> Sessions] /\ copied' \in [Tabs -> 0 .. 3] /\ page' \in [Tabs -> Pages]
    BY <1>1, <1>3, TokenTypes DEF Pages
  <2>2. intended' \in Users \cup {Nobody, "unknown"}
    BY <1>1, <1>3 DEF TypeOK
  <2>3. QED
    BY <1>1, <1>2, <2>1, <2>2 DEF TypeOK, Calls, Steps, Tokens, Pages
<1>5. \A u \in Tabs : u # t => /\ session'[u] = session[u] /\ page'[u] = page[u]
                               /\ ToCopy(u)' = ToCopy(u)
  BY <1>1, <1>3 DEF ToCopy
<1>6. session'[t] = LoggedOut /\ page'[t] = "login" /\ \A item \in Parts : item \in ToCopy(t)'
  <2>1. copied'[t] = 0 /\ Items[1] = "access" /\ Items[2] = "refresh" /\ Items[3] = "user"
    BY <1>1, <1>3 DEF Items
  <2>2. \A item \in Parts : \E k \in 0 + 1 .. 3 : item = Items[k]
    BY <2>1 DEF Parts
  <2>3. QED
    BY <1>1, <1>3, <2>1, <2>2 DEF ToCopy
<1>7. DashboardNeedsToken'
  BY <1>2, <1>5, <1>6 DEF Inv, DashboardNeedsToken
<1>8. CASE Quiet(t, c) /\ ~ Waiting(t)
  <2>1. \A d \in places : call'[d].step \notin Refreshing
    BY <1>8 DEF Quiet
  <2>2. \A u \in Tabs : session'[u] = LoggedOut /\ page'[u] # "loading" /\ ~ Waiting(u)'
    BY <1>5, <1>6, <1>8 DEF Quiet, Waiting
  <2>3. OnlyIntendedUser'
    BY <1>2, <1>6, <2>2, NothingLeft DEF OnlyIntendedUser
  <2>4. NoLoginWaits' /\ StartsClean'
    BY <1>2, <2>2 DEF NoLoginWaits, StartsClean
  <2>5. \A d \in places : CallOK(d)'
    <3>1. \A d \in places : d[1] \in Tabs
      BY DEF Tabs
    <3>2. QED
      BY <2>1, <2>2, <3>1 DEF CallOK, Sent
  <2>6. QED
    BY <1>4, <1>7, <2>3, <2>4, <2>5 DEF Inv
<1>9. CASE ~ (Quiet(t, c) /\ ~ Waiting(t))
  <2>1. intended' = intended
    BY <1>3, <1>9
  <2>2. OnlyIntendedUser'
    BY <1>2, <1>5, <1>6, <2>1, NothingLeft DEF Inv, OnlyIntendedUser
  <2>3. NoLoginWaits' /\ StartsClean'
    BY <1>2, <1>5, <1>6, <2>1 DEF Inv, NoLoginWaits, Waiting, StartsClean
  <2>4. ASSUME NEW d \in places PROVE CallOK(d)'
    <3>1. d[1] \in Tabs /\ LoggedOut.refresh = NoToken
      BY DEF Tabs, LoggedOut
    <3>2. page'[d[1]] = "loading" => d # c /\ page[d[1]] = "loading" /\ call'[d] = call[d]
      BY <1>5, <1>6, <3>1
    <3>3. call'[d].step \in Refreshing => call'[d] = call[d]
      OBVIOUS
    <3>4. session'[d[1]].refresh # NoToken => session'[d[1]] = session[d[1]]
      BY <1>5, <1>6, <3>1
    <3>5. Sent(call'[d], session'[d[1]], intended)
      BY <3>3, <3>4 DEF Inv, CallOK, Sent
    <3>6. \A r, s, who : Sent(r, s, who)' = Sent(r, s, who)
      BY <1>2 DEF Sent, Tokens, OwnerOf
    <3>7. page'[d[1]] = "loading" => call'[d] = Idle
      BY <3>2 DEF Inv, CallOK
    <3>8. QED
      BY <2>1, <3>5, <3>6, <3>7 DEF CallOK, Sent
  <2>5. QED
    BY <1>4, <1>7, <2>2, <2>3, <2>4 DEF Inv
<1>10. QED
  BY <1>8, <1>9

LEMMA ClickLogoutInv ==
  ASSUME Inv, NEW t \in Tabs, AtRest(t), ClickLogout(t)
  PROVE  Inv'
<1>1. call' = call /\ places \in Layouts /\ call \in [places -> Calls] /\ smooth' \in BOOLEAN
  BY Types DEF Inv, ClickLogout
<1>2. Nobody \notin places
  BY <1>1
<1>3. QED
  BY <1>1, <1>2, LogOutKeepsInv DEF ClickLogout

\* A call that gives up goes on with a session that is no more.
LEMMA GiveUpInv ==
  ASSUME Inv, NEW c \in places, AtRest(c[1]), GiveUp(c), smooth' \in BOOLEAN
  PROVE  Inv'
<1>1. call \in [places -> Calls] /\ owner \in Seq(Users) /\ c[1] \in Tabs
  BY Types DEF Inv, Tabs
<1>2. AfterCall(c, LoggedOut) \in Calls /\ AfterCall(c, LoggedOut).step \notin Refreshing
  <2>1. LoggedOut \in Sessions /\ LoggedOut.access = NoToken
    BY TokenTypes DEF LoggedOut
  <2>2. QED
    BY <1>1, <2>1, AuthFetchSends, IdleIsCall DEF AfterCall
<1>3. QED
  BY <1>1, <1>2, LogOutKeepsInv DEF GiveUp
------------------------------------------------------------------------------
(* A session begins, or is renewed.                                          *)

\* The session of an answer, when a tab takes it over.
LEMMA TokensArrive ==
  ASSUME Inv, NEW t \in Tabs, AtRest(t), NEW user \in Users, NEW i,
         Issue(user, i), SetTokens(t, i, user), UNCHANGED places
  PROVE  /\ owner' = Append(owner, user) /\ owner' \in Seq(Users)
         /\ i \in Nat /\ i = Len(owner) + 1 /\ owner'[i] = user
         /\ Len(owner') = i /\ Len(owner') <= MaxIssues[places] /\ i \in Issues'
         /\ Tabs' = Tabs
         /\ SessionOf(i, user) \in Sessions'
         /\ SessionOf(i, user).access # NoToken
         /\ SessionOf(i, user).refresh = RefreshToken(i)
         /\ OnlyOf(SessionOf(i, user), user)'
         /\ session' = [session EXCEPT ![t] = SessionOf(i, user)]
         /\ session' \in [Tabs -> Sessions']
         /\ copied' \in [Tabs -> 0 .. 3]
         /\ \A item \in Parts : item \in ToCopy(t)'
         /\ \A u \in Tabs : u # t => ToCopy(u)' = ToCopy(u)
<1>1. /\ owner \in Seq(Users) /\ MaxIssues[places] \in Nat /\ session \in [Tabs -> Sessions]
      /\ copied \in [Tabs -> 0 .. 3]
  BY Types DEF Inv
<1>2. owner' = Append(owner, user) /\ i = Len(owner) + 1 /\ Len(owner) < MaxIssues[places]
  BY DEF Issue
<1>3. /\ owner' \in Seq(Users) /\ Len(owner') = i /\ owner'[i] = user /\ i \in Nat \ {0}
      /\ Len(owner') <= MaxIssues[places]
  BY <1>1, <1>2
<1>4. i \in Issues' /\ Tabs' = Tabs /\ Sessions \subseteq Sessions'
  BY <1>1, <1>2, <1>3, AnswersGrow DEF Issues, Tabs
<1>5. /\ AccessToken(i) \in Tokens("access")' /\ RefreshToken(i) \in Tokens("refresh")'
      /\ AccessToken(i) # NoToken /\ RefreshToken(i) # NoToken
      /\ AccessToken(i).issue = i /\ RefreshToken(i).issue = i
  BY <1>4 DEF Tokens, AccessToken, RefreshToken, NoToken
<1>6. /\ SessionOf(i, user).access = AccessToken(i)
      /\ SessionOf(i, user).refresh = RefreshToken(i)
      /\ SessionOf(i, user).user = user
      /\ SessionOf(i, user) \in Sessions'
  BY <1>5 DEF SessionOf, Sessions
<1>7. OnlyOf(SessionOf(i, user), user)'
  <2>1. OwnerOf(AccessToken(i))' = user /\ OwnerOf(RefreshToken(i))' = user
    BY <1>3, <1>5 DEF OwnerOf
  <2>2. /\ UserOf("access", SessionOf(i, user))' = user
        /\ UserOf("refresh", SessionOf(i, user))' = user
        /\ UserOf("user", SessionOf(i, user))' = user
    BY <1>6, <2>1 DEF UserOf
  <2>3. QED
    BY <2>2 DEF OnlyOf, Parts
<1>8. /\ session' = [session EXCEPT ![t] = SessionOf(i, user)]
      /\ copied' = [copied EXCEPT ![t] = 0]
  BY DEF SetTokens
<1>9. session' \in [Tabs -> Sessions'] /\ copied' \in [Tabs -> 0 .. 3]
  BY <1>1, <1>4, <1>6, <1>8
<1>10. \A item \in Parts : item \in ToCopy(t)'
  <2>1. copied'[t] = 0 /\ Items[1] = "access" /\ Items[2] = "refresh" /\ Items[3] = "user"
    BY <1>1, <1>8 DEF Items
  <2>2. \A item \in Parts : \E k \in 0 + 1 .. 3 : item = Items[k]
    BY <2>1 DEF Parts
  <2>3. QED
    BY <2>1, <2>2 DEF ToCopy
<1>11. \A u \in Tabs : u # t => ToCopy(u)' = ToCopy(u)
  BY <1>1, <1>8 DEF ToCopy
<1>12. QED
  BY <1>2, <1>3, <1>4, <1>5, <1>6, <1>7, <1>8, <1>9, <1>10, <1>11

\* What a request has sent is older than the answer i, and stays right.
LEMMA SentIsOlder ==
  ASSUME owner \in Seq(Users), NEW user \in Users, owner' = Append(owner, user),
         NEW r, NEW s, NEW who, Sent(r, s, who)
  PROVE  /\ Sent(r, s, who)'
         /\ \A x : x.refresh = RefreshToken(Len(owner) + 1) => Sent(r, x, who)'
<1> SUFFICES ASSUME r.step \in Refreshing
             PROVE  /\ Sent(r, s, who)'
                    /\ \A x : x.refresh = RefreshToken(Len(owner) + 1) => Sent(r, x, who)'
  BY DEF Sent
<1>1. r.sent \in Tokens("refresh")
  BY DEF Sent
<1>2. r.sent \in Tokens("refresh")' /\ OwnerOf(r.sent)' = OwnerOf(r.sent)
  BY <1>1, AnswersGrow
<1>3. r.sent.issue <= Len(owner) + 1
  <2>1. r.sent.issue = 0 \/ r.sent.issue \in 1 .. Len(owner)
    BY <1>1, Owners DEF Issues
  <2>2. Len(owner) \in Nat
    OBVIOUS
  <2>3. QED
    BY <2>1, <2>2
<1>4. RefreshToken(Len(owner) + 1).issue = Len(owner) + 1
  BY DEF RefreshToken
<1>5. QED
  BY <1>2, <1>3, <1>4 DEF Sent

LEMMA LoginSucceedsInv ==
  ASSUME Inv, NEW t \in Tabs, AtRest(t), LoginSucceeds(t)
  PROVE  Inv'
<1>0. PICK i, u, s : i = Len(owner) + 1 /\ u = login[t] /\ s = SessionOf(i, u)
  OBVIOUS
<1>1. /\ TypeOK /\ owner \in Seq(Users) /\ call \in [places -> Calls]
      /\ session \in [Tabs -> Sessions] /\ storage \in Sessions
      /\ page \in [Tabs -> Pages] /\ login \in [Tabs -> Users \cup {Nobody}]
      /\ expired \in [Kinds -> 0 .. Len(owner)] /\ page[t] # "loading"
  BY Types DEF Inv, AtRest
<1>2. /\ u \in Users /\ Issue(u, i) /\ SetTokens(t, i, u)
      /\ login' = [login EXCEPT ![t] = Nobody]
      /\ intended' = IF Quiet(t, Nobody) THEN u ELSE "unknown"
      /\ UNCHANGED <<places, expired, storage, smooth>>
  BY <1>0, <1>1 DEF LoginSucceeds, Waiting, Login
<1>3. /\ owner' = Append(owner, u) /\ owner' \in Seq(Users) /\ Len(owner') <= MaxIssues[places]
      /\ Len(owner') = i /\ i \in Issues' /\ Tabs' = Tabs
      /\ s \in Sessions' /\ s.access # NoToken /\ s.refresh = RefreshToken(i)
      /\ OnlyOf(s, u)'
      /\ session' = [session EXCEPT ![t] = s] /\ session' \in [Tabs -> Sessions']
      /\ copied' \in [Tabs -> 0 .. 3]
      /\ \A item \in Parts : item \in ToCopy(t)'
  BY <1>0, <1>2, TokensArrive
<1>4. /\ Sessions \subseteq Sessions' /\ Calls \subseteq Calls' /\ Len(owner) <= Len(owner')
  BY <1>1, <1>2, <1>3, AnswersGrow
<1> DEFINE p == IF page[t] = "login" THEN Guard("dashboard", s) ELSE page[t]
<1>5. Show(t, p, s) /\ page' = [page EXCEPT ![t] = p] /\ p \in {"login", "dashboard"}
  <2>1. page[t] \in {"login", "dashboard"}
    BY <1>1 DEF Pages
  <2>2. QED
    BY <1>0, <2>1, GuardNeedsToken DEF LoginSucceeds, Show
<1>6. \/ call' = call
      \/ \E c \in places : c[1] = t /\ call' = [call EXCEPT ![c] = AuthFetch(s, TRUE)]
  <2> HIDE DEF p
  <2>1. QED
    BY <1>5 DEF Show
<1>7. /\ AuthFetch(s, TRUE) \in Calls'
      /\ AuthFetch(s, TRUE).step \in Refreshing => AuthFetch(s, TRUE).sent = s.refresh
  <2>1. s.access \in Tokens("access")' /\ s.refresh \in Tokens("refresh")'
    BY <1>3 DEF Sessions
  <2>2. QED
    BY <2>1 DEF AuthFetch, Request, Calls, Steps, Refreshing, Asking
<1> HIDE DEF p
<1>8. TypeOK'
  <2>1. call' \in [places -> Calls']
    BY <1>1, <1>4, <1>6, <1>7, ZenonT(30)
  <2>2. expired' \in [Kinds -> 0 .. Len(owner')]
    BY <1>1, <1>2, <1>4 DEF Kinds
  <2>3. login' \in [Tabs -> Users \cup {Nobody}] /\ page' \in [Tabs -> Pages]
    BY <1>1, <1>2, <1>5 DEF Pages
  <2>4. intended' \in Users \cup {Nobody, "unknown"} /\ smooth' \in BOOLEAN /\ places' \in Layouts
    BY <1>1, <1>2 DEF TypeOK
  <2>5. storage' \in Sessions'
    BY <1>1, <1>2, <1>4
  <2>6. QED
    BY <1>2, <1>3, <2>1, <2>2, <2>3, <2>4, <2>5 DEF TypeOK, Calls, Steps, Kinds, Pages
<1>9. \A v \in Tabs : v # t => /\ session'[v] = session[v] /\ page'[v] = page[v]
                               /\ login'[v] = login[v]
  BY <1>1, <1>2, <1>3, <1>5
<1>10. session'[t] = s /\ page'[t] = p /\ login'[t] = Nobody
  BY <1>1, <1>2, <1>3, <1>5
<1>11. DashboardNeedsToken'
  BY <1>3, <1>9, <1>10 DEF Inv, DashboardNeedsToken
<1>12. ASSUME intended' # "unknown"
       PROVE  /\ Quiet(t, Nobody) /\ intended' = u
              /\ \A v \in Tabs : v # t => /\ session'[v] = LoggedOut /\ page'[v] # "loading"
                                          /\ ~ Waiting(v)'
  BY <1>2, <1>9, <1>12 DEF Quiet, Waiting
<1>13. OnlyIntendedUser'
  <2> SUFFICES ASSUME intended' # "unknown" PROVE OnlyIntendedUser'
    BY DEF OnlyIntendedUser
  <2>1. OnlyOf(LoggedOut, u)'
    <3>1. /\ UserOf("access", LoggedOut)' = Nobody /\ UserOf("refresh", LoggedOut)' = Nobody
          /\ UserOf("user", LoggedOut)' = Nobody
      BY DEF UserOf, OwnerOf, LoggedOut
    <3>2. QED
      BY <3>1 DEF OnlyOf, Parts
  <2>2. page'[t] # "loading"
    BY <1>5, <1>10
  <2>3. ASSUME NEW v \in Tabs PROVE OnlyOf(session[v], intended)'
    <3>1. PICK x : x = session'[v]
      OBVIOUS
    <3>2. OnlyOf(x, u)'
      BY <1>3, <1>10, <1>12, <2>1, <3>1
    <3>3. QED
      BY <1>12, <3>1, <3>2 DEF OnlyOf, UserOf
  <2>4. QED
    BY <1>3, <2>2, <2>3 DEF OnlyIntendedUser
<1>14. NoLoginWaits' /\ StartsClean'
  <2>1. ~ Waiting(t)' /\ page'[t] # "loading"
    BY <1>5, <1>10 DEF Waiting
  <2>2. QED
    BY <1>3, <1>12, <2>1 DEF NoLoginWaits, StartsClean
<1>15. ASSUME NEW d \in places PROVE CallOK(d)'
  <2>0. d[1] \in Tabs /\ d \in places \ {Nobody} /\ page'[t] # "loading"
    BY <1>1, <1>5, <1>10 DEF TypeOK, Tabs
  <2>1. CASE d[1] = t /\ call'[d] = AuthFetch(s, TRUE)
    <3>1. s.refresh \in Tokens("refresh")' /\ s.refresh.issue <= s.refresh.issue
      <4>1. s.refresh.issue = i /\ i \in Nat
        BY <1>1, <1>3 DEF RefreshToken
      <4>2. QED
        BY <1>3, <4>1 DEF Sessions
    <3>2. intended' # "unknown" => OwnerOf(s.refresh)' \in {intended', Nobody}
      <4>1. UserOf("refresh", s)' = OwnerOf(s.refresh)'
        BY DEF UserOf
      <4>2. UserOf("refresh", s)' \in {u, Nobody}
        BY <1>3 DEF OnlyOf, Parts
      <4>3. QED
        BY <1>12, <4>1, <4>2
    <3>3. QED
      BY <1>7, <1>10, <2>0, <2>1, <3>1, <3>2 DEF CallOK, Sent
  <2>2. CASE call'[d] = call[d]
    <3>1. page'[d[1]] = "loading" => call'[d] = Idle
      BY <1>9, <2>0, <2>2 DEF Inv, CallOK
    <3>2. CASE call[d].step \in Refreshing
      <4>1. intended' = "unknown"
        BY <1>12, <2>0, <3>2 DEF Quiet
      <4>2. PICK r, x, y : r = call[d] /\ x = session[d[1]] /\ y = session'[d[1]]
        OBVIOUS
      <4>3. Sent(r, x, "unknown")
        BY <4>2 DEF Inv, CallOK, Sent
      <4>4. y = x \/ y.refresh = RefreshToken(Len(owner) + 1)
        BY <1>0, <1>3, <1>9, <1>10, <2>0, <4>2
      <4>5. Sent(r, y, "unknown")'
        BY <1>1, <1>2, <1>3, <4>3, <4>4, SentIsOlder
      <4>6. QED
        BY <2>2, <3>1, <4>1, <4>2, <4>5 DEF CallOK, Sent
    <3>3. CASE call[d].step \notin Refreshing
      BY <2>2, <3>1, <3>3 DEF CallOK, Sent
    <3>4. QED
      BY <3>2, <3>3
  <2>3. QED
    BY <1>1, <1>6, <2>1, <2>2
<1>16. QED
  BY <1>2, <1>8, <1>11, <1>13, <1>14, <1>15 DEF Inv
------------------------------------------------------------------------------
(* A request goes on.                                                        *)

LEMMA RenewedInv ==
  ASSUME Inv, NEW c \in places, AtRest(c[1]), Renewed(c)
  PROVE  Inv'
<1>0. PICK i, t, u, s : /\ i = Len(owner) + 1 /\ t = c[1]
                        /\ u = owner[call[c].sent.issue] /\ s = SessionOf(i, u)
  OBVIOUS
<1>1. /\ TypeOK /\ t \in Tabs /\ owner \in Seq(Users) /\ call \in [places -> Calls]
      /\ session \in [Tabs -> Sessions] /\ storage \in Sessions
      /\ page \in [Tabs -> Pages] /\ page[t] # "loading" /\ AtRest(t)
      /\ expired \in [Kinds -> 0 .. Len(owner)]
  BY <1>0, Types DEF Inv, Tabs, AtRest
<1>2. /\ call[c].step \in Refreshing /\ Valid(call[c].sent, "refresh")
      /\ Issue(u, i) /\ SetTokens(t, i, u)
      /\ UNCHANGED <<places, expired, storage, page, login, smooth, intended>>
  BY <1>0 DEF Renewed, Refresh
<1>3. u \in Users /\ (intended # "unknown" => u = intended)
  <2>1. /\ call[c].sent \in Tokens("refresh") /\ call[c].sent # NoToken
        /\ intended # "unknown" => OwnerOf(call[c].sent) \in {intended, Nobody}
    BY <1>2 DEF Inv, CallOK, Sent, Valid, NoToken
  <2>2. OwnerOf(call[c].sent) = u /\ u \in Users
    BY <1>0, <1>1, <2>1, Owners
  <2>3. QED
    BY <2>1, <2>2
<1>4. /\ owner' = Append(owner, u) /\ owner' \in Seq(Users) /\ Len(owner') <= MaxIssues[places]
      /\ Len(owner') = i /\ i \in Issues' /\ Tabs' = Tabs
      /\ s \in Sessions' /\ s.access # NoToken /\ s.refresh = RefreshToken(i)
      /\ OnlyOf(s, u)'
      /\ session' = [session EXCEPT ![t] = s] /\ session' \in [Tabs -> Sessions']
      /\ copied' \in [Tabs -> 0 .. 3]
      /\ \A item \in Parts : item \in ToCopy(t)'
  BY <1>0, <1>1, <1>2, <1>3, TokensArrive
<1>5. /\ Sessions \subseteq Sessions' /\ Calls \subseteq Calls' /\ Len(owner) <= Len(owner')
      /\ \A x \in Sessions : \A who : OnlyOf(x, who) => OnlyOf(x, who)'
  BY <1>1, <1>3, <1>4, AnswersGrow
<1>6. PICK r : /\ call' = [call EXCEPT ![c] = r]
               /\ r \in Calls' /\ r.step \notin Refreshing
  <2> DEFINE r == Request(IF call[c].step = "refresh" THEN "ask" ELSE "ask again",
                          AccessToken(i), call[c].more)
  <2>1. AccessToken(i) \in Tokens("access")' /\ call[c].more \in BOOLEAN
    BY <1>1, <1>4 DEF Tokens, AccessToken, Calls
  <2>2. r \in Calls' /\ r.step \notin Refreshing
    BY <2>1 DEF Request, Calls, Steps, Refreshing, Asking
  <2>3. call' = [call EXCEPT ![c] = r]
    BY <1>0 DEF Renewed
  <2>4. QED
    BY <2>2, <2>3
<1>7. TypeOK'
  <2>1. call' \in [places -> Calls'] /\ storage' \in Sessions'
    BY <1>1, <1>2, <1>5, <1>6
  <2>2. expired' \in [Kinds -> 0 .. Len(owner')]
    BY <1>1, <1>2, <1>5 DEF Kinds
  <2>3. QED
    BY <1>1, <1>2, <1>4, <2>1, <2>2 DEF TypeOK, Calls, Steps, Kinds, Pages
<1>8. \A v \in Tabs : v # t => session'[v] = session[v]
  BY <1>1, <1>4
<1>9. session'[t] = s
  BY <1>1, <1>4
<1>10. DashboardNeedsToken' /\ NoLoginWaits'
  BY <1>2, <1>4, <1>8, <1>9 DEF Inv, DashboardNeedsToken, NoLoginWaits, Waiting
<1>11. StartsClean'
  <2>1. PICK x, who : x = storage /\ who = intended
    OBVIOUS
  <2>2. OnlyOf(x, who) => OnlyOf(x, who)'
    BY <1>1, <1>5, <2>1
  <2>3. QED
    BY <1>2, <1>4, <2>1, <2>2 DEF Inv, StartsClean, OnlyOf, UserOf
<1>12. OnlyIntendedUser'
  <2> SUFFICES ASSUME intended # "unknown" PROVE OnlyIntendedUser'
    BY <1>2 DEF OnlyIntendedUser
  <2>1. ASSUME NEW v \in Tabs PROVE OnlyOf(session[v], intended)'
    <3>1. PICK x, y : x = session[v] /\ y = session'[v]
      OBVIOUS
    <3>2. OnlyOf(x, u) /\ x \in Sessions
      BY <1>1, <1>3, <3>1 DEF Inv, OnlyIntendedUser
    <3>3. OnlyOf(y, u)'
      BY <1>4, <1>5, <1>8, <1>9, <3>1, <3>2
    <3>4. QED
      BY <1>2, <1>3, <3>1, <3>3 DEF OnlyOf, UserOf
  <2>2. QED
    BY <1>1, <1>2, <1>4, <2>1 DEF OnlyIntendedUser
<1>13. ASSUME NEW d \in places PROVE CallOK(d)'
  <2>0. d[1] \in Tabs
    BY DEF Tabs
  <2>1. CASE d = c
    BY <1>0, <1>1, <1>2, <1>6, <2>1 DEF CallOK, Sent
  <2>2. CASE d # c
    <3>1. call'[d] = call[d]
      BY <1>1, <1>6, <2>2
    <3>2. PICK p, x, y, who : /\ p = call[d] /\ who = intended
                              /\ x = session[d[1]] /\ y = session'[d[1]]
      OBVIOUS
    <3>3. Sent(p, x, who)
      BY <3>2 DEF Inv, CallOK
    <3>4. y = x \/ y.refresh = RefreshToken(Len(owner) + 1)
      BY <1>0, <1>4, <1>8, <1>9, <2>0, <3>2
    <3>5. Sent(p, y, who)'
      BY <1>1, <1>3, <1>4, <3>3, <3>4, SentIsOlder
    <3>6. page'[d[1]] = "loading" => call'[d] = Idle
      BY <1>2, <3>1 DEF Inv, CallOK
    <3>7. QED
      BY <1>2, <3>1, <3>2, <3>5, <3>6 DEF CallOK, Sent
  <2>3. QED
    BY <2>1, <2>2
<1>14. QED
  BY <1>2, <1>7, <1>10, <1>11, <1>12, <1>13 DEF Inv

\* Only the call c changes, to a request that may be there, or to none.
LEMMA CallGoesOn ==
  ASSUME Inv, NEW c \in places, AtRest(c[1]), NEW r, r \in Calls,
         Sent(r, session[c[1]], intended),
         call' = [call EXCEPT ![c] = r], smooth' \in BOOLEAN,
         UNCHANGED <<places, owner, expired, session, storage, copied, page, login, intended>>
  PROVE  Inv'
<1>1. /\ login \in [Tabs -> Users \cup {Nobody}] /\ call \in [places -> Calls]
      /\ page \in [Tabs -> Pages] /\ expired \in [Kinds -> 0 .. Len(owner)]
  BY Types DEF Inv
<1>2. call' \in [places -> Calls]
  BY <1>1
<1>3. \A d \in places : \/ call'[d] = call[d]
                        \/ /\ Sent(call'[d], session[d[1]], intended)
                           /\ page'[d[1]] # "loading"
  BY <1>1 DEF AtRest
<1>4. \A u \in Tabs : Waiting(u)' => Waiting(u)
  BY DEF Waiting
<1>5. QED
  BY <1>1, <1>2, <1>3, <1>4, SessionsStay DEF Inv, DashboardNeedsToken

\* After an answer, or none, the next call of the page begins.
LEMMA EndsInv ==
  ASSUME Inv, NEW c \in places, AtRest(c[1]), Ends(c), smooth' \in BOOLEAN
  PROVE  Inv'
<1>0. PICK s, r : s = session[c[1]] /\ r = AfterCall(c, s)
  OBVIOUS
<1>1. /\ owner \in Seq(Users) /\ s \in Sessions /\ c[1] \in Tabs
      /\ intended # "unknown" => OnlyOf(s, intended)
  BY <1>0, Types DEF Inv, OnlyIntendedUser, Tabs
<1>2. r \in Calls /\ Sent(r, s, intended)
  BY <1>0, <1>1, IdleIsCall, AuthFetchSends DEF AfterCall, Sent
<1>3. QED
  BY <1>0, <1>2, CallGoesOn DEF Ends

\* A request that was refused goes on with the refresh token the tab has now.
LEMMA RefreshAgainInv ==
  ASSUME Inv, NEW c \in places, AtRest(c[1]), smooth' \in BOOLEAN,
         call' = [call EXCEPT ![c] = Request("refresh again", session[c[1]].refresh, call[c].more)],
         UNCHANGED <<places, owner, expired, session, storage, copied, page, login, intended>>
  PROVE  Inv'
<1>0. PICK s, r : s = session[c[1]] /\ r = Request("refresh again", s.refresh, call[c].more)
  OBVIOUS
<1>1. /\ owner \in Seq(Users) /\ s \in Sessions /\ call[c].more \in BOOLEAN
      /\ intended # "unknown" => OnlyOf(s, intended)
  BY <1>0, Types DEF Inv, OnlyIntendedUser, Tabs, Calls
<1>2. r \in Calls /\ Sent(r, s, intended)
  BY <1>0, <1>1, RefreshAgainSends
<1>3. QED
  BY <1>0, <1>2, CallGoesOn

LEMMA ContinuesInv ==
  ASSUME Inv, NEW c \in places, Continues(c)
  PROVE  Inv'
<1>0. smooth \in BOOLEAN /\ AtRest(c[1])
  BY Types DEF Inv, Continues
<1>1. CASE Renewed(c)
  BY <1>0, <1>1, RenewedInv
<1>2. CASE NotRenewed(c)
  BY <1>0, <1>2, GiveUpInv DEF NotRenewed, Refused
<1>3. CASE Unauthorized(c)
  BY <1>0, <1>3, GiveUpInv, RefreshAgainInv DEF Unauthorized, Refused
<1>4. CASE UnauthorizedAgain(c)
  BY <1>0, <1>4, GiveUpInv DEF UnauthorizedAgain, Refused
<1>5. CASE Answered(c) \/ Rejects(c)
  BY <1>0, <1>5, EndsInv DEF Answered, Rejects
<1>6. QED
  BY <1>1, <1>2, <1>3, <1>4, <1>5 DEF Continues
------------------------------------------------------------------------------
LEMMA NextInv == Inv /\ [Next]_vars => Inv'
<1> SUFFICES ASSUME Inv, [Next]_vars PROVE Inv'
  OBVIOUS
<1>1. ASSUME NEW t \in Tabs, Acts(t) PROVE Inv'
  BY <1>1, ClickLogoutInv, SubmitLoginInv, LoginSucceedsInv, LoginRefusedInv, NavigateInv,
     LoadInv DEF Acts
<1>2. ASSUME NEW t \in Tabs, Tab(t) PROVE Inv'
  BY <1>1, <1>2, StoreInv, ReadInv, StartInv DEF Tab
<1>3. ASSUME NEW c \in places, Continues(c) PROVE Inv'
  BY <1>3, ContinuesInv
<1>4. ASSUME NEW kind \in Kinds, Expire(kind) PROVE Inv'
  BY <1>4, ExpireInv
<1>5. CASE UNCHANGED vars
  BY <1>5, StutterInv
<1>6. QED
  BY <1>2, <1>3, <1>4, <1>5 DEF Next, Kinds

LEMMA InvAlways == Spec => []Inv
<1>1. QED
  BY InitInv, NextInv, PTL DEF Spec

\* Tabs, localStorage and requests always hold tokens that the server has issued.
THEOREM TypeCorrect == Spec => []TypeOK
<1>1. Inv => TypeOK
  BY DEF Inv
<1>2. QED
  BY <1>1, InvAlways, PTL

\* No tab shows the dashboard without an access token, whatever items it has read
\* while other tabs wrote theirs (useAuth.ts:8-10, 75, router/index.ts:16).
THEOREM DashboardHasToken == Spec => []DashboardNeedsToken
<1>1. Inv => DashboardNeedsToken
  BY DEF Inv
<1>2. QED
  BY <1>1, InvAlways, PTL

\* After an undisturbed logout or login nothing of anybody else comes back, in any
\* tab, by any call or reload, though items are copied one by one
\* (useAuth.ts:8-10, 44-51, 68-76).
THEOREM NobodyComesBack == Spec => []OnlyIntendedUser
<1>1. Inv => OnlyIntendedUser
  BY DEF Inv
<1>2. QED
  BY <1>1, InvAlways, PTL

\* A call ends only a session whose tokens the server refuses, or one that began
\* after the call had sent its own (useAuth.ts:80-84, 94-104).
THEOREM OnlyRefusedEnds == Spec => EndsOnlyWhenRefused
<1> DEFINE Step == \A c \in places :
       LET s == session[c[1]]
       IN  /\ s # LoggedOut /\ session'[c[1]] = LoggedOut
           /\ smooth'
           /\ Continues(c)
           => \/ ~ Valid(s.refresh, "refresh")
              \/ call[c].step = "ask again" /\ ~ Valid(call[c].sent, "access")
              \/ s.refresh.issue > call[c].sent.issue
<1>1. Inv => Step
  <2> SUFFICES ASSUME Inv, NEW c \in places,
                      session[c[1]] # LoggedOut, session'[c[1]] = LoggedOut, smooth',
                      Continues(c)
               PROVE  \/ ~ Valid(session[c[1]].refresh, "refresh")
                      \/ call[c].step = "ask again" /\ ~ Valid(call[c].sent, "access")
                      \/ session[c[1]].refresh.issue > call[c].sent.issue
    OBVIOUS
  <2>1. /\ c[1] \in Tabs /\ owner \in Seq(Users) /\ session[c[1]] \in Sessions
        /\ session \in [Tabs -> Sessions]
    BY Types DEF Inv, Tabs
  <2>2. CASE NotRenewed(c)
    <3>1. ~ Valid(call[c].sent, "refresh") /\ call[c].step \in Refreshing
      BY <2>2 DEF NotRenewed, Refused
    <3>2. QED
      BY <2>1, <3>1, RefusedIsNotNewer DEF Inv, CallOK
  <2>3. CASE UnauthorizedAgain(c)
    BY <2>3 DEF UnauthorizedAgain, Refused
  <2>4. CASE Unauthorized(c)
    <3>1. session[c[1]].refresh = NoToken
      BY <2>4 DEF Unauthorized
    <3>2. QED
      BY <3>1 DEF Valid, NoToken
  <2>5. CASE Renewed(c)
    <3>1. session'[c[1]].access = AccessToken(Len(owner) + 1)
      BY <2>1, <2>5 DEF Renewed, SetTokens, SessionOf
    <3>2. LoggedOut.access # AccessToken(Len(owner) + 1)
      BY DEF LoggedOut, AccessToken, NoToken
    <3>3. QED
      BY <3>1, <3>2
  <2>6. CASE Answered(c) \/ Rejects(c)
    BY <2>6 DEF Answered, Rejects, Ends
  <2>7. QED
    BY <2>2, <2>3, <2>4, <2>5, <2>6 DEF Continues
<1>2. QED
  BY <1>1, InvAlways, PTL DEF EndsOnlyWhenRefused
==============================================================================
