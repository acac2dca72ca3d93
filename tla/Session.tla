------------------------------- MODULE Session -------------------------------
(***************************************************************************)
(* Who is logged in: the tokens a tab of the browser keeps (useAuth.ts,    *)
(* router/index.ts, LoginForm.vue), the copy in localStorage that all tabs *)
(* share, the requests under way, and the server that issues and validates *)
(* tokens (auth_handler.go, jwt.go, middleware.go).                        *)
(*                                                                         *)
(* The server keeps no state.  Its answers to Login and Refresh that carry *)
(* tokens are numbered; a token is its type and the number of its answer.  *)
(* The tokens of a type expire in the order of their answers, by the clock *)
(* of the server when it validates and by that of the browser in isExpired.*)
(*                                                                         *)
(* An answer is one step with what the tab does on it: a browser runs the  *)
(* code from one await for the network to the next without interruption,   *)
(* and for a server without state the moment at which it handles a request *)
(* makes no difference but for the order of numbers.  What other tabs see  *)
(* is localStorage, which has no lock: a tab writes and reads its three    *)
(* items one by one, and the tabs interleave between any two of them.      *)
(***************************************************************************)
EXTENDS Integers, Sequences

CONSTANTS
  Layouts,   \* sets of places <<tab, k>>; a behaviour has the places of one
  MaxIssues, \* bound: answers that carry tokens, in each layout
  MaxLapses, \* bound: expirations, by one clock or the other, in each layout
  Users,
  Nobody

ASSUME SessionAssumption ==
  /\ MaxIssues \in [Layouts -> Nat] /\ MaxLapses \in [Layouts -> Nat]
  /\ Nobody \notin Users /\ "unknown" \notin Users \cup {Nobody}
  /\ \A l \in Layouts : Nobody \notin l

VARIABLES
  places,   \* room for the requests of mounted pages, in each open tab; fixed
  owner,    \* owner[i]: the user of the i-th answer with tokens
  expired,  \* tokens up to these answers have expired, by type and at "browser"
  session,  \* accessToken, refreshToken and username of each tab
  storage,  \* the same in localStorage
  copied,   \* how many of the items each tab has copied to or from localStorage
  page,     \* the route each tab shows, or "loading"
  login,    \* the user whose login the tab waits for, or Nobody
  call,     \* the requests of fetchSources and syncLogs
  smooth,   \* history: nothing has failed but for the fault of a token
  intended  \* history: the only user there may be now, Nobody, or "unknown"

vars ==
  <<places, owner, expired, session, storage, copied, page, login, call, smooth, intended>>

Tabs == {c[1] : c \in places}
Issues == 1 .. Len(owner)
NoToken == [type |-> "none", issue |-> 0]
AccessToken(i) == [type |-> "access", issue |-> i]
RefreshToken(i) == [type |-> "refresh", issue |-> i]
LoggedOut == [access |-> NoToken, refresh |-> NoToken, user |-> Nobody]

\* The items in the order in which they are written and read, and those to come.
Parts == {"access", "refresh", "user"}
Items == <<"access", "refresh", "user">>
ToCopy(t) == {Items[k] : k \in copied[t] + 1 .. 3}

\* A tab that is not in the middle of setTokens, logout or its start.
AtRest(t) == page[t] # "loading" /\ copied[t] = 3

\* Whose an item is; the session s has nothing of another user than who.
OwnerOf(token) == IF token = NoToken THEN Nobody ELSE owner[token.issue]
UserOf(item, s) == IF item = "user" THEN s.user ELSE OwnerOf(s[item])
OnlyOf(s, who) == \A item \in Parts : UserOf(item, s) \in {who, Nobody}

Idle == [step |-> "idle", sent |-> NoToken, more |-> FALSE]
Refreshing == {"refresh", "refresh again"}
Asking == {"ask", "ask again"}
Waiting(t) == login[t] # Nobody

Init ==
  /\ places \in Layouts
  /\ owner = <<>>
  /\ expired = [kind \in {"access", "refresh", "browser"} |-> 0]
  /\ session = [t \in Tabs |-> LoggedOut]
  /\ storage = LoggedOut
  /\ copied = [t \in Tabs |-> 3]
  /\ page = [t \in Tabs |-> "login"]
  /\ login = [t \in Tabs |-> Nobody]
  /\ call = [c \in places |-> Idle]
  /\ smooth = TRUE
  /\ intended = Nobody

\* Nothing but tab t, its form and the call c holds tokens or may bring some.
Quiet(t, c) ==
  /\ \A d \in places \ {c} : call[d].step \notin Refreshing
  /\ \A u \in Tabs \ {t} : ~ Waiting(u) /\ page[u] # "loading" /\ session[u] = LoggedOut
------------------------------------------------------------------------------
(* The server. *)

\* validateWithType.
Valid(token, type) == token.type = type /\ token.issue > expired[type]

\* GenerateTokenPair; the answer has the number i.
Issue(user, i) ==
  /\ Len(owner) < MaxIssues[places]
  /\ i = Len(owner) + 1
  /\ owner' = Append(owner, user)

\* The handlers when they succeed; a Login has the right password.
Login(user, i) == Issue(user, i)
Refresh(token, i) == Valid(token, "refresh") /\ Issue(owner[token.issue], i)

\* A token of this type is refused, as it must be, or because a key file cannot
\* be read or a proxy fails.
Refused(token, type) ==
  \/ ~ Valid(token, type) /\ UNCHANGED smooth
  \/ smooth' = FALSE

\* Nothing relates the lifetimes of the two types.
Expire(kind) ==
  /\ expired[kind] < Len(owner)
  /\ expired["access"] + expired["refresh"] + expired["browser"] < MaxLapses[places]
  /\ expired' = [expired EXCEPT ![kind] = @ + 1]
  /\ UNCHANGED <<places, owner, session, storage, copied, page, login, call, smooth, intended>>
------------------------------------------------------------------------------
(* A tab. *)

SessionOf(i, user) == [access |-> AccessToken(i), refresh |-> RefreshToken(i), user |-> user]

\* Mutant of SetTokens: the two tokens change places.
SetTokensSwapped(t, i, user) ==
  LET s == [access |-> RefreshToken(i), refresh |-> AccessToken(i), user |-> user]
  IN  session' = [session EXCEPT ![t] = s] /\ copied' = [copied EXCEPT ![t] = 0]

\* The refs are set; the items follow, each by a Store.
SetTokens(t, i, user) ==
  /\ session' = [session EXCEPT ![t] = SessionOf(i, user)]
  /\ copied' = [copied EXCEPT ![t] = 0]

\* setItem, or removeItem, of the next item.
Store(t) ==
  /\ page[t] # "loading" /\ copied[t] < 3
  /\ LET item == Items[copied[t] + 1]
     IN  storage' = [storage EXCEPT ![item] = session[t][item]]
  /\ copied' = [copied EXCEPT ![t] = @ + 1]
  /\ UNCHANGED <<places, owner, expired, session, page, login, call, smooth, intended>>

IsExpired(token) == token.issue <= expired["browser"]
IsAuthenticated(s) == s.access # NoToken /\ ~ IsExpired(s.access)

\* router.beforeEach with the session s.
Guard(to, s) == IF IsAuthenticated(s) THEN "dashboard"
                ELSE IF to = "dashboard" THEN "login" ELSE to

Request(step, token, more) == [step |-> step, sent |-> token, more |-> more]

\* authFetch up to its first await.  Without a refresh token none is sent, and
\* NotRenewed is all that can follow.
AuthFetch(s, more) ==
  IF s.access # NoToken /\ IsExpired(s.access)
  THEN Request("refresh", s.refresh, more)
  ELSE Request("ask", s.access, more)

\* After fetchSources, whatever its result, comes syncLogs.
AfterCall(c, s) == IF call[c].more THEN AuthFetch(s, FALSE) ELSE Idle

\* The page becomes p with the session s.  When the dashboard is mounted its
\* onMounted starts loading.  Bound: there is a place for it.
Show(t, p, s) ==
  /\ page' = [page EXCEPT ![t] = p]
  /\ IF p = "dashboard" /\ page[t] # "dashboard"
     THEN \E c \in places :
            /\ c[1] = t /\ call[c] = Idle
            /\ call' = [call EXCEPT ![c] = AuthFetch(s, TRUE)]
     ELSE UNCHANGED call

\* Mutants of LogOut: localStorage is not cleared; the page stays.
LogOutKeepingStorage(t, c) ==
  /\ session' = [session EXCEPT ![t] = LoggedOut]
  /\ page' = [page EXCEPT ![t] = "login"]
  /\ intended' = IF Quiet(t, c) /\ ~ Waiting(t) THEN Nobody ELSE intended
  /\ UNCHANGED copied

LogOutStaying(t, c) ==
  /\ session' = [session EXCEPT ![t] = LoggedOut]
  /\ copied' = [copied EXCEPT ![t] = 0]
  /\ intended' = IF Quiet(t, c) /\ ~ Waiting(t) THEN Nobody ELSE intended
  /\ UNCHANGED page

\* logout(), by the user (then c is no call) or by the call c.
LogOut(t, c) ==
  /\ session' = [session EXCEPT ![t] = LoggedOut]
  /\ copied' = [copied EXCEPT ![t] = 0]
  /\ page' = [page EXCEPT ![t] = "login"]
  /\ intended' = IF Quiet(t, c) /\ ~ Waiting(t) THEN Nobody ELSE intended

ClickLogout(t) ==
  /\ page[t] = "dashboard"
  /\ LogOut(t, Nobody)
  /\ UNCHANGED <<places, owner, expired, storage, login, call, smooth>>

\* When fetch rejects, submit ends without a handler and loading stays true: the
\* form waits as if for an answer, until the page is loaded again.
\* Bound: one login request of a tab at a time.
SubmitLogin(t, user) ==
  /\ page[t] = "login" /\ login[t] = Nobody
  /\ login' = [login EXCEPT ![t] = user]
  /\ intended' = "unknown"
  /\ UNCHANGED <<places, owner, expired, session, storage, copied, page, call, smooth>>

LoginSucceeds(t) ==
  LET i == Len(owner) + 1
      s == SessionOf(i, login[t])
  IN  /\ Waiting(t)
      /\ Login(login[t], i)
      /\ SetTokens(t, i, login[t])
      /\ Show(t, IF page[t] = "login" THEN Guard("dashboard", s) ELSE page[t], s)
      /\ login' = [login EXCEPT ![t] = Nobody]
      /\ intended' = IF Quiet(t, Nobody) THEN login[t] ELSE "unknown"
      /\ UNCHANGED <<places, expired, storage, smooth>>

LoginRefused(t) ==
  /\ Waiting(t)
  /\ login' = [login EXCEPT ![t] = Nobody]
  /\ UNCHANGED <<places, owner, expired, session, storage, copied, page, call, smooth,
                 intended>>

\* The user goes back or forward.
Navigate(t, to) ==
  /\ to # page[t]
  /\ Guard(to, session[t]) = to
  /\ Show(t, to, session[t])
  /\ UNCHANGED <<places, owner, expired, session, storage, copied, login, smooth, intended>>

\* The page is loaded again; what was under way is forgotten.  A tab that starts
\* while localStorage still has an item of another user may read it.
Load(t) ==
  /\ session' = [session EXCEPT ![t] = LoggedOut]
  /\ copied' = [copied EXCEPT ![t] = 0]
  /\ page' = [page EXCEPT ![t] = "loading"]
  /\ login' = [login EXCEPT ![t] = Nobody]
  /\ call' = [c \in places |-> IF c[1] = t THEN Idle ELSE call[c]]
  /\ intended' = IF OnlyOf(storage, intended) THEN intended ELSE "unknown"
  /\ UNCHANGED <<places, owner, expired, storage, smooth>>

\* getItem of the next item.
Read(t) ==
  /\ page[t] = "loading" /\ copied[t] < 3
  /\ LET item == Items[copied[t] + 1]
     IN  session' = [session EXCEPT ![t][item] = storage[item]]
  /\ copied' = [copied EXCEPT ![t] = @ + 1]
  /\ UNCHANGED <<places, owner, expired, storage, page, login, call, smooth, intended>>

\* The first navigation, to the address of the page.
Start(t, to) ==
  /\ page[t] = "loading" /\ copied[t] = 3
  /\ Show(t, Guard(to, session[t]), session[t])
  /\ UNCHANGED <<places, owner, expired, session, storage, copied, login, smooth, intended>>
------------------------------------------------------------------------------
(* The rest of authFetch, for the call c. *)

\* refreshTokens succeeds; the request goes out with the new token.
Renewed(c) ==
  LET i == Len(owner) + 1
  IN  /\ call[c].step \in Refreshing
      /\ Refresh(call[c].sent, i)
      /\ SetTokens(c[1], i, owner[call[c].sent.issue])
      /\ call' = [call EXCEPT ![c] =
                    Request(IF call[c].step = "refresh" THEN "ask" ELSE "ask again",
                            AccessToken(i), call[c].more)]
      /\ UNCHANGED <<places, expired, storage, page, login, smooth, intended>>

GiveUp(c) ==
  /\ LogOut(c[1], c)
  /\ call' = [call EXCEPT ![c] = AfterCall(c, LoggedOut)]
  /\ UNCHANGED <<places, owner, expired, storage, login>>

NotRenewed(c) ==
  /\ call[c].step \in Refreshing
  /\ Refused(call[c].sent, "refresh")
  /\ GiveUp(c)

\* Mutant of Unauthorized: it does not try to refresh.
UnauthorizedGivesUp(c) ==
  /\ call[c].step = "ask"
  /\ Refused(call[c].sent, "access")
  /\ GiveUp(c)

\* 401: a refresh with the token the tab has by now, if it has one.
Unauthorized(c) ==
  LET s == session[c[1]]
  IN  /\ call[c].step = "ask"
      /\ Refused(call[c].sent, "access")
      /\ \/ s.refresh = NoToken /\ GiveUp(c)
         \/ /\ s.refresh # NoToken
            /\ call' = [call EXCEPT ![c] = Request("refresh again", s.refresh, call[c].more)]
            /\ UNCHANGED <<places, owner, expired, session, storage, copied, page, login,
                           intended>>

UnauthorizedAgain(c) ==
  /\ call[c].step = "ask again"
  /\ Refused(call[c].sent, "access")
  /\ GiveUp(c)

Ends(c) ==
  /\ call' = [call EXCEPT ![c] = AfterCall(c, session[c[1]])]
  /\ UNCHANGED <<places, owner, expired, session, storage, copied, page, login, intended>>

Answered(c) ==
  /\ call[c].step \in Asking
  /\ Valid(call[c].sent, "access")
  /\ Ends(c)
  /\ UNCHANGED smooth

\* fetch rejects: the caller catches it, nobody is logged out.
Rejects(c) ==
  /\ call[c] # Idle
  /\ ~ (call[c].step \in Refreshing /\ call[c].sent = NoToken)
  /\ smooth' = FALSE
  /\ Ends(c)
------------------------------------------------------------------------------
Continues(c) ==
  /\ AtRest(c[1])
  /\ \/ Renewed(c) \/ NotRenewed(c) \/ Unauthorized(c) \/ UnauthorizedAgain(c)
     \/ Answered(c) \/ Rejects(c)

Acts(t) ==
  /\ AtRest(t)
  /\ \/ ClickLogout(t)
     \/ \E u \in Users : SubmitLogin(t, u)
     \/ LoginSucceeds(t) \/ LoginRefused(t)
     \/ \E to \in {"login", "dashboard"} : Navigate(t, to)
     \/ Load(t)

Tab(t) ==
  \/ Acts(t)
  \/ Store(t) \/ Read(t)
  \/ \E to \in {"login", "dashboard"} : Start(t, to)

Next ==
  \/ \E t \in Tabs : Tab(t)
  \/ \E c \in places : Continues(c)
  \/ \E kind \in {"access", "refresh", "browser"} : Expire(kind)

Spec == Init /\ [][Next]_vars
------------------------------------------------------------------------------
(* Properties. *)

Tokens(type) == {NoToken} \cup [type : {type}, issue : Issues]
Sessions == [access : Tokens("access"), refresh : Tokens("refresh"), user : Users \cup {Nobody}]

TypeOK ==
  /\ places \in Layouts
  /\ owner \in Seq(Users) /\ Len(owner) <= MaxIssues[places]
  /\ expired \in [{"access", "refresh", "browser"} -> 0 .. Len(owner)]
  /\ session \in [Tabs -> Sessions] /\ storage \in Sessions
  /\ copied \in [Tabs -> 0 .. 3]
  /\ page \in [Tabs -> {"login", "dashboard", "loading"}]
  /\ login \in [Tabs -> Users \cup {Nobody}]
  /\ call \in [places -> [step : {"idle"} \cup Refreshing \cup Asking,
                         sent : Tokens("access") \cup Tokens("refresh"),
                         more : BOOLEAN]]
  /\ smooth \in BOOLEAN
  /\ intended \in Users \cup {Nobody, "unknown"}

\* When a user logs out, or in, while no other request for tokens is under way
\* and no other tab is logged in or starting, then nothing of anybody, or of
\* anybody else, is left in any tab, after any reload that begins when
\* localStorage has been written, whatever old calls still do and however tabs
\* mix the items of several answers (useAuth.ts:8-10, 44-51, 68-76).  What
\* localStorage still has is about to be overwritten.  A refresh that is under way
\* at that moment does bring the old session back (useAuth.ts:40).
OnlyIntendedUser ==
  intended # "unknown" =>
    /\ \A t \in Tabs : OnlyOf(session[t], intended)
    /\ \A item \in Parts :
         \/ UserOf(item, storage) \in {intended, Nobody}
         \/ \E t \in Tabs : page[t] # "loading" /\ item \in ToCopy(t)

\* The dashboard is shown only in a tab that has an access token, in spite of calls
\* that outlive the page that made them and of items of several answers
\* (useAuth.ts:8-10, 75, router/index.ts:16).
DashboardNeedsToken ==
  \A t \in Tabs : page[t] = "dashboard" => session[t].access # NoToken

\* A call ends a session only when the server refuses its refresh token, or the
\* new access token at once; unless the session began, by the refresh of another
\* call or by a login, after the call had sent the token that was refused
\* (useAuth.ts:80-84, 94-104).
EndsOnlyWhenRefused ==
  [][\A c \in places :
       LET s == session[c[1]]
       IN  /\ s # LoggedOut /\ session'[c[1]] = LoggedOut
           /\ smooth'
           /\ Continues(c)
           => \/ ~ Valid(s.refresh, "refresh")
              \/ call[c].step = "ask again" /\ ~ Valid(call[c].sent, "access")
              \/ s.refresh.issue > call[c].sent.issue]_vars
==============================================================================
