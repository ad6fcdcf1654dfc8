----------------------------- MODULE WebSession -----------------------------
(***************************************************************************)
(* The session of the web client (FinanceLedger.Web): sign-in, sign-out,   *)
(* "View as", and the axios interceptors that attach the identity to each  *)
(* request and renew an expired access token.                              *)
(*                                                                         *)
(* The tokens and the signed-in user lie in localStorage, which the tabs   *)
(* of a browser share.  The acted-as user lies twice in a tab: in its      *)
(* sessionStorage, from which the headers are made, and in the React state *)
(* that the banner shows.  A tab also has its query cache, and at most one *)
(* renewal of the tokens; requests that meet a 401 meanwhile wait for it.  *)
(***************************************************************************)
EXTENDS Naturals, FiniteSets, Sequences

CONSTANTS
  Tab,       \* the tabs of one browser
  Call,      \* the requests the tabs may have out at once
  Person,    \* the users who sign in or are acted as
  MayActAs,  \* pairs <<admin, user>>: whom the server lets an admin act as
  None,
  MaxPairs   \* bound: pairs of tokens ever issued

ASSUME WebSessionAssumption ==
  /\ None \notin Person \union Tab \union [user : Person, write : BOOLEAN]
  /\ MayActAs \subseteq Person \X Person
  /\ MaxPairs \in Nat

VARIABLES
  store,  \* localStorage: the pair of tokens (0: none) and the user
  owner,  \* whom each issued pair of tokens belongs to
  live,   \* the pairs whose access token the server accepts
  fresh,  \* the pairs whose refresh token was not used yet
  tab,    \* per tab: its storage, state and cache
  call    \* per request: where it is and what it carries

vars == <<store, owner, live, fresh, tab, call>>

Acting == [user : Person, write : BOOLEAN]
Kind == {"none", "login", "me", "read", "write"}
SignedOut == [pair |-> 0, user |-> None]
Free == [tab |-> None, kind |-> "none", at |-> "free", pair |-> 0,
         as |-> None, retried |-> FALSE, dropped |-> FALSE, who |-> None]

\* Fault: a reload keeps the headers of View as and forgets the banner.
LoadedUnacting(st, acting) ==
  [real |-> st.user, actAs |-> None, stored |-> acting,
   authed |-> st.user # None /\ st.pair # 0, renewing |-> 0,
   cache |-> {}, strayed |-> FALSE, allowed |-> {}, torn |-> FALSE]

\* A page just loaded.  strayed, allowed and torn only record what happened:
\* the cache may hold data of others, for whom changes were ever allowed, and
\* that a start of View as failed while another one's banner was up.
Loaded(st, acting) ==
  [real |-> st.user, actAs |-> acting, stored |-> acting,
   authed |-> st.user # None /\ st.pair # 0, renewing |-> 0,
   cache |-> {}, strayed |-> FALSE, allowed |-> {}, torn |-> FALSE]

Init ==
  /\ store = SignedOut
  /\ owner = <<>>
  /\ live = {}
  /\ fresh = {}
  /\ tab = [t \in Tab |-> Loaded(SignedOut, None)]
  /\ call = [c \in Call |-> Free]

\* The effective user, as the screens show it.
Shown(t) == IF tab[t].actAs # None THEN tab[t].actAs.user ELSE tab[t].real
CallsOf(t) == {c \in Call : call[c].tab = t}
Starting(t) == {c \in CallsOf(t) : call[c].kind = "me"}
SigningIn(t) == \E c \in CallsOf(t) : call[c].kind = "login"

\* The tab is past the sign-in page, which offers nothing but to sign in.
InApp(t) == tab[t].authed /\ ~SigningIn(t)

\* The tokens of the tab belong to someone else than its signed-in user.
Foreign(state, st, own) ==
  st.pair # 0 /\ state.real # None /\ own[st.pair] # state.real

\* What every change of the shared store means for the tabs.
Marked(tabs, st, own) ==
  [t \in Tab |-> [tabs[t] EXCEPT !.strayed = @ \/ Foreign(tabs[t], st, own)]]

\* Fault: what is being read still lands in the emptied cache.
KeepReads(t, calls) == calls

\* queryClient.clear(): the cache is emptied, and what is being read for it
\* has nowhere to go.
DropReads(t, calls) ==
  [c \in Call |-> IF calls[c].tab = t /\ calls[c].kind = "read"
                    THEN [calls[c] EXCEPT !.dropped = TRUE] ELSE calls[c]]
Emptied(state) == [state EXCEPT !.cache = {}, !.strayed = FALSE]

\* The headers the request interceptor sets; those of an earlier try stay
\* where it sets none.
Stamped(r, state, st) ==
  [r EXCEPT !.at = "sent", !.pair = st.pair,
            !.as = IF state.stored # None THEN state.stored ELSE @]
-----------------------------------------------------------------------------
(* Sign-in and sign-out: Login, AuthContext. *)

\* Somebody signed in can go to /login too: the page is loaded for that, and
\* no request is out.
BeginLogin(t, c, p) ==
  /\ call[c] = Free
  /\ IF tab[t].authed THEN CallsOf(t) = {} ELSE ~SigningIn(t)
  /\ call' = [call EXCEPT ![c] = [Free EXCEPT !.tab = t, !.kind = "login",
                                              !.at = "sent", !.who = p]]
  /\ UNCHANGED <<store, owner, live, fresh, tab>>

\* Tokens the server issues to p.
Issue(p) ==
  /\ Len(owner) < MaxPairs
  /\ owner' = Append(owner, p)
  /\ live' = live \union {Len(owner) + 1}

LoginDone(c) ==
  LET t == call[c].tab
      st == [pair |-> Len(owner) + 1, user |-> call[c].who]
  IN /\ call[c].kind = "login"
     /\ Issue(call[c].who)
     /\ fresh' = fresh \union {Len(owner) + 1}
     /\ store' = st
     /\ tab' = Marked([tab EXCEPT ![t] =
                 [Emptied(@) EXCEPT !.real = st.user, !.actAs = None,
                                    !.stored = None, !.authed = TRUE,
                                    !.torn = FALSE]], st, owner')
     /\ call' = [DropReads(t, call) EXCEPT ![c] = Free]

\* The client does not tell the server; the tokens stay valid.
Logout(t) ==
  /\ InApp(t)
  /\ store' = SignedOut
  /\ tab' = [tab EXCEPT ![t] = [Emptied(@) EXCEPT !.real = None, !.actAs = None,
                                                  !.stored = None, !.authed = FALSE,
                                                  !.torn = FALSE]]
  /\ call' = DropReads(t, call)
  /\ UNCHANGED <<owner, live, fresh>>

\* A reload of the page; its requests are gone.
Reload(t) ==
  /\ tab' = Marked([tab EXCEPT ![t] = [Loaded(store, @.stored) EXCEPT
                                         !.allowed = tab[t].allowed]], store, owner)
  /\ call' = [c \in Call |-> IF call[c].tab = t THEN Free ELSE call[c]]
  /\ UNCHANGED <<store, owner, live, fresh>>

\* A tab is closed, and with it its sessionStorage; another takes its place.
Reopen(t) ==
  /\ tab' = Marked([tab EXCEPT ![t] = Loaded(store, None)], store, owner)
  /\ call' = [c \in Call |-> IF call[c].tab = t THEN Free ELSE call[c]]
  /\ UNCHANGED <<store, owner, live, fresh>>

\* Settings: the name in the profile form is put on the effective user, and
\* that user becomes the signed-in one.
SaveProfile(t) ==
  LET st == [store EXCEPT !.user = Shown(t)]
  IN /\ InApp(t)
     /\ store' = st
     /\ tab' = Marked([tab EXCEPT ![t].real = st.user,
                                  ![t].authed = st.pair # 0], st, owner)
     /\ UNCHANGED <<owner, live, fresh, call>>
-----------------------------------------------------------------------------
(* View as: ViewAsDialog, ActingAsBanner, AuthContext. *)

\* Fault: changes are allowed unless the admin turns them off.
HeadersWriting(p, write) == [user |-> p, write |-> TRUE]
Headers(p, write) == [user |-> p, write |-> write]

\* The headers change first, then the server is asked who we are.  Each page
\* has its own dialog, so a second start may overtake a slow one.
StartActing(t, c, p, write) ==
  /\ InApp(t) /\ tab[t].actAs = None
  /\ <<tab[t].real, p>> \in MayActAs
  /\ call[c] = Free
  /\ LET state == [tab[t] EXCEPT !.stored = Headers(p, write),
                     !.strayed = TRUE,
                     !.allowed = IF write THEN @ \union {p} ELSE @]
     IN /\ tab' = [tab EXCEPT ![t] = state]
        /\ call' = [call EXCEPT ![c] =
             Stamped([Free EXCEPT !.tab = t, !.kind = "me"], state, store)]
  /\ UNCHANGED <<store, owner, live, fresh>>

\* me() answered: now the tab shows whom its headers name.
ActingConfirmed(t, c) ==
  [tab EXCEPT ![t] = [Emptied(@) EXCEPT !.actAs = call[c].as,
                                        !.stored = call[c].as, !.torn = FALSE,
                                        !.authed = tab[t].real # None /\ store.pair # 0]]

SetCanWrite(t, write) ==
  /\ InApp(t) /\ tab[t].actAs # None /\ tab[t].stored # None
  /\ tab' = [tab EXCEPT
       ![t].stored.write = write,
       ![t].actAs = [tab[t].stored EXCEPT !.write = write],
       ![t].authed = store.pair # 0,
       ![t].allowed = IF write THEN @ \union {tab[t].stored.user} ELSE @]
  /\ UNCHANGED <<store, owner, live, fresh, call>>

StopActing(t) ==
  /\ InApp(t) /\ tab[t].actAs # None
  /\ tab' = Marked([tab EXCEPT ![t] =
               [Emptied(@) EXCEPT !.actAs = None, !.stored = None, !.torn = FALSE,
                                  !.authed = store.pair # 0]], store, owner)
  /\ call' = DropReads(t, call)
  /\ UNCHANGED <<store, owner, live, fresh>>
-----------------------------------------------------------------------------
(* Requests and their answers: axiosClient, UserContextMiddleware. *)

Send(t, c, kind) ==
  /\ InApp(t)
  /\ call[c] = Free
  /\ call' = [call EXCEPT ![c] =
       Stamped([Free EXCEPT !.tab = t, !.kind = kind], tab[t], store)]
  /\ UNCHANGED <<store, owner, live, fresh, tab>>

\* The server's verdict; it re-checks View as on every request.
Verdict(r) ==
  IF r.pair \notin live THEN "401"
  ELSE IF /\ r.as # None
          /\ \/ <<owner[r.pair], r.as.user>> \notin MayActAs
             \/ r.kind = "write" /\ ~r.as.write
    THEN "403"
  ELSE "ok"
ReadBy(r) == IF r.as # None THEN r.as.user ELSE owner[r.pair]

Answered(c) ==
  /\ call[c].at = "sent" /\ call[c].kind # "login"
  /\ Verdict(call[c]) = "ok"
  /\ LET t == call[c].tab
     IN IF call[c].kind = "me"
          THEN /\ tab' = Marked(ActingConfirmed(t, c), store, owner)
               /\ call' = [DropReads(t, call) EXCEPT ![c] = Free]
          ELSE /\ tab' = IF call[c].kind = "read" /\ ~call[c].dropped
                           THEN [tab EXCEPT ![t].cache = @ \union {ReadBy(call[c])}]
                           ELSE tab
               /\ call' = [call EXCEPT ![c] = Free]
  /\ UNCHANGED <<store, owner, live, fresh>>

\* Fault: a start of View as that failed leaves its headers on.
AfterThrowKept(state, kind) == state

\* What a tab does when a request of it throws: a start of View as takes the
\* headers off, those of a start confirmed meanwhile too, whose banner stays.
AfterThrow(state, kind) ==
  IF kind = "me" THEN [state EXCEPT !.stored = None, !.strayed = TRUE,
                                    !.torn = state.actAs # None]
  ELSE state

\* An error other than 401 (403, no network), a 401 to a second try, or a
\* refused sign-in: the caller gets it.
Refused(c) ==
  /\ call[c].at = "sent"
  /\ tab' = [tab EXCEPT ![call[c].tab] = AfterThrow(@, call[c].kind)]
  /\ call' = [call EXCEPT ![c] = Free]
  /\ UNCHANGED <<store, owner, live, fresh>>

\* handleAuthFailure: everything stored is cleared and, except on the sign-in
\* page, the page is loaded anew.  The requests in thrown have thrown.  Requests
\* other than sign-ins, which alone lead here, are out on the sign-in page only
\* when nobody is signed in.
AuthFailure(t, thrown, renewing) ==
  /\ store' = SignedOut
  /\ IF tab[t].authed
       THEN /\ tab' = [tab EXCEPT ![t] = Loaded(SignedOut, None)]
            /\ call' = [c \in Call |-> IF call[c].tab = t THEN Free ELSE call[c]]
       ELSE /\ tab' = [tab EXCEPT ![t].stored = None, ![t].renewing = renewing]
            /\ call' = [c \in Call |-> IF c \in thrown THEN Free ELSE call[c]]

\* A first 401: the request waits for the tokens to be renewed, and starts
\* the renewal if none is out.
Expired(c) ==
  LET t == call[c].tab
  IN /\ call[c].at = "sent" /\ call[c].kind # "login"
     /\ Verdict(call[c]) = "401"
     /\ ~call[c].retried
     /\ IF store.pair = 0
          THEN AuthFailure(t, {c}, tab[t].renewing)
          ELSE /\ tab' = [tab EXCEPT ![t].renewing = IF @ = 0 THEN store.pair ELSE @]
               /\ call' = [call EXCEPT ![c].retried = TRUE, ![c].at = "queued"]
               /\ UNCHANGED store
     /\ UNCHANGED <<owner, live, fresh>>
-----------------------------------------------------------------------------
(* Renewal of the tokens: axiosClient, AuthService.RefreshAsync. *)

Queued(t) == {c \in CallsOf(t) : call[c].at = "queued"}

\* The new pair replaces whatever the store holds by now, and all that waited
\* is sent again.
Renewed(t) ==
  LET r == tab[t].renewing
      st == [store EXCEPT !.pair = Len(owner) + 1]
  IN /\ r \in fresh
     /\ Issue(owner[r])
     /\ fresh' = (fresh \ {r}) \union {Len(owner) + 1}
     /\ store' = st
     /\ tab' = Marked([tab EXCEPT ![t].renewing = 0], st, owner')
     /\ call' = [c \in Call |-> IF c \in Queued(t)
                                  THEN Stamped(call[c], tab[t], st) ELSE call[c]]

\* Fault: those that waited are not told that the renewal failed.
NotRenewedSilent(t) ==
  /\ tab[t].renewing # 0
  /\ fresh' \in {fresh, fresh \ {tab[t].renewing}}
  /\ AuthFailure(t, {}, 0)
  /\ UNCHANGED <<owner, live>>

\* The refresh token was used before, by this or another tab, or the answer
\* is lost (after the server used it up or not).
NotRenewed(t) ==
  /\ tab[t].renewing # 0
  /\ fresh' \in {fresh, fresh \ {tab[t].renewing}}
  /\ AuthFailure(t, Queued(t), 0)
  /\ UNCHANGED <<owner, live>>

\* The access token of a pair runs out (15 minutes).
Expire(n) ==
  /\ n \in live
  /\ live' = live \ {n}
  /\ UNCHANGED <<store, owner, fresh, tab, call>>
-----------------------------------------------------------------------------
Renewal(t) == Renewed(t) \/ NotRenewed(t)
Answer(c) == LoginDone(c) \/ Answered(c) \/ Refused(c) \/ Expired(c)

Next ==
  \/ \E t \in Tab, c \in Call, p \in Person :
       \/ BeginLogin(t, c, p)
       \/ \E write \in BOOLEAN : StartActing(t, c, p, write)
  \/ \E t \in Tab : \/ Logout(t) \/ Reload(t) \/ Reopen(t) \/ SaveProfile(t)
                    \/ StopActing(t) \/ Renewal(t)
                    \/ \E write \in BOOLEAN : SetCanWrite(t, write)
                    \/ \E c \in Call, kind \in {"read", "write"} : Send(t, c, kind)
  \/ \E c \in Call : Answer(c)
  \/ \E n \in live : Expire(n)

Spec == Init /\ [][Next]_vars

\* Every request and every renewal is answered in the end, if only by the
\* time-out of the browser.
FairSpec ==
  Spec /\ \A t \in Tab : WF_vars(Renewal(t)) /\ \A c \in Call : WF_vars(Answer(c))
-----------------------------------------------------------------------------
TokenPair == 0 .. MaxPairs
CallState ==
  [tab : Tab \union {None}, kind : Kind, at : {"free", "sent", "queued"},
   pair : TokenPair, as : Acting \union {None}, retried : BOOLEAN,
   dropped : BOOLEAN, who : Person \union {None}]
TabState ==
  [real : Person \union {None}, actAs : Acting \union {None},
   stored : Acting \union {None}, authed : BOOLEAN, renewing : TokenPair,
   cache : SUBSET Person, strayed : BOOLEAN, allowed : SUBSET Person, torn : BOOLEAN]

\* Types; every pair of tokens in use was issued, to someone who signed in.
TypeOK ==
  /\ store \in [pair : TokenPair, user : Person \union {None}]
  /\ owner \in Seq(Person) /\ Len(owner) <= MaxPairs
  /\ live \subseteq 1 .. Len(owner) /\ fresh \subseteq 1 .. Len(owner)
  /\ tab \in [Tab -> TabState]
  /\ call \in [Call -> CallState]
  /\ store.pair <= Len(owner)
  /\ \A t \in Tab : tab[t].renewing <= Len(owner)
  /\ \A c \in Call : call[c].pair <= Len(owner)

\* A request that waits for a renewal of the tokens has one to wait for: none
\* is left in pendingQueue by a renewal that ended, whatever sign-out or
\* sign-in fell in between.
NoneWaitsInVain ==
  \A c \in Call : call[c].at = "queued" => tab[call[c].tab].renewing # 0

\* Headers and banner name the same user, with the same right to change things
\* ("so an admin can never forget").  Requests name nobody whom the banner does
\* not name once no start of View as is pending; and whom the banner names, the
\* requests name, at any time, unless a start failed under the banner of
\* another: then they go as the admin until View as is ended.
HeadersAreBannered ==
  \A t \in Tab :
    /\ tab[t].stored # None /\ Starting(t) = {} => tab[t].actAs = tab[t].stored
    /\ tab[t].authed /\ tab[t].actAs # None =>
         tab[t].stored = tab[t].actAs \/ tab[t].torn

\* Changes are allowed as another user only in a tab in which they were
\* switched on for that user, through every overtaking, retry and reload.
WritesWereAllowed ==
  \A t \in Tab :
    /\ tab[t].stored # None /\ tab[t].stored.write
         => tab[t].stored.user \in tab[t].allowed
    /\ \A c \in CallsOf(t) : call[c].as # None /\ call[c].as.write
         => call[c].as.user \in tab[t].allowed

\* What a screen shows was read as the user it is shown to, unless since the
\* cache was last emptied a start of View as was under way or failed, or the
\* tokens in the shared store became another user's.
CacheIsOwnUnlessStrayed ==
  \A t \in Tab : tab[t].authed /\ ~tab[t].strayed
                  => tab[t].cache \subseteq {Shown(t)}

\* A tab that has not strayed shows whom its headers name, and the tokens in
\* the store are those of its user.
TabSound(state, st, own) ==
  /\ state.authed => state.real # None
  /\ ~state.strayed => ~Foreign(state, st, own)
  /\ state.authed /\ ~state.strayed => state.stored = state.actAs

\* What is being read for the cache of such a tab is read as the user shown.
CallSound(r, state, own) ==
  /\ r.kind = "login" => r.at = "sent" /\ r.who \in Person
  /\ r.kind = "read" /\ ~r.dropped /\ state.authed /\ ~state.strayed =>
       IF r.as = None THEN state.actAs = None /\ (r.pair # 0 => own[r.pair] = state.real)
       ELSE state.actAs # None /\ state.actAs.user = r.as.user

\* All of this together is preserved by every step.
Inductive ==
  /\ TypeOK /\ NoneWaitsInVain /\ HeadersAreBannered /\ WritesWereAllowed
  /\ CacheIsOwnUnlessStrayed
  /\ \A t \in Tab : TabSound(tab[t], store, owner)
  /\ \A c \in Call : IF call[c].at = "free" THEN call[c] = Free
                     ELSE /\ call[c].tab \in Tab
                          /\ CallSound(call[c], tab[call[c].tab], owner)

\* Every request comes to an end for its caller.
EveryCallSettles ==
  \A c \in Call : call[c].at # "free" ~> call[c].at = "free"
=============================================================================
