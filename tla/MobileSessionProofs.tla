------------------------ MODULE MobileSessionProofs ------------------------
(***************************************************************************)
(* What MobileSession says of the mobile client's session, for any number  *)
(* of requests, persons and pairs of tokens.                               *)
(*                                                                         *)
(* The properties are proved together: what the screens show depends on    *)
(* what a sign-in, the refresh and the sign-outs know while they write the *)
(* storage (LoginSound, RefreshSound, EndingSound), and that no used token *)
(* is presented depends on what is in the storage (FreshKept).  One lemma  *)
(* per action shows that it keeps them all; the conjuncts whose variables  *)
(* an action leaves alone share a step.                                    *)
(***************************************************************************)
EXTENDS MobileSession, TLAPS

USE MobileSessionAssumption
-----------------------------------------------------------------------------
(* Sign-in and sign-out (AuthContext.tsx). *)

\* The sign-in form is sent, while nobody is signed in.
LEMMA BeginLoginStep ==
  ASSUME Inductive, NEW p \in Person, BeginLogin(p)
  PROVE  Inductive'
<1>1. TypeOK'
  BY DEF Inductive, TypeOK, LoginState, BeginLogin, TokenPair
<1>2. ScreenMatchesStorage'
  BY DEF Inductive, ScreenMatchesStorage, Quiet, Ending, BeginLogin
<1>3. LoginSound'
  BY DEF LoginSound, BeginLogin
<1>4. RefreshSound'
  BY DEF Inductive, RefreshSound, Quiet, Ending, BeginLogin
<1>5. FreshKept'
  BY DEF Inductive, FreshKept, BeginLogin
<1>6. NoneWaitsInVain' /\ PresentedOnce' /\ EndingSound'
  BY DEF Inductive, NoneWaitsInVain, Waiting, PresentedOnce, EndingSound,
    BeginLogin
<1>7. QED
  BY <1>1, <1>2, <1>3, <1>4, <1>5, <1>6 DEF Inductive

\* The server answers it with a new pair of tokens.
LEMMA LoginAnsweredStep ==
  ASSUME Inductive, LoginAnswered
  PROVE  Inductive'
<1>1. TypeOK'
  <2>1. store' \in StoreState /\ user' \in Person \union {None}
    BY DEF Inductive, TypeOK, LoginAnswered, Issue
  <2>2. login' \in LoginState
    BY DEF Inductive, TypeOK, LoginState, LoginAnswered, Issue, TokenPair
  <2>3. refresh' \in RefreshState
    BY DEF Inductive, TypeOK, LoginAnswered, Issue
  <2>4. ending' \in [Ender -> EndState]
    BY DEF Inductive, TypeOK, LoginAnswered, Issue
  <2>5. call' \in [Call -> CallState]
    BY DEF Inductive, TypeOK, LoginAnswered, Issue
  <2>6. owner' \in Seq(Person) /\ Len(owner') <= MaxPairs /\ Len(owner) <= Len(owner')
    BY DEF Inductive, TypeOK, LoginSound, LoginAnswered, Issue
  <2>7. /\ fresh' \subseteq 1 .. Len(owner') /\ lost' \subseteq 1 .. Len(owner')
        /\ crossed' \in BOOLEAN
    <3>1. fresh' \subseteq fresh \union {Len(owner')}
      BY DEF Inductive, TypeOK, LoginAnswered, Issue
    <3>2. /\ Len(owner) \in Nat /\ Len(owner') = Len(owner) + 1
          /\ UNCHANGED lost /\ crossed' \in BOOLEAN
      BY DEF Inductive, TypeOK, LoginAnswered, Issue
    <3>3. /\ fresh \subseteq 1 .. Len(owner)
          /\ lost \subseteq 1 .. Len(owner)
      BY DEF Inductive, TypeOK
    <3>4. 1 .. Len(owner) \subseteq 1 .. Len(owner') /\ Len(owner') \in 1 .. Len(owner')
      BY <3>2
    <3>5. QED
      BY <3>1, <3>2, <3>3, <3>4
  <2>8. {store'.access, store'.refresh, login'.pair, refresh'.pair} \subseteq 0 .. Len(owner')
    BY DEF Inductive, TypeOK, LoginAnswered, Issue
  <2>9. QED
    BY <2>1, <2>2, <2>3, <2>4, <2>5, <2>6, <2>7, <2>8 DEF TypeOK
<1>2. PresentedOnce'
  BY DEF Inductive, PresentedOnce, LoginAnswered, Issue
<1>3. ScreenMatchesStorage'
  BY DEF ScreenMatchesStorage, Quiet, LoginAnswered, Issue
<1>4. LoginSound'
  <2>1. /\ Len(owner) \in Nat /\ owner \in Seq(Person)
        /\ login.who \in Person /\ user' = None
    BY DEF Inductive, TypeOK, LoginAnswered, LoginSound
  <2>2. login' = [at |-> "saving", todo |-> Key, pair |-> Len(owner) + 1, who |-> login.who]
    BY DEF LoginAnswered
  <2>3. owner'[Len(owner) + 1] = login.who
    BY <2>1 DEF LoginAnswered, Issue
  <2>4. ~crossed' => ~Ending'
    BY DEF LoginAnswered, Ending
  <2>5. QED
    BY <2>1, <2>2, <2>3, <2>4 DEF LoginSound
<1>5. RefreshSound'
  BY DEF Inductive, RefreshSound, LoginAnswered, Issue
<1>6. EndingSound'
  BY DEF Inductive, EndingSound, Ending, LoginAnswered, Issue
<1>7. FreshKept'
  BY DEF Inductive, TypeOK, FreshKept, LoginAnswered, Issue
<1>8. NoneWaitsInVain'
  BY DEF Inductive, NoneWaitsInVain, Waiting, LoginAnswered
<1>9. QED
  BY <1>1, <1>2, <1>3, <1>4, <1>5, <1>6, <1>7, <1>8 DEF Inductive

\* The server refuses it.
LEMMA LoginRefusedStep ==
  ASSUME Inductive, LoginRefused
  PROVE  Inductive'
<1>1. TypeOK'
  BY DEF Inductive, TypeOK, LoginState, LoginRefused, NoLogin, TokenPair
<1>2. ScreenMatchesStorage'
  BY DEF Inductive, ScreenMatchesStorage, Quiet, Ending, LoginRefused
<1>3. LoginSound'
  BY DEF LoginSound, LoginRefused, NoLogin
<1>4. RefreshSound'
  BY DEF Inductive, RefreshSound, Quiet, Ending, LoginRefused, NoLogin
<1>5. FreshKept'
  BY DEF Inductive, FreshKept, LoginRefused, NoLogin
<1>6. NoneWaitsInVain' /\ PresentedOnce' /\ EndingSound'
  BY DEF Inductive, NoneWaitsInVain, Waiting, PresentedOnce, EndingSound,
    LoginRefused
<1>7. QED
  BY <1>1, <1>2, <1>3, <1>4, <1>5, <1>6 DEF Inductive

\* One token of the sign-in is stored; no sign-out overlaps it, or `crossed' says so.
LEMMA SaveLoginTokenStep ==
  ASSUME Inductive, NEW k \in Tokens, SaveLoginToken(k)
  PROVE  Inductive'
<1>1. TypeOK'
  <2>1. store' \in StoreState /\ user' \in Person \union {None}
    <3>1. /\ store' = [store EXCEPT ![k] = login.pair] /\ store \in StoreState
          /\ login.pair \in TokenPair /\ UNCHANGED user /\ user \in Person \union {None}
      BY DEF Inductive, TypeOK, SaveLoginToken, LoginState
    <3>2. CASE k = "access"
      BY <3>1, <3>2 DEF StoreState
    <3>3. CASE k = "refresh"
      BY <3>1, <3>3 DEF StoreState
    <3>4. QED
      BY <3>2, <3>3 DEF Tokens
  <2>2. login' \in LoginState
    BY DEF Inductive, TypeOK, LoginState, SaveLoginToken
  <2>3. refresh' \in RefreshState
    BY DEF Inductive, TypeOK, SaveLoginToken
  <2>4. ending' \in [Ender -> EndState]
    BY DEF Inductive, TypeOK, SaveLoginToken
  <2>5. call' \in [Call -> CallState]
    BY DEF Inductive, TypeOK, SaveLoginToken
  <2>6. owner' \in Seq(Person) /\ Len(owner') <= MaxPairs /\ Len(owner) <= Len(owner')
    BY DEF Inductive, TypeOK, SaveLoginToken
  <2>7. /\ fresh' \subseteq 1 .. Len(owner') /\ lost' \subseteq 1 .. Len(owner')
        /\ crossed' \in BOOLEAN
    BY DEF Inductive, TypeOK, SaveLoginToken
  <2>8. {store'.access, store'.refresh, login'.pair, refresh'.pair} \subseteq 0 .. Len(owner')
    BY DEF Inductive, TypeOK, SaveLoginToken
  <2>9. QED
    BY <2>1, <2>2, <2>3, <2>4, <2>5, <2>6, <2>7, <2>8 DEF TypeOK
<1>2. ScreenMatchesStorage'
  BY DEF Inductive, ScreenMatchesStorage, LoginSound, Quiet, SaveLoginToken
<1>3. LoginSound'
  <2>1. /\ store' = [store EXCEPT ![k] = login.pair] /\ store \in StoreState
        /\ login' = [login EXCEPT !.todo = @ \ {k}] /\ login \in LoginState
        /\ login.at = "saving" /\ UNCHANGED <<user, owner, crossed, ending>>
    BY DEF Inductive, TypeOK, SaveLoginToken, LoginSound
  <2>2. \A j \in Key \ login'.todo : store'[j] = IF j = k THEN login.pair ELSE store[j]
    <3>1. CASE k = "access"
      BY <2>1, <3>1 DEF StoreState, Key
    <3>2. CASE k = "refresh"
      BY <2>1, <3>2 DEF StoreState, Key
    <3>3. QED
      BY <3>1, <3>2 DEF Tokens
  <2>3. login'.at = "saving" /\ login'.pair = login.pair /\ login'.who = login.who
    BY <2>1
  <2>4. /\ \A j \in Key \ login'.todo : j # k => j \notin login.todo
        /\ k # "user"
    BY <2>1 DEF Tokens
  <2>5. QED
    BY <2>1, <2>2, <2>3, <2>4 DEF Inductive, LoginSound, Ending
<1>4. RefreshSound'
  BY DEF Inductive, LoginSound, RefreshSound, Quiet, SaveLoginToken
<1>5. EndingSound'
  BY DEF Inductive, LoginSound, EndingSound, Ending, SaveLoginToken
<1>6. FreshKept'
  BY DEF Inductive, FreshKept, SaveLoginToken
<1>7. NoneWaitsInVain' /\ PresentedOnce'
  BY DEF Inductive, NoneWaitsInVain, Waiting, PresentedOnce, SaveLoginToken
<1>8. QED
  BY <1>1, <1>2, <1>3, <1>4, <1>5, <1>6, <1>7 DEF Inductive

\* The profile is stored after both tokens.
LEMMA SaveLoginUserStep ==
  ASSUME Inductive, SaveLoginUser
  PROVE  Inductive'
<1>1. TypeOK'
  <2>1. store' \in StoreState /\ login' \in LoginState
    BY DEF Inductive, TypeOK, StoreState, LoginState, SaveLoginUser
  <2>2. UNCHANGED <<user, refresh, ending, call, owner, fresh, crossed, lost>>
    BY DEF SaveLoginUser
  <2>3. {store'.access, store'.refresh, login'.pair, refresh'.pair} \subseteq 0 .. Len(owner')
    BY DEF Inductive, TypeOK, SaveLoginUser
  <2>4. QED
    BY <2>1, <2>2, <2>3 DEF Inductive, TypeOK
<1>2. ScreenMatchesStorage'
  BY DEF Inductive, ScreenMatchesStorage, LoginSound, Quiet, SaveLoginUser
<1>3. LoginSound'
  <2>1. /\ store' = [store EXCEPT !.user = login.who] /\ store \in StoreState
        /\ login' = [login EXCEPT !.todo = {}] /\ login \in LoginState
        /\ login.at = "saving" /\ login.todo = {"user"}
        /\ UNCHANGED <<user, owner, crossed, ending>>
    BY DEF Inductive, TypeOK, SaveLoginUser, LoginSound
  <2>2. /\ login'.at = "saving" /\ login'.todo = {} /\ login'.pair = login.pair
        /\ login'.who = login.who
    BY <2>1
  <2>3. store'.user = login.who /\ store'.access = store.access /\ store'.refresh = store.refresh
    BY <2>1 DEF StoreState
  <2>4. ~crossed => \A k \in Tokens : store[k] = login.pair
    BY <2>1 DEF Inductive, LoginSound, Key, Tokens
  <2>5. QED
    BY <2>1, <2>2, <2>3, <2>4 DEF Inductive, LoginSound, Ending, Key, Tokens
<1>4. RefreshSound'
  BY DEF Inductive, LoginSound, RefreshSound, Quiet, SaveLoginUser
<1>5. EndingSound'
  BY DEF Inductive, LoginSound, EndingSound, Ending, SaveLoginUser
<1>6. FreshKept'
  BY DEF Inductive, FreshKept, SaveLoginUser
<1>7. NoneWaitsInVain' /\ PresentedOnce'
  BY DEF Inductive, NoneWaitsInVain, Waiting, PresentedOnce, SaveLoginUser
<1>8. QED
  BY <1>1, <1>2, <1>3, <1>4, <1>5, <1>6, <1>7 DEF Inductive

\* A rejected write ends the sign-in, and `crossed' says so.
LEMMA LoginNotSavedStep ==
  ASSUME Inductive, LoginNotSaved
  PROVE  Inductive'
<1>1. TypeOK'
  BY DEF Inductive, TypeOK, LoginState, LoginNotSaved, NoLogin, TokenPair
<1>2. ScreenMatchesStorage' /\ LoginSound'
  BY DEF ScreenMatchesStorage, LoginSound, LoginNotSaved, NoLogin
<1>3. RefreshSound'
  BY DEF Inductive, RefreshSound, LoginNotSaved
<1>4. FreshKept'
  BY DEF Inductive, FreshKept, LoginNotSaved, NoLogin
<1>5. NoneWaitsInVain' /\ PresentedOnce' /\ EndingSound'
  BY DEF Inductive, NoneWaitsInVain, Waiting, PresentedOnce, EndingSound, LoginNotSaved
<1>6. QED
  BY <1>1, <1>2, <1>3, <1>4, <1>5 DEF Inductive

\* The screens change: the stored tokens and the profile are that user's.
LEMMA LoggedInStep ==
  ASSUME Inductive, LoggedIn
  PROVE  Inductive'
<1>1. TypeOK'
  BY DEF Inductive, TypeOK, LoginState, LoggedIn, NoLogin, TokenPair
<1>2. ScreenMatchesStorage'
  BY DEF Inductive, ScreenMatchesStorage, LoginSound, LoggedIn, Key
<1>3. LoginSound'
  BY DEF LoginSound, LoggedIn, NoLogin
<1>4. RefreshSound'
  BY DEF Inductive, RefreshSound, Quiet, LoggedIn
<1>5. EndingSound'
  BY DEF Inductive, EndingSound, LoggedIn
<1>6. FreshKept'
  BY DEF Inductive, FreshKept, LoggedIn, NoLogin
<1>7. NoneWaitsInVain' /\ PresentedOnce'
  BY DEF Inductive, NoneWaitsInVain, Waiting, PresentedOnce, LoggedIn
<1>8. QED
  BY <1>1, <1>2, <1>3, <1>4, <1>5, <1>6, <1>7 DEF Inductive

\* The user signs out; a refresh under way is marked.
LEMMA LogoutStep ==
  ASSUME Inductive, Logout
  PROVE  Inductive'
<1>1. TypeOK'
  BY DEF Inductive, TypeOK, RefreshState, EndState, Logout, Clearing,
    Overlapping
<1>2. NoneWaitsInVain'
  BY DEF Inductive, NoneWaitsInVain, Waiting, Logout, Overlapping
<1>3. PresentedOnce'
  BY DEF Inductive, PresentedOnce, Logout, Overlapping
<1>4. ScreenMatchesStorage'
  BY DEF Inductive, TypeOK, ScreenMatchesStorage, Quiet, Ending, Logout,
    Overlapping
<1>5. LoginSound'
  BY DEF Inductive, LoginSound, Logout, Overlapping
<1>6. RefreshSound'
  <2>1. /\ refresh' = [refresh EXCEPT !.over = refresh.at # "none"] /\ refresh \in RefreshState
        /\ crossed' = (crossed \/ Overlapping) /\ UNCHANGED <<user, owner>>
    BY DEF Inductive, TypeOK, Logout
  <2>2. /\ refresh'.at = refresh.at /\ refresh'.todo = refresh.todo
        /\ refresh'.pair = refresh.pair /\ refresh'.over = (refresh.at # "none")
    BY <2>1
  <2>3. QED
    BY <2>1, <2>2 DEF Inductive, RefreshSound, Overlapping
<1>7. EndingSound'
  BY DEF Inductive, TypeOK, EndingSound, Logout, Clearing, Overlapping, Key
<1>8. FreshKept'
  BY DEF Inductive, FreshKept, Logout, Overlapping
<1>9. QED
  BY <1>1, <1>2, <1>3, <1>4, <1>5, <1>6, <1>7, <1>8 DEF Inductive

\* A sign-out deletes one key: the storage was not quiet, and is not now.
LEMMA DeleteKeyStep ==
  ASSUME Inductive, NEW e \in Ender, NEW k \in Key, DeleteKey(e, k)
  PROVE  Inductive'
<1>1. TypeOK'
  <2>1. store' \in StoreState /\ user' \in Person \union {None}
    BY DEF Inductive, TypeOK, StoreState, DeleteKey, Empty, TokenPair
  <2>2. login' \in LoginState
    BY DEF Inductive, TypeOK, DeleteKey
  <2>3. refresh' \in RefreshState
    BY DEF Inductive, TypeOK, DeleteKey
  <2>4. ending' \in [Ender -> EndState]
    BY DEF Inductive, TypeOK, EndState, DeleteKey
  <2>5. call' \in [Call -> CallState]
    BY DEF Inductive, TypeOK, DeleteKey
  <2>6. owner' \in Seq(Person) /\ Len(owner') <= MaxPairs /\ Len(owner) <= Len(owner')
    BY DEF Inductive, TypeOK, DeleteKey
  <2>7. /\ fresh' \subseteq 1 .. Len(owner') /\ lost' \subseteq 1 .. Len(owner')
        /\ crossed' \in BOOLEAN
    BY DEF Inductive, TypeOK, DeleteKey
  <2>8. {store'.access, store'.refresh, login'.pair, refresh'.pair} \subseteq 0 .. Len(owner')
    BY DEF Inductive, TypeOK, DeleteKey, Empty
  <2>9. QED
    BY <2>1, <2>2, <2>3, <2>4, <2>5, <2>6, <2>7, <2>8 DEF TypeOK
<1>2. ScreenMatchesStorage'
  <2>1. Ending /\ ending'[e].at = ending[e].at
    BY DEF Inductive, DeleteKey, EndingSound, Ending
  <2>2. Ending'
    BY <2>1 DEF DeleteKey, Ending
  <2>3. QED
    BY <2>2 DEF ScreenMatchesStorage, Quiet
<1>3. LoginSound'
  <2>1. Ending
    BY DEF Inductive, DeleteKey, EndingSound, Ending
  <2>2. QED
    BY <2>1 DEF Inductive, LoginSound, DeleteKey
<1>4. RefreshSound'
  BY DEF Inductive, RefreshSound, Quiet, Ending, DeleteKey
<1>5. EndingSound'
  <2>1. CASE k = "access"
    BY <2>1 DEF Inductive, EndingSound, DeleteKey
  <2>2. CASE k = "refresh"
    BY <2>2 DEF Inductive, TypeOK, StoreState, EndingSound, DeleteKey, Empty
  <2>3. CASE k = "user"
    BY <2>3 DEF Inductive, EndingSound, DeleteKey
  <2>4. QED
    BY <2>1, <2>2, <2>3 DEF Key
<1>6. FreshKept'
  BY DEF Inductive, FreshKept, LoginSound, DeleteKey, Empty
<1>7. NoneWaitsInVain' /\ PresentedOnce'
  BY DEF Inductive, NoneWaitsInVain, Waiting, PresentedOnce, DeleteKey
<1>8. QED
  BY <1>1, <1>2, <1>3, <1>4, <1>5, <1>6, <1>7 DEF Inductive

\* A failed request starts the sign-out proper.
LEMMA SessionExpiredStep ==
  ASSUME Inductive, NEW c \in Call, SessionExpired(c)
  PROVE  Inductive'
<1>1. TypeOK'
  <2>1. store' \in StoreState /\ user' \in Person \union {None}
    BY DEF Inductive, TypeOK, SessionExpired, Overlapping
  <2>2. login' \in LoginState
    BY DEF Inductive, TypeOK, SessionExpired, Overlapping
  <2>3. refresh' \in RefreshState
    BY DEF Inductive, TypeOK, RefreshState, SessionExpired, Overlapping
  <2>4. ending' \in [Ender -> EndState]
    BY DEF Inductive, TypeOK, EndState, SessionExpired, Clearing, Overlapping
  <2>5. call' \in [Call -> CallState]
    BY DEF Inductive, TypeOK, CallState, SessionExpired, Overlapping, Free
  <2>6. owner' \in Seq(Person) /\ Len(owner') <= MaxPairs /\ Len(owner) <= Len(owner')
    BY DEF Inductive, TypeOK, SessionExpired, Overlapping
  <2>7. /\ fresh' \subseteq 1 .. Len(owner') /\ lost' \subseteq 1 .. Len(owner')
        /\ crossed' \in BOOLEAN
    BY DEF Inductive, TypeOK, SessionExpired, Overlapping
  <2>8. {store'.access, store'.refresh, login'.pair, refresh'.pair} \subseteq 0 .. Len(owner')
    BY DEF Inductive, TypeOK, SessionExpired, Overlapping
  <2>9. QED
    BY <2>1, <2>2, <2>3, <2>4, <2>5, <2>6, <2>7, <2>8 DEF TypeOK
<1>2. NoneWaitsInVain'
  BY DEF Inductive, NoneWaitsInVain, Waiting, SessionExpired, Overlapping,
    Free
<1>3. PresentedOnce'
  BY DEF Inductive, PresentedOnce, SessionExpired, Overlapping
<1>4. ScreenMatchesStorage'
  BY DEF ScreenMatchesStorage, Quiet, Ending, SessionExpired, Clearing,
    Overlapping, Ender
<1>5. LoginSound'
  BY DEF Inductive, LoginSound, SessionExpired, Overlapping
<1>6. RefreshSound'
  <2>1. /\ refresh' = [refresh EXCEPT !.over = refresh.at # "none"] /\ refresh \in RefreshState
        /\ crossed' = (crossed \/ Overlapping) /\ UNCHANGED <<user, owner>>
    BY DEF Inductive, TypeOK, SessionExpired
  <2>2. /\ refresh'.at = refresh.at /\ refresh'.todo = refresh.todo
        /\ refresh'.pair = refresh.pair /\ refresh'.over = (refresh.at # "none")
    BY <2>1
  <2>3. QED
    BY <2>1, <2>2 DEF Inductive, RefreshSound, Overlapping
<1>7. EndingSound'
  BY DEF Inductive, TypeOK, EndingSound, SessionExpired, Clearing, Overlapping
<1>8. FreshKept'
  BY DEF Inductive, FreshKept, SessionExpired, Overlapping
<1>9. QED
  BY <1>1, <1>2, <1>3, <1>4, <1>5, <1>6, <1>7, <1>8 DEF Inductive

\* A sign-out ends: no refresh token is left, or `crossed' says so.
LEMMA LoggedOutStep ==
  ASSUME Inductive, NEW e \in Ender, LoggedOut(e)
  PROVE  Inductive'
<1>1. TypeOK'
  BY DEF Inductive, TypeOK, EndState, LoggedOut, NoEnd
<1>2. ScreenMatchesStorage'
  BY DEF Inductive, ScreenMatchesStorage, EndingSound, LoggedOut
<1>3. LoginSound'
  BY DEF Inductive, LoginSound, Ending, LoggedOut
<1>4. RefreshSound'
  BY DEF Inductive, RefreshSound, Quiet, Ending, LoggedOut
<1>5. EndingSound'
  BY DEF Inductive, EndingSound, LoggedOut, NoEnd
<1>6. NoneWaitsInVain' /\ PresentedOnce' /\ FreshKept'
  BY DEF Inductive, NoneWaitsInVain, Waiting, PresentedOnce, FreshKept,
    LoggedOut
<1>7. QED
  BY <1>1, <1>2, <1>3, <1>4, <1>5, <1>6 DEF Inductive

\* A sign-out breaks off, and `crossed' says so.
LEMMA EndingFailsStep ==
  ASSUME Inductive, NEW e \in Ender, EndingFails(e)
  PROVE  Inductive'
<1>1. TypeOK'
  <2>1. call' \in [Call -> CallState]
    BY DEF Inductive, TypeOK, CallState, EndingFails, Free
  <2>2. ending' \in [Ender -> EndState] /\ crossed' \in BOOLEAN
    BY DEF Inductive, TypeOK, EndState, EndingFails, NoEnd
  <2>3. UNCHANGED <<store, user, login, refresh, owner, fresh, lost>>
    BY DEF EndingFails
  <2>4. QED
    BY <2>1, <2>2, <2>3 DEF Inductive, TypeOK
<1>2. ScreenMatchesStorage' /\ EndingSound'
  BY DEF Inductive, TypeOK, ScreenMatchesStorage, EndingSound, EndingFails, NoEnd
<1>3. LoginSound' /\ RefreshSound'
  BY DEF Inductive, LoginSound, RefreshSound, EndingFails
<1>4. NoneWaitsInVain'
  BY DEF Inductive, NoneWaitsInVain, Waiting, EndingFails, Free
<1>5. PresentedOnce' /\ FreshKept'
  BY DEF Inductive, PresentedOnce, FreshKept, EndingFails
<1>6. QED
  BY <1>1, <1>2, <1>3, <1>4, <1>5 DEF Inductive

-----------------------------------------------------------------------------
(* Requests and the shared refresh (client.ts). *)

\* A request goes out.
LEMMA SendStep ==
  ASSUME Inductive, NEW c \in Call, Send(c)
  PROVE  Inductive'
<1>1. TypeOK'
  BY DEF Inductive, TypeOK, CallState, Send
<1>2. NoneWaitsInVain'
  BY DEF Inductive, NoneWaitsInVain, Waiting, Send
<1>3. /\ PresentedOnce' /\ ScreenMatchesStorage' /\ LoginSound' /\ RefreshSound'
      /\ EndingSound' /\ FreshKept'
  BY DEF Inductive, PresentedOnce, ScreenMatchesStorage, Quiet, Ending,
    LoginSound, RefreshSound, EndingSound, FreshKept, Send
<1>4. QED
  BY <1>1, <1>2, <1>3 DEF Inductive

\* A request ends.
LEMMA SettledStep ==
  ASSUME Inductive, NEW c \in Call, Settled(c)
  PROVE  Inductive'
<1>1. TypeOK'
  BY DEF Inductive, TypeOK, CallState, Settled, Free
<1>2. NoneWaitsInVain'
  BY DEF Inductive, NoneWaitsInVain, Waiting, Settled, Free
<1>3. /\ PresentedOnce' /\ ScreenMatchesStorage' /\ LoginSound' /\ RefreshSound'
      /\ EndingSound' /\ FreshKept'
  BY DEF Inductive, PresentedOnce, ScreenMatchesStorage, Quiet, Ending,
    LoginSound, RefreshSound, EndingSound, FreshKept, Settled
<1>4. QED
  BY <1>1, <1>2, <1>3 DEF Inductive

\* A request that meets a 401 waits for the refresh, started here if none is out.
LEMMA UnauthorizedStep ==
  ASSUME Inductive, NEW c \in Call, Unauthorized(c)
  PROVE  Inductive'
<1>1. TypeOK'
  BY DEF Inductive, TypeOK, RefreshState, CallState, Unauthorized, TokenPair
<1>2. NoneWaitsInVain'
  BY DEF NoneWaitsInVain, Waiting, Unauthorized
<1>3. PresentedOnce'
  BY DEF Inductive, PresentedOnce, Unauthorized
<1>4. ScreenMatchesStorage'
  BY DEF Inductive, ScreenMatchesStorage, Quiet, Ending, Unauthorized
<1>5. LoginSound'
  BY DEF Inductive, LoginSound, Ending, Unauthorized
<1>6. RefreshSound'
  BY DEF Inductive, RefreshSound, Quiet, Ending, Unauthorized
<1>7. EndingSound'
  BY DEF Inductive, EndingSound, Unauthorized
<1>8. FreshKept'
  BY DEF Inductive, FreshKept, LoginSound, RefreshSound, Unauthorized
<1>9. QED
  BY <1>1, <1>2, <1>3, <1>4, <1>5, <1>6, <1>7, <1>8 DEF Inductive

\* The refresh presents the stored token, which no refresh used up unheard.
LEMMA PresentTokenStep ==
  ASSUME Inductive, PresentToken
  PROVE  Inductive'
<1>1. TypeOK'
  BY DEF Inductive, TypeOK, StoreState, RefreshState, PresentToken
<1>2. NoneWaitsInVain'
  BY DEF NoneWaitsInVain, Waiting, PresentToken
<1>3. PresentedOnce'
  BY DEF Inductive, RefreshSound, FreshKept, PresentedOnce, PresentToken
<1>4. ScreenMatchesStorage'
  BY DEF Inductive, ScreenMatchesStorage, Quiet, Ending, PresentToken
<1>5. LoginSound'
  BY DEF Inductive, LoginSound, Ending, PresentToken
<1>6. RefreshSound'
  BY DEF Inductive, ScreenMatchesStorage, RefreshSound, Quiet, Ending,
    PresentToken
<1>7. EndingSound'
  BY DEF Inductive, EndingSound, PresentToken
<1>8. FreshKept'
  BY DEF Inductive, FreshKept, RefreshSound, PresentToken
<1>9. QED
  BY <1>1, <1>2, <1>3, <1>4, <1>5, <1>6, <1>7, <1>8 DEF Inductive

\* The refresh finds no token: all that waited fail.
LEMMA NothingToPresentStep ==
  ASSUME Inductive, NothingToPresent
  PROVE  Inductive'
<1>1. TypeOK'
  BY DEF Inductive, TypeOK, StoreState, RefreshState, EndState, CallState,
    NothingToPresent, FailRefresh, Clearing, NoRefresh, Failing
<1>2. NoneWaitsInVain'
  BY DEF NoneWaitsInVain, Waiting, NothingToPresent, FailRefresh, Failing
<1>3. PresentedOnce'
  BY DEF PresentedOnce, NothingToPresent, FailRefresh, NoRefresh
<1>4. ScreenMatchesStorage'
  BY DEF Inductive, ScreenMatchesStorage, Quiet, Ending, NothingToPresent,
    FailRefresh, Clearing
<1>5. LoginSound'
  BY DEF Inductive, LoginSound, NothingToPresent, FailRefresh
<1>6. RefreshSound'
  BY DEF RefreshSound, NothingToPresent, FailRefresh, NoRefresh
<1>7. EndingSound'
  BY DEF Inductive, EndingSound, NothingToPresent, FailRefresh, Clearing
<1>8. FreshKept'
  BY DEF Inductive, FreshKept, NothingToPresent, FailRefresh, NoRefresh
<1>9. QED
  BY <1>1, <1>2, <1>3, <1>4, <1>5, <1>6, <1>7, <1>8 DEF Inductive

\* The server renews the pair, for the user of the token presented.
LEMMA RefreshAnsweredStep ==
  ASSUME Inductive, RefreshAnswered
  PROVE  Inductive'
<1>1. TypeOK'
  <2>1. store' \in StoreState /\ user' \in Person \union {None}
    BY DEF Inductive, TypeOK, RefreshAnswered, Issue
  <2>2. login' \in LoginState
    BY DEF Inductive, TypeOK, RefreshAnswered, Issue
  <2>3. refresh' \in RefreshState
    BY DEF Inductive, TypeOK, RefreshState, RefreshAnswered, Issue, TokenPair
  <2>4. ending' \in [Ender -> EndState]
    BY DEF Inductive, TypeOK, RefreshAnswered, Issue
  <2>5. call' \in [Call -> CallState]
    BY DEF Inductive, TypeOK, RefreshAnswered, Issue
  <2>6. owner' \in Seq(Person) /\ Len(owner') <= MaxPairs /\ Len(owner) <= Len(owner')
    BY DEF Inductive, TypeOK, RefreshAnswered, Issue
  <2>7. /\ fresh' \subseteq 1 .. Len(owner') /\ lost' \subseteq 1 .. Len(owner')
        /\ crossed' \in BOOLEAN
    <3>1. fresh' \subseteq fresh \union {Len(owner')}
      BY DEF Inductive, TypeOK, RefreshAnswered, Issue
    <3>2. /\ Len(owner) \in Nat /\ Len(owner') = Len(owner) + 1
          /\ UNCHANGED lost /\ crossed' \in BOOLEAN
      BY DEF Inductive, TypeOK, RefreshAnswered, Issue
    <3>3. /\ fresh \subseteq 1 .. Len(owner)
          /\ lost \subseteq 1 .. Len(owner)
      BY DEF Inductive, TypeOK
    <3>4. 1 .. Len(owner) \subseteq 1 .. Len(owner') /\ Len(owner') \in 1 .. Len(owner')
      BY <3>2
    <3>5. QED
      BY <3>1, <3>2, <3>3, <3>4
  <2>8. {store'.access, store'.refresh, login'.pair, refresh'.pair} \subseteq 0 .. Len(owner')
    BY DEF Inductive, TypeOK, RefreshAnswered, Issue
  <2>9. QED
    BY <2>1, <2>2, <2>3, <2>4, <2>5, <2>6, <2>7, <2>8 DEF TypeOK
<1>2. NoneWaitsInVain'
  BY DEF NoneWaitsInVain, Waiting, RefreshAnswered, Issue
<1>3. PresentedOnce'
  BY DEF PresentedOnce, RefreshAnswered, Issue
<1>4. ScreenMatchesStorage'
  BY DEF Inductive, TypeOK, ScreenMatchesStorage, Quiet, Ending,
    RefreshAnswered, Issue
<1>5. LoginSound'
  BY DEF Inductive, TypeOK, LoginSound, Ending, RefreshAnswered, Issue
<1>6. RefreshSound'
  <2>1. /\ owner \in Seq(Person) /\ Len(owner) \in Nat
        /\ refresh.pair \in 1 .. Len(owner) /\ owner[refresh.pair] \in Person
    BY DEF Inductive, TypeOK, RefreshAnswered
  <2>2. owner'[Len(owner) + 1] = owner[refresh.pair]
    BY <2>1 DEF RefreshAnswered, Issue
  <2>3. /\ refresh'.at = "saving" /\ refresh'.pair = Len(owner) + 1 /\ UNCHANGED user
        /\ crossed' <=> crossed \/ refresh.over
    BY DEF RefreshAnswered
  <2>4. Quiet' <=> Quiet
    BY DEF RefreshAnswered, Quiet, Ending
  <2>5. /\ ~Quiet => crossed'
        /\ ~crossed' => user # None /\ owner[refresh.pair] = user
    BY <2>3 DEF RefreshAnswered, Inductive, RefreshSound
  <2>6. QED
    BY <2>1, <2>2, <2>3, <2>4, <2>5 DEF RefreshSound
<1>7. EndingSound'
  BY DEF Inductive, EndingSound, RefreshAnswered, Issue
<1>8. FreshKept'
  BY DEF Inductive, TypeOK, FreshKept, RefreshAnswered, Issue, Tokens
<1>9. QED
  BY <1>1, <1>2, <1>3, <1>4, <1>5, <1>6, <1>7, <1>8 DEF Inductive

\* The server refuses the token: all that waited fail.
LEMMA RefreshRefusedStep ==
  ASSUME Inductive, RefreshRefused
  PROVE  Inductive'
<1>1. TypeOK'
  BY DEF Inductive, TypeOK, RefreshState, EndState, CallState, RefreshRefused,
    FailRefresh, Clearing, NoRefresh, Failing, TokenPair
<1>2. NoneWaitsInVain'
  BY DEF NoneWaitsInVain, Waiting, RefreshRefused, FailRefresh, Failing
<1>3. PresentedOnce'
  BY DEF PresentedOnce, RefreshRefused, FailRefresh, NoRefresh
<1>4. ScreenMatchesStorage'
  BY DEF Inductive, ScreenMatchesStorage, Quiet, Ending, RefreshRefused,
    FailRefresh, Clearing
<1>5. LoginSound'
  BY DEF Inductive, LoginSound, RefreshRefused, FailRefresh
<1>6. RefreshSound'
  BY DEF RefreshSound, RefreshRefused, FailRefresh, NoRefresh
<1>7. EndingSound'
  BY DEF Inductive, EndingSound, RefreshRefused, FailRefresh, Clearing, Key
<1>8. FreshKept'
  BY DEF Inductive, FreshKept, LoginSound, RefreshRefused, FailRefresh,
    NoRefresh
<1>9. QED
  BY <1>1, <1>2, <1>3, <1>4, <1>5, <1>6, <1>7, <1>8 DEF Inductive

\* No answer comes: all that waited fail, and the pair counts as lost.
LEMMA RefreshLostStep ==
  ASSUME Inductive, RefreshLost
  PROVE  Inductive'
<1>1. TypeOK'
  <2>1. store' \in StoreState /\ user' \in Person \union {None}
    BY DEF Inductive, TypeOK, RefreshLost
  <2>2. login' \in LoginState
    BY DEF Inductive, TypeOK, RefreshLost
  <2>3. refresh' \in RefreshState
    BY DEF RefreshState, RefreshLost, FailRefresh, NoRefresh, TokenPair
  <2>4. ending' \in [Ender -> EndState]
    BY DEF Inductive, TypeOK, EndState, RefreshLost, FailRefresh, Clearing
  <2>5. call' \in [Call -> CallState]
    BY DEF Inductive, TypeOK, CallState, RefreshLost, FailRefresh, Failing
  <2>6. owner' \in Seq(Person) /\ Len(owner') <= MaxPairs /\ Len(owner) <= Len(owner')
    BY DEF Inductive, TypeOK, RefreshLost
  <2>7. /\ fresh' \subseteq 1 .. Len(owner') /\ lost' \subseteq 1 .. Len(owner')
        /\ crossed' \in BOOLEAN
    <3>1. refresh.pair \in 1 .. Len(owner)
      BY DEF Inductive, TypeOK, RefreshLost, RefreshSound
    <3>2. QED
      BY <3>1 DEF Inductive, TypeOK, RefreshLost, FailRefresh
  <2>8. {store'.access, store'.refresh, login'.pair, refresh'.pair} \subseteq 0 .. Len(owner')
    BY DEF Inductive, TypeOK, RefreshLost, FailRefresh, NoRefresh
  <2>9. QED
    BY <2>1, <2>2, <2>3, <2>4, <2>5, <2>6, <2>7, <2>8 DEF TypeOK
<1>2. NoneWaitsInVain'
  BY DEF NoneWaitsInVain, Waiting, RefreshLost, FailRefresh, Failing
<1>3. PresentedOnce'
  BY DEF PresentedOnce, RefreshLost, FailRefresh, NoRefresh
<1>4. ScreenMatchesStorage'
  BY DEF Inductive, ScreenMatchesStorage, Quiet, Ending, RefreshLost,
    FailRefresh, Clearing
<1>5. LoginSound'
  BY DEF Inductive, LoginSound, RefreshLost, FailRefresh
<1>6. RefreshSound'
  BY DEF RefreshSound, RefreshLost, FailRefresh, NoRefresh
<1>7. EndingSound'
  BY DEF Inductive, EndingSound, RefreshLost, FailRefresh, Clearing, Key
<1>8. FreshKept'
  BY DEF Inductive, FreshKept, LoginSound, RefreshSound, RefreshLost,
    FailRefresh, NoRefresh
<1>9. QED
  BY <1>1, <1>2, <1>3, <1>4, <1>5, <1>6, <1>7, <1>8 DEF Inductive

\* The server serves a refresh that was given up.
LEMMA ServedLateStep ==
  ASSUME Inductive, NEW n \in lost, ServedLate(n)
  PROVE  Inductive'
<1>1. TypeOK'
  BY DEF Inductive, TypeOK, ServedLate
<1>2. PresentedOnce'
  BY DEF Inductive, PresentedOnce, ServedLate
<1>3. FreshKept'
  BY DEF Inductive, FreshKept, ServedLate
<1>4. NoneWaitsInVain' /\ ScreenMatchesStorage' /\ LoginSound' /\ RefreshSound' /\ EndingSound'
  BY DEF Inductive, NoneWaitsInVain, Waiting, ScreenMatchesStorage, Quiet,
    Ending, LoginSound, RefreshSound, EndingSound, ServedLate
<1>5. QED
  BY <1>1, <1>2, <1>3, <1>4 DEF Inductive

\* One token of the new pair is stored.
LEMMA SaveRefreshTokenStep ==
  ASSUME Inductive, NEW k \in Tokens, SaveRefreshToken(k)
  PROVE  Inductive'
<1>1. TypeOK'
  <2>1. store' \in StoreState /\ user' \in Person \union {None}
    <3>1. /\ store' = [store EXCEPT ![k] = refresh.pair] /\ store \in StoreState
          /\ refresh.pair \in TokenPair /\ UNCHANGED user /\ user \in Person \union {None}
      BY DEF Inductive, TypeOK, SaveRefreshToken, RefreshState
    <3>2. CASE k = "access"
      BY <3>1, <3>2 DEF StoreState
    <3>3. CASE k = "refresh"
      BY <3>1, <3>3 DEF StoreState
    <3>4. QED
      BY <3>2, <3>3 DEF Tokens
  <2>2. login' \in LoginState
    BY DEF Inductive, TypeOK, SaveRefreshToken
  <2>3. refresh' \in RefreshState
    BY DEF Inductive, TypeOK, RefreshState, SaveRefreshToken
  <2>4. ending' \in [Ender -> EndState]
    BY DEF Inductive, TypeOK, SaveRefreshToken
  <2>5. call' \in [Call -> CallState]
    BY DEF Inductive, TypeOK, SaveRefreshToken
  <2>6. owner' \in Seq(Person) /\ Len(owner') <= MaxPairs /\ Len(owner) <= Len(owner')
    BY DEF Inductive, TypeOK, SaveRefreshToken
  <2>7. /\ fresh' \subseteq 1 .. Len(owner') /\ lost' \subseteq 1 .. Len(owner')
        /\ crossed' \in BOOLEAN
    BY DEF Inductive, TypeOK, SaveRefreshToken
  <2>8. {store'.access, store'.refresh, login'.pair, refresh'.pair} \subseteq 0 .. Len(owner')
    BY DEF Inductive, TypeOK, SaveRefreshToken
  <2>9. QED
    BY <2>1, <2>2, <2>3, <2>4, <2>5, <2>6, <2>7, <2>8 DEF TypeOK
<1>2. NoneWaitsInVain'
  BY DEF Inductive, NoneWaitsInVain, Waiting, SaveRefreshToken
<1>3. PresentedOnce'
  BY DEF Inductive, PresentedOnce, SaveRefreshToken
<1>4. ScreenMatchesStorage'
  BY DEF Inductive, ScreenMatchesStorage, RefreshSound, SaveRefreshToken,
    Tokens
<1>5. LoginSound'
  BY DEF Inductive, LoginSound, RefreshSound, SaveRefreshToken
<1>6. RefreshSound'
  BY DEF Inductive, RefreshSound, Quiet, Ending, SaveRefreshToken
<1>7. EndingSound'
  BY DEF Inductive, RefreshSound, EndingSound, Quiet, Ending, SaveRefreshToken
<1>8. FreshKept'
  <2>1. CASE k = "access"
    BY <2>1 DEF Inductive, FreshKept, SaveRefreshToken
  <2>2. CASE k = "refresh"
    BY <2>2 DEF Inductive, TypeOK, StoreState, FreshKept, SaveRefreshToken
  <2>3. QED
    BY <2>1, <2>2 DEF Tokens
<1>9. QED
  BY <1>1, <1>2, <1>3, <1>4, <1>5, <1>6, <1>7, <1>8 DEF Inductive

\* The storage fails the refresh: a used token left in it counts as lost.
LEMMA RefreshStorageFailsStep ==
  ASSUME Inductive, RefreshStorageFails
  PROVE  Inductive'
<1>1. TypeOK'
  <2>1. refresh' \in RefreshState
    BY DEF RefreshState, RefreshStorageFails, FailRefresh, NoRefresh, TokenPair
  <2>2. ending' \in [Ender -> EndState]
    BY DEF Inductive, TypeOK, EndState, RefreshStorageFails, FailRefresh, Clearing
  <2>3. call' \in [Call -> CallState]
    BY DEF Inductive, TypeOK, CallState, RefreshStorageFails, FailRefresh, Failing
  <2>4. lost' \subseteq 1 .. Len(owner)
    <3>1. lost' \subseteq lost \union ({store.refresh} \ {0})
      BY DEF RefreshStorageFails
    <3>2. store.refresh \in 0 .. Len(owner) /\ Len(owner) \in Nat /\ lost \subseteq 1 .. Len(owner)
      BY DEF Inductive, TypeOK
    <3>3. QED
      BY <3>1, <3>2
  <2>5. UNCHANGED <<store, user, login, owner, fresh>> /\ crossed' \in BOOLEAN
    BY DEF RefreshStorageFails, FailRefresh, Inductive, TypeOK
  <2>6. {store'.access, store'.refresh, login'.pair, refresh'.pair} \subseteq 0 .. Len(owner')
    BY <2>5 DEF Inductive, TypeOK, RefreshStorageFails, FailRefresh, NoRefresh
  <2>7. QED
    BY <2>1, <2>2, <2>3, <2>4, <2>5, <2>6 DEF Inductive, TypeOK
<1>2. NoneWaitsInVain'
  BY DEF NoneWaitsInVain, Waiting, RefreshStorageFails, FailRefresh, Failing
<1>3. PresentedOnce'
  BY DEF PresentedOnce, RefreshStorageFails, FailRefresh, NoRefresh
<1>4. ScreenMatchesStorage'
  BY DEF Inductive, ScreenMatchesStorage, Quiet, Ending, RefreshStorageFails,
    FailRefresh, Clearing
<1>5. LoginSound'
  <2>1. refresh.at = "saving" /\ login.at = "saving" => crossed
    BY DEF Inductive, RefreshSound, Quiet
  <2>2. crossed' = (crossed \/ login.at = "saving") /\ UNCHANGED <<store, user, login, owner>>
    BY DEF RefreshStorageFails, FailRefresh
  <2>3. QED
    BY <2>1, <2>2 DEF Inductive, LoginSound
<1>6. RefreshSound'
  BY DEF RefreshSound, RefreshStorageFails, FailRefresh, NoRefresh
<1>7. EndingSound'
  BY DEF Inductive, EndingSound, RefreshStorageFails, FailRefresh, Clearing, Key
<1>8. FreshKept'
  BY DEF Inductive, FreshKept, LoginSound, RefreshStorageFails, FailRefresh, NoRefresh
<1>9. QED
  BY <1>1, <1>2, <1>3, <1>4, <1>5, <1>6, <1>7, <1>8 DEF Inductive

\* The refresh ends: all that waited go out again.
LEMMA RefreshedStep ==
  ASSUME Inductive, Refreshed
  PROVE  Inductive'
<1>1. TypeOK'
  BY DEF Inductive, TypeOK, RefreshState, CallState, Refreshed, NoRefresh,
    TokenPair
<1>2. NoneWaitsInVain'
  BY DEF NoneWaitsInVain, Waiting, Refreshed
<1>3. PresentedOnce'
  BY DEF PresentedOnce, Refreshed, NoRefresh
<1>4. ScreenMatchesStorage'
  BY DEF Inductive, ScreenMatchesStorage, RefreshSound, Refreshed
<1>5. LoginSound'
  BY DEF Inductive, LoginSound, RefreshSound, Refreshed
<1>6. RefreshSound'
  BY DEF RefreshSound, Refreshed, NoRefresh
<1>7. EndingSound'
  BY DEF Inductive, EndingSound, Refreshed
<1>8. FreshKept'
  BY DEF Inductive, FreshKept, LoginSound, Refreshed, NoRefresh
<1>9. QED
  BY <1>1, <1>2, <1>3, <1>4, <1>5, <1>6, <1>7, <1>8 DEF Inductive

-----------------------------------------------------------------------------
(* The device. *)

\* The app is killed and started again.
LEMMA RestartStep ==
  ASSUME Inductive, Restart
  PROVE  Inductive'
<1>1. TypeOK'
  <2>1. store' \in StoreState /\ user' \in Person \union {None}
    BY DEF Inductive, TypeOK, StoreState, Restart
  <2>2. login' \in LoginState
    BY DEF LoginState, Restart, NoLogin, TokenPair
  <2>3. refresh' \in RefreshState
    BY DEF RefreshState, Restart, NoRefresh, TokenPair
  <2>4. ending' \in [Ender -> EndState]
    BY DEF EndState, Restart, NoEnd
  <2>5. call' \in [Call -> CallState]
    BY DEF CallState, Restart, Free
  <2>6. owner' \in Seq(Person) /\ Len(owner') <= MaxPairs /\ Len(owner) <= Len(owner')
    BY DEF Inductive, TypeOK, Restart
  <2>7. /\ fresh' \subseteq 1 .. Len(owner') /\ lost' \subseteq 1 .. Len(owner')
        /\ crossed' \in BOOLEAN
    <3>1. lost' \subseteq 1 .. Len(owner)
      <4>1. lost' \subseteq lost \union fresh \union ({store.refresh} \ {0})
        BY DEF Restart
      <4>2. store.refresh \in 0 .. Len(owner) /\ Len(owner) \in Nat
        BY DEF Inductive, TypeOK
      <4>3. lost \subseteq 1 .. Len(owner) /\ fresh \subseteq 1 .. Len(owner)
        BY DEF Inductive, TypeOK
      <4>4. QED
        BY <4>1, <4>2, <4>3
    <3>2. crossed' \in BOOLEAN
      BY DEF Restart
    <3>3. QED
      BY <3>1, <3>2 DEF Inductive, TypeOK, Restart
  <2>8. {store'.access, store'.refresh, login'.pair, refresh'.pair} \subseteq 0 .. Len(owner')
    BY DEF Inductive, TypeOK, Restart, NoLogin, NoRefresh
  <2>9. QED
    BY <2>1, <2>2, <2>3, <2>4, <2>5, <2>6, <2>7, <2>8 DEF TypeOK
<1>2. NoneWaitsInVain'
  BY DEF NoneWaitsInVain, Waiting, Restart, Free
<1>3. PresentedOnce'
  BY DEF PresentedOnce, Restart, NoRefresh
<1>4. ScreenMatchesStorage'
  BY DEF Inductive, ScreenMatchesStorage, Quiet, Restart
<1>5. LoginSound'
  BY DEF LoginSound, Restart, NoLogin
<1>6. RefreshSound'
  BY DEF RefreshSound, Restart, NoRefresh
<1>7. EndingSound'
  BY DEF EndingSound, Restart, NoEnd
<1>8. FreshKept'
  BY DEF FreshKept, Restart, NoLogin, NoRefresh
<1>9. QED
  BY <1>1, <1>2, <1>3, <1>4, <1>5, <1>6, <1>7, <1>8 DEF Inductive
-----------------------------------------------------------------------------
\* The initial state satisfies the invariant.
LEMMA InitInductive == Init => Inductive
<1> SUFFICES ASSUME Init PROVE Inductive
  OBVIOUS
<1>1. TypeOK
  <2>1. /\ store \in StoreState /\ user \in Person \union {None}
        /\ login \in LoginState /\ refresh \in RefreshState
    BY DEF Init, StoreState, LoginState, RefreshState, Empty, NoLogin,
      NoRefresh, TokenPair
  <2>2. ending \in [Ender -> EndState] /\ call \in [Call -> CallState]
    BY DEF Init, EndState, CallState, NoEnd, Free
  <2>3. owner \in Seq(Person) /\ Len(owner) <= MaxPairs
    BY DEF Init
  <2>4. fresh \subseteq 1 .. Len(owner)
    BY DEF Init
  <2>5. lost \subseteq 1 .. Len(owner) /\ crossed \in BOOLEAN
    BY DEF Init
  <2>6. {store.access, store.refresh, login.pair, refresh.pair} \subseteq 0 .. Len(owner)
    BY DEF Init, Empty, NoLogin, NoRefresh
  <2>7. QED
    BY <2>1, <2>2, <2>3, <2>4, <2>5, <2>6 DEF TypeOK
<1>2. NoneWaitsInVain /\ PresentedOnce /\ ScreenMatchesStorage
  BY DEF Init, NoneWaitsInVain, Waiting, PresentedOnce, ScreenMatchesStorage,
    Empty, NoRefresh, Free
<1>3. LoginSound /\ RefreshSound /\ EndingSound /\ FreshKept
  BY DEF Init, LoginSound, RefreshSound, EndingSound, FreshKept, Empty,
    NoLogin, NoRefresh, NoEnd
<1>4. QED
  BY <1>1, <1>2, <1>3 DEF Inductive

\* Every step keeps it: one lemma above per action.
LEMMA NextInductive == Inductive /\ [Next]_vars => Inductive'
<1> SUFFICES ASSUME Inductive, [Next]_vars PROVE Inductive'
  OBVIOUS
<1>1. CASE UNCHANGED vars
  BY <1>1 DEF vars, Inductive, TypeOK, NoneWaitsInVain, Waiting,
    PresentedOnce, ScreenMatchesStorage, LoginSound, RefreshSound, EndingSound,
    FreshKept, Quiet, Ending
<1>2. ASSUME NEW p \in Person, BeginLogin(p) PROVE Inductive'
  BY <1>2, BeginLoginStep
<1>3. ASSUME \/ LoginAnswered \/ LoginRefused \/ SaveLoginUser
             \/ LoginNotSaved \/ LoggedIn \/ Logout
      PROVE  Inductive'
  BY <1>3, LoginAnsweredStep, LoginRefusedStep, SaveLoginUserStep, LoginNotSavedStep,
    LoggedInStep, LogoutStep
<1>4. ASSUME NEW k \in Tokens, SaveLoginToken(k) \/ SaveRefreshToken(k) PROVE Inductive'
  BY <1>4, SaveLoginTokenStep, SaveRefreshTokenStep
<1>5. ASSUME NEW e \in Ender,
             LoggedOut(e) \/ EndingFails(e) \/ \E k \in Key : DeleteKey(e, k)
      PROVE  Inductive'
  BY <1>5, LoggedOutStep, EndingFailsStep, DeleteKeyStep
<1>6. ASSUME NEW c \in Call,
             Send(c) \/ Settled(c) \/ Unauthorized(c) \/ SessionExpired(c)
      PROVE  Inductive'
  BY <1>6, SendStep, SettledStep, UnauthorizedStep, SessionExpiredStep
<1>7. ASSUME \/ PresentToken \/ NothingToPresent \/ RefreshAnswered
             \/ RefreshRefused \/ RefreshLost \/ RefreshStorageFails \/ Refreshed
      PROVE  Inductive'
  BY <1>7, PresentTokenStep, NothingToPresentStep, RefreshAnsweredStep,
    RefreshRefusedStep, RefreshLostStep, RefreshStorageFailsStep, RefreshedStep
<1>8. ASSUME Restart PROVE Inductive'
  BY <1>8, RestartStep
<1>9. ASSUME NEW n \in lost, ServedLate(n) PROVE Inductive'
  BY <1>9, ServedLateStep
<1>10. QED
  BY <1>1, <1>2, <1>3, <1>4, <1>5, <1>6, <1>7, <1>8, <1>9 DEF Next

\* The invariant holds in every reachable state: the types, and what the sign-in,
\* the sign-outs, the shared refresh and the requests know of each other
\* (AuthContext.tsx, client.ts).
THEOREM InductiveHolds == Spec => []Inductive
<1>1. QED
  BY InitInductive, NextInductive, PTL DEF Spec

\* However many requests share the refresh, and as long as sign-ins, sign-outs and
\* refreshes neither overlap nor break off: the screens show the user whose tokens are stored, and
\* signed out means that no refresh token is left.
THEOREM ScreensMatch == Spec => []ScreenMatchesStorage
<1>1. Inductive => ScreenMatchesStorage
  BY DEF Inductive
<1>2. QED
  BY <1>1, InductiveHolds, PTL

\* "A single in-flight refresh is shared so concurrent 401s don't stampede"
\* (client.ts): no used refresh token is presented again, but after an answer that
\* was lost, or could not be stored.
THEOREM RefreshShared == Spec => []PresentedOnce
<1>1. Inductive => PresentedOnce
  BY DEF Inductive
<1>2. QED
  BY <1>1, InductiveHolds, PTL

\* A request that awaits the shared refresh always has one to await.
THEOREM WaitersAreAnswered == Spec => []NoneWaitsInVain
<1>1. Inductive => NoneWaitsInVain
  BY DEF Inductive
<1>2. QED
  BY <1>1, InductiveHolds, PTL
==============================================================================
