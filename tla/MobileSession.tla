--------------------------- MODULE MobileSession ---------------------------
(***************************************************************************)
(* The session of the mobile client (FinanceLedger.Mobile): sign-in,       *)
(* sign-out, the restart of the app, and the axios interceptor that shares *)
(* one refresh among the requests that meet a 401.  Which token a request  *)
(* carries, and when an access token runs out, is left open: any request   *)
(* may meet a 401.                                                         *)
(*                                                                         *)
(* The tokens and the user's profile are three keys of SecureStore, each   *)
(* written and deleted by a promise of its own, so that a sign-in, a       *)
(* refresh and several sign-outs may write them by turns.  The app may be  *)
(* killed between any two writes, and any of them may be rejected; writes  *)
(* of one Promise.all that a rejected one leaves running are not followed. *)
(***************************************************************************)
EXTENDS Naturals, FiniteSets, Sequences

CONSTANTS
  Call,      \* the requests out at once: of screens, and of the sync
  Button,    \* who signs out, when no failed request does: the user
  Person,
  None,
  MaxPairs   \* bound: pairs of tokens ever issued

ASSUME MobileSessionAssumption ==
  /\ None \notin Person
  /\ Button \notin Call
  /\ MaxPairs \in Nat

VARIABLES
  store,    \* SecureStore: the two tokens (0: none) and the user
  user,     \* AuthContext: the user signed in, for the screens
  login,    \* the sign-in under way
  refresh,  \* performRefresh(), the promise that requests share
  ending,   \* the sign-outs under way
  call,     \* the requests
  owner,    \* the server: whom each issued pair of tokens belongs to
  fresh,    \* ... the pairs whose refresh token was not used yet
  crossed,  \* sign-in, sign-out and refresh wrote by turns, or broke off
  lost      \* pairs whose renewal the app did not hear of, or not store

vars == <<store, user, login, refresh, ending, call, owner, fresh, crossed, lost>>

Key == {"access", "refresh", "user"}
Tokens == {"access", "refresh"}
Ender == Call \union {Button}
Empty == [access |-> 0, refresh |-> 0, user |-> None]
NoLogin == [at |-> "none", todo |-> {}, pair |-> 0, who |-> None]
NoRefresh == [at |-> "none", todo |-> {}, pair |-> 0, over |-> FALSE]
NoEnd == [at |-> "none", todo |-> {}]
Free == [at |-> "free", retried |-> FALSE]
Failing == [at |-> "failing", retried |-> TRUE]

Init ==
  /\ store = Empty /\ user = None
  /\ login = NoLogin /\ refresh = NoRefresh
  /\ ending = [e \in Ender |-> NoEnd]
  /\ call = [c \in Call |-> Free]
  /\ owner = <<>> /\ fresh = {}
  /\ crossed = FALSE /\ lost = {}

Ending == \E e \in Ender : ending[e].at # "none"

\* Tokens the server issues to p.
Issue(p) ==
  /\ Len(owner) < MaxPairs
  /\ owner' = Append(owner, p)
-----------------------------------------------------------------------------
(* Sign-in: LoginScreen, AuthContext.login. *)

BeginLogin(p) ==
  /\ user = None /\ login.at = "none"
  /\ login' = [at |-> "sent", todo |-> {}, pair |-> 0, who |-> p]
  /\ UNCHANGED <<store, user, refresh, ending, call, owner, fresh, crossed, lost>>

LoginAnswered ==
  /\ login.at = "sent"
  /\ Issue(login.who)
  /\ fresh' = fresh \union {Len(owner) + 1}
  /\ login' = [at |-> "saving", todo |-> Key, pair |-> Len(owner) + 1, who |-> login.who]
  /\ crossed' = (refresh.at # "none" \/ Ending)
  /\ UNCHANGED <<store, user, refresh, ending, call, lost>>

LoginRefused ==
  /\ login.at = "sent"
  /\ login' = NoLogin
  /\ UNCHANGED <<store, user, refresh, ending, call, owner, fresh, crossed, lost>>

SaveLoginToken(k) ==
  /\ k \in login.todo
  /\ store' = [store EXCEPT ![k] = login.pair]
  /\ login' = [login EXCEPT !.todo = @ \ {k}]
  /\ UNCHANGED <<user, refresh, ending, call, owner, fresh, crossed, lost>>

\* With both tokens stored, the profile follows.
SaveLoginUser ==
  /\ login.todo = {"user"}
  /\ store' = [store EXCEPT !.user = login.who]
  /\ login' = [login EXCEPT !.todo = {}]
  /\ UNCHANGED <<user, refresh, ending, call, owner, fresh, crossed, lost>>

\* SecureStore rejects a write: the form shows the error, what is stored stays.
LoginNotSaved ==
  /\ login.todo # {}
  /\ login' = NoLogin
  /\ crossed' = TRUE
  /\ UNCHANGED <<store, user, refresh, ending, call, owner, fresh, lost>>

\* With all of it stored, the screens change.
LoggedIn ==
  /\ login.at = "saving" /\ login.todo = {}
  /\ user' = login.who
  /\ login' = NoLogin
  /\ UNCHANGED <<store, refresh, ending, call, owner, fresh, crossed, lost>>
-----------------------------------------------------------------------------
(* Sign-out: AuthContext.logout, and the clear() of a failed request.       *)

\* Fault: clear() forgets the refresh token.
ClearingAccess(at) == [at |-> at, todo |-> Key \ {"refresh"}]
Clearing(at) == [at |-> at, todo |-> Key]

\* What a clear() overlaps with: tokens being written, and the refresh that may
\* write tokens after it.
Overlapping == login.at = "saving" \/ refresh.at = "saving"

Logout ==
  /\ user # None /\ ending[Button].at = "none"
  /\ ending' = [ending EXCEPT ![Button] = Clearing("logout")]
  /\ crossed' = (crossed \/ Overlapping)
  /\ refresh' = [refresh EXCEPT !.over = refresh.at # "none"]
  /\ UNCHANGED <<store, user, login, call, owner, fresh, lost>>

DeleteKey(e, k) ==
  /\ k \in ending[e].todo
  /\ store' = [store EXCEPT ![k] = Empty[k]]
  /\ ending' = [ending EXCEPT ![e].todo = @ \ {k}]
  /\ UNCHANGED <<user, login, refresh, call, owner, fresh, crossed, lost>>

\* A failed request has cleared the storage: it asks for a sign-out, does not
\* wait for it, and rejects.
SessionExpired(c) ==
  /\ ending[c].at = "clear" /\ ending[c].todo = {}
  /\ ending' = [ending EXCEPT ![c] = Clearing("logout")]
  /\ crossed' = (crossed \/ Overlapping)
  /\ refresh' = [refresh EXCEPT !.over = refresh.at # "none"]
  /\ call' = [call EXCEPT ![c] = Free]
  /\ UNCHANGED <<store, user, login, owner, fresh, lost>>

\* The offline cache is cleared too, and the screens change.
LoggedOut(e) ==
  /\ ending[e].at = "logout" /\ ending[e].todo = {}
  /\ user' = None
  /\ ending' = [ending EXCEPT ![e] = NoEnd]
  /\ UNCHANGED <<store, login, refresh, call, owner, fresh, crossed, lost>>

\* A delete, or the clearing of the offline cache, is rejected: no screen
\* changes, and a failed request rejects without asking for a sign-out.
EndingFails(e) ==
  /\ ending[e].at # "none"
  /\ ending' = [ending EXCEPT ![e] = NoEnd]
  /\ call' = [c \in Call |-> IF c = e /\ ending[e].at = "clear" THEN Free ELSE call[c]]
  /\ crossed' = TRUE
  /\ UNCHANGED <<store, user, login, refresh, owner, fresh, lost>>
-----------------------------------------------------------------------------
(* Requests: the interceptors of apiClient.  The sync sends requests whether *)
(* or not a user is signed in.                                              *)

Send(c) ==
  /\ call[c] = Free /\ ending[c].at = "none"
  /\ call' = [call EXCEPT ![c] = [at |-> "sent", retried |-> FALSE]]
  /\ UNCHANGED <<store, user, login, refresh, ending, owner, fresh, crossed, lost>>

\* Any end but a first 401.
Settled(c) ==
  /\ call[c].at = "sent"
  /\ call' = [call EXCEPT ![c] = Free]
  /\ UNCHANGED <<store, user, login, refresh, ending, owner, fresh, crossed, lost>>

\* A first 401: the request waits for the refresh, which will give it another
\* token, and starts it if none is out.
Unauthorized(c) ==
  /\ call[c].at = "sent" /\ ~call[c].retried
  /\ call' = [call EXCEPT ![c] = [at |-> "waiting", retried |-> TRUE]]
  /\ refresh' = IF refresh.at # "none" THEN refresh
                ELSE [at |-> "reading", todo |-> {}, pair |-> 0,
                      over |-> (Ending \/ login.at = "saving")]
  /\ UNCHANGED <<store, user, login, ending, owner, fresh, crossed, lost>>
-----------------------------------------------------------------------------
(* The shared refresh: performRefresh, AuthService.RefreshAsync.            *)

Waiting == {c \in Call : call[c].at = "waiting"}

\* Fault: only one of the requests hears that the refresh has failed.
FailRefreshForOne ==
  \E c \in Waiting :
    /\ refresh' = NoRefresh
    /\ call' = [call EXCEPT ![c] = Failing]
    /\ ending' = [ending EXCEPT ![c] = Clearing("clear")]
    /\ crossed' = (crossed \/ login.at = "saving")

\* Every request that waited clears the storage by itself.
FailRefresh ==
  /\ refresh' = NoRefresh
  /\ call' = [c \in Call |-> IF c \in Waiting THEN Failing ELSE call[c]]
  /\ ending' = [e \in Ender |-> IF e \in Waiting THEN Clearing("clear") ELSE ending[e]]
  /\ crossed' = (crossed \/ login.at = "saving")

PresentToken ==
  /\ refresh.at = "reading" /\ store.refresh # 0
  /\ refresh' = [at |-> "sent", todo |-> {}, pair |-> store.refresh, over |-> refresh.over]
  /\ UNCHANGED <<store, user, login, ending, call, owner, fresh, crossed, lost>>

NothingToPresent ==
  /\ refresh.at = "reading" /\ store.refresh = 0
  /\ FailRefresh
  /\ UNCHANGED <<store, user, login, owner, fresh, lost>>

\* Fault: the new access token is stored, the new refresh token is not.
RefreshAnsweredHalf ==
  /\ refresh.at = "sent" /\ refresh.pair \in fresh
  /\ Issue(owner[refresh.pair])
  /\ fresh' = (fresh \ {refresh.pair}) \union {Len(owner) + 1}
  /\ refresh' = [at |-> "saving", todo |-> {"access"}, pair |-> Len(owner) + 1,
                 over |-> refresh.over]
  /\ crossed' = (crossed \/ refresh.over)
  /\ UNCHANGED <<store, user, login, ending, call, lost>>

RefreshAnswered ==
  /\ refresh.at = "sent" /\ refresh.pair \in fresh
  /\ Issue(owner[refresh.pair])
  /\ fresh' = (fresh \ {refresh.pair}) \union {Len(owner) + 1}
  /\ refresh' = [at |-> "saving", todo |-> Tokens, pair |-> Len(owner) + 1, over |-> refresh.over]
  /\ crossed' = (crossed \/ refresh.over)
  /\ UNCHANGED <<store, user, login, ending, call, lost>>

\* The server has seen the refresh token before.
RefreshRefused ==
  /\ refresh.at = "sent" /\ refresh.pair \notin fresh
  /\ FailRefresh
  /\ UNCHANGED <<store, user, login, owner, fresh, lost>>

\* No answer in 15 seconds, or an error; the server may use the token up all the
\* same, then or later.
RefreshLost ==
  /\ refresh.at = "sent"
  /\ lost' = lost \union {refresh.pair}
  /\ FailRefresh
  /\ UNCHANGED <<store, user, login, owner, fresh>>

ServedLate(n) ==
  /\ n \in lost
  /\ fresh' = fresh \ {n}
  /\ UNCHANGED <<store, user, login, refresh, ending, call, owner, crossed, lost>>

SaveRefreshToken(k) ==
  /\ k \in refresh.todo
  /\ store' = [store EXCEPT ![k] = refresh.pair]
  /\ refresh' = [refresh EXCEPT !.todo = @ \ {k}]
  /\ UNCHANGED <<user, login, ending, call, owner, fresh, crossed, lost>>

\* SecureStore rejects the read of the token, or a write of the new pair; the
\* token left in the storage may be the one that was used up.
RefreshStorageFails ==
  /\ refresh.at \in {"reading", "saving"}
  /\ lost' = lost \union ({store.refresh} \ (fresh \union {0}))
  /\ FailRefresh
  /\ UNCHANGED <<store, user, login, owner, fresh>>

\* The promise is fulfilled; what waited goes out again.
Refreshed ==
  /\ refresh.at = "saving" /\ refresh.todo = {}
  /\ refresh' = NoRefresh
  /\ call' = [c \in Call |-> IF c \in Waiting
                               THEN [at |-> "sent", retried |-> TRUE]
                               ELSE call[c]]
  /\ UNCHANGED <<store, user, login, ending, owner, fresh, crossed, lost>>
-----------------------------------------------------------------------------
(* The device. *)

\* The app is killed and started again: with a refresh token, the stored user is
\* signed in.
Restart ==
  /\ user' = IF store.refresh # 0 THEN store.user ELSE None
  /\ login' = NoLogin /\ refresh' = NoRefresh
  /\ ending' = [e \in Ender |-> NoEnd]
  /\ call' = [c \in Call |-> Free]
  /\ crossed' = (crossed \/ login.at = "saving" \/ Ending)
  /\ lost' = lost \union {n \in fresh : refresh.at = "sent" /\ n = refresh.pair}
                   \union ({store.refresh} \ (fresh \union {0}))
  /\ UNCHANGED <<store, owner, fresh>>
-----------------------------------------------------------------------------
Next ==
  \/ \E p \in Person : BeginLogin(p)
  \/ LoginAnswered \/ LoginRefused \/ SaveLoginUser \/ LoginNotSaved \/ LoggedIn
  \/ \E k \in Tokens : SaveLoginToken(k) \/ SaveRefreshToken(k)
  \/ Logout
  \/ \E e \in Ender : LoggedOut(e) \/ EndingFails(e) \/ \E k \in Key : DeleteKey(e, k)
  \/ \E c \in Call : \/ Send(c) \/ Settled(c) \/ Unauthorized(c)
                     \/ SessionExpired(c)
  \/ PresentToken \/ NothingToPresent
  \/ RefreshAnswered \/ RefreshRefused \/ RefreshLost \/ RefreshStorageFails \/ Refreshed
  \/ Restart
  \/ \E n \in lost : ServedLate(n)

Spec == Init /\ [][Next]_vars
-----------------------------------------------------------------------------
TokenPair == 0 .. MaxPairs

StoreState == [access : TokenPair, refresh : TokenPair, user : Person \union {None}]
LoginState == [at : {"none", "sent", "saving"}, todo : SUBSET Key,
               pair : TokenPair, who : Person \union {None}]
RefreshState == [at : {"none", "reading", "sent", "saving"}, todo : SUBSET Tokens,
                 pair : TokenPair, over : BOOLEAN]
EndState == [at : {"none", "clear", "logout"}, todo : SUBSET Key]
CallState == [at : {"free", "sent", "waiting", "failing"}, retried : BOOLEAN]

\* Types; every pair of tokens in use was issued.
TypeOK ==
  /\ store \in StoreState /\ user \in Person \union {None}
  /\ login \in LoginState /\ refresh \in RefreshState
  /\ ending \in [Ender -> EndState] /\ call \in [Call -> CallState]
  /\ owner \in Seq(Person) /\ Len(owner) <= MaxPairs
  /\ fresh \subseteq 1 .. Len(owner) /\ lost \subseteq 1 .. Len(owner) /\ crossed \in BOOLEAN
  /\ {store.access, store.refresh, login.pair, refresh.pair} \subseteq 0 .. Len(owner)

\* A request that awaits the shared refresh has one to await.
NoneWaitsInVain == Waiting # {} => refresh.at # "none"

\* "A single in-flight refresh is shared so concurrent 401s don't stampede": no
\* refresh token is presented that a refresh has already used up, unless the
\* app never heard, or never stored, what came of that refresh.
PresentedOnce ==
  refresh.at = "sent" => refresh.pair \in fresh \union lost

\* Nobody is writing the storage.
Quiet == login.at # "saving" /\ ~Ending

\* What the screens say is what the storage holds, across sign-ins, sign-outs,
\* failed refreshes and restarts: signed out means that no refresh token is
\* left to restore the session, signed in that the profile and both tokens are
\* that user's.  Excepted is the time from a sign-in, a sign-out and a refresh
\* that overlapped, or broke off (killed, or a write rejected), to the next sign-in.
ScreenMatchesStorage ==
  Quiet /\ ~crossed =>
    IF user = None THEN store.refresh = 0
    ELSE /\ store.user = user
         /\ store.refresh # 0 /\ owner[store.refresh] = user
         /\ store.access # 0 /\ owner[store.access] = user

\* What a sign-in, the refresh and a sign-out know while they write.
LoginSound ==
  /\ login.at # "saving" => login.todo = {}
  /\ login.at # "none" => user = None /\ login.who \in Person
  /\ login.at = "saving" => login.pair # 0 /\ owner[login.pair] = login.who
  /\ login.at = "saving" /\ ~crossed =>
       /\ ~Ending
       /\ \A k \in Key \ login.todo :
            store[k] = IF k = "user" THEN login.who ELSE login.pair
RefreshSound ==
  /\ refresh.at # "saving" => refresh.todo = {}
  /\ refresh.at \in {"sent", "saving"} => refresh.pair # 0
  /\ refresh.at # "none" /\ ~Quiet => crossed \/ (refresh.at # "saving" /\ refresh.over)
  /\ ~crossed /\ (refresh.at = "saving" \/ (refresh.at = "sent" /\ ~refresh.over)) =>
       user # None /\ owner[refresh.pair] = user
EndingSound ==
  \A e \in Ender :
    /\ ending[e].at = "none" => ending[e].todo = {}
    /\ ending[e].at # "none" /\ ~crossed =>
         "refresh" \in ending[e].todo \/ store.refresh = 0

\* A refresh token that is stored, or about to be, can still be used.
FreshKept ==
  /\ store.refresh # 0 /\ "refresh" \notin refresh.todo => store.refresh \in fresh \union lost
  /\ "refresh" \in refresh.todo => refresh.pair \in fresh \ lost
  /\ "refresh" \in login.todo => /\ login.pair \in fresh \ lost
                                /\ login.pair \notin {store.refresh, refresh.pair}

\* All of this together is preserved by every step.
Inductive ==
  /\ TypeOK /\ NoneWaitsInVain /\ PresentedOnce /\ ScreenMatchesStorage
  /\ LoginSound /\ RefreshSound /\ EndingSound /\ FreshKept
=============================================================================
