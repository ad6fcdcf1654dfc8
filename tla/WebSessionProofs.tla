-------------------------- MODULE WebSessionProofs --------------------------
(***************************************************************************)
(* Theorems about WebSession for every set of tabs, requests and persons,  *)
(* every relation MayActAs and any number of tokens.  A step is a step of  *)
(* one tab: the requests of the others stay as they are, and the others    *)
(* only learn that the shared store changed under them.                    *)
(***************************************************************************)
EXTENDS WebSession, TLAPS

USE WebSessionAssumption

(* The conjuncts of Inductive about one tab and about one request of it.    *)
TabGood(state, st, own, starting) ==
  /\ TabSound(state, st, own)
  /\ state.renewing <= Len(own)
  /\ state.stored # None /\ starting = {} => state.actAs = state.stored
  /\ state.authed /\ state.actAs # None => state.stored = state.actAs \/ state.torn
  /\ state.stored # None /\ state.stored.write => state.stored.user \in state.allowed
  /\ state.authed /\ ~state.strayed =>
       state.cache \subseteq {IF state.actAs # None THEN state.actAs.user ELSE state.real}
CallGood(r, state, own) ==
  /\ r.tab \in Tab /\ r.at # "free" /\ r.pair <= Len(own)
  /\ r.at = "queued" => state.renewing # 0
  /\ r.as # None /\ r.as.write => r.as.user \in state.allowed
  /\ CallSound(r, state, own)

(* Nothing of a tab changed but, perhaps, that the store changed under it.  *)
Aside(old, new, st, own) ==
  /\ new.real = old.real /\ new.actAs = old.actAs /\ new.stored = old.stored
  /\ new.authed = old.authed /\ new.renewing = old.renewing /\ new.cache = old.cache
  /\ new.allowed = old.allowed /\ new.torn = old.torn
  /\ ~new.strayed => ~old.strayed /\ ~Foreign(old, st, own)

\* The tokens issued so far keep their owners.
Longer ==
  /\ owner' \in Seq(Person) /\ Len(owner) <= Len(owner') /\ Len(owner') <= MaxPairs
  /\ \A n \in 1 .. Len(owner) : owner'[n] = owner[n]

\* What Inductive says of a tab and of a request.
LEMMA Parts ==
  ASSUME Inductive
  PROVE  /\ \A t \in Tab : /\ tab[t] \in TabState
                           /\ TabGood(tab[t], store, owner, Starting(t))
         /\ \A c \in Call : /\ call[c] \in CallState
                            /\ \/ call[c] = Free
                               \/ CallGood(call[c], tab[call[c].tab], owner)
<1>1. ASSUME NEW t \in Tab
      PROVE  tab[t] \in TabState /\ TabGood(tab[t], store, owner, Starting(t))
  BY <1>1 DEF Inductive, TypeOK, HeadersAreBannered, WritesWereAllowed,
              CacheIsOwnUnlessStrayed, TabGood, Shown
<1>2. ASSUME NEW c \in Call, call[c] # Free
      PROVE  CallGood(call[c], tab[call[c].tab], owner)
  <2>1. call[c].at # "free" /\ call[c].tab \in Tab /\ c \in CallsOf(call[c].tab)
    BY <1>2 DEF Inductive, CallsOf
  <2>2. QED
    BY <2>1 DEF Inductive, TypeOK, NoneWaitsInVain, WritesWereAllowed, CallGood
<1>3. QED
  BY <1>1, <1>2 DEF Inductive, TypeOK

\* And the other way round, for the state after a step.
LEMMA PartsNext ==
  ASSUME TypeOK',
         \A t \in Tab : TabGood(tab'[t], store', owner', Starting(t)'),
         \A c \in Call : call'[c] = Free \/ CallGood(call'[c], tab'[call'[c].tab], owner')
  PROVE  Inductive'
<1>1. Free.at = "free" /\ Free.as = None
  BY DEF Free
<1>2. NoneWaitsInVain' /\ HeadersAreBannered' /\ CacheIsOwnUnlessStrayed'
  BY <1>1 DEF NoneWaitsInVain, HeadersAreBannered, CacheIsOwnUnlessStrayed, TabGood,
              CallGood, Shown
<1>3. WritesWereAllowed'
  BY <1>1 DEF WritesWereAllowed, TabGood, CallGood, CallsOf
<1>4. \A t \in Tab : TabSound(tab'[t], store', owner')
  BY DEF TabGood
<1>5. \A c \in Call : IF call'[c].at = "free" THEN call'[c] = Free
                      ELSE /\ call'[c].tab \in Tab
                           /\ CallSound(call'[c], tab'[call'[c].tab], owner')
  BY <1>1 DEF CallGood
<1>6. QED
  BY <1>2, <1>3, <1>4, <1>5 DEF Inductive

\* A step of the tab t keeps Inductive when it keeps the types, leaves t and its
\* requests as they must be, and the other tabs aside.
LEMMA StepOfTab ==
  ASSUME Inductive, TypeOK', Longer, NEW t \in Tab,
         TabGood(tab'[t], store', owner', Starting(t)'),
         \A u \in Tab \ {t} : Aside(tab[u], tab'[u], store', owner'),
         \A c \in Call : \/ call'[c] = call[c] /\ call[c].tab # t
                         \/ call'[c] = Free /\ call[c].tab \in {t, None}
                         \/ /\ call'[c].tab = t /\ call[c].tab \in {t, None}
                            /\ CallGood(call'[c], tab'[t], owner')
  PROVE  Inductive'
<1>1. ASSUME NEW u \in Tab \ {t} PROVE TabGood(tab'[u], store', owner', Starting(u)')
  <2>1. TabGood(tab[u], store, owner, Starting(u)) /\ tab[u] \in TabState
    BY Parts
  <2>2. Starting(u)' = Starting(u)
    <3>1. \A c \in Call : call'[c].tab = u \/ call[c].tab = u => call'[c] = call[c]
      BY DEF Free
    <3>2. QED
      BY <3>1 DEF Starting, CallsOf
  <2>3. Aside(tab[u], tab'[u], store', owner')
    OBVIOUS
  <2>4. TabSound(tab'[u], store', owner')
    BY <2>1, <2>3 DEF TabGood, TabSound, Aside, Foreign
  <2>5. tab'[u].renewing <= Len(owner')
    BY <2>1, <2>3 DEF TabGood, Aside, Longer, TabState, TokenPair, Inductive, TypeOK
  <2>6. QED
    BY <2>1, <2>2, <2>3, <2>4, <2>5 DEF TabGood, Aside
<1>2. ASSUME NEW c \in Call
      PROVE  call'[c] = Free \/ CallGood(call'[c], tab'[call'[c].tab], owner')
  <2>1. CASE call'[c] = call[c] /\ call[c].tab # t /\ call[c] # Free
    <3> DEFINE r == call[c]
    <3> DEFINE u == call[c].tab
    <3>1. r \in CallState /\ CallGood(r, tab[u], owner) /\ u \in Tab \ {t}
      BY <2>1, Parts DEF CallGood
    <3>2. Aside(tab[u], tab'[u], store', owner')
      BY <3>1
    <3>3. r.pair <= Len(owner') /\ (r.pair # 0 => owner'[r.pair] = owner[r.pair])
      BY <3>1 DEF CallGood, CallState, TokenPair, Longer, Inductive, TypeOK
    <3> HIDE DEF r, u
    <3>4. CallSound(r, tab'[u], owner')
      BY <3>1, <3>2, <3>3 DEF CallGood, CallSound, Aside
    <3>5. CallGood(r, tab'[u], owner')
      BY <3>1, <3>2, <3>3, <3>4 DEF CallGood, Aside
    <3>6. QED
      BY <2>1, <3>5 DEF r, u
  <2>2. QED
    BY <2>1
<1>3. QED
  BY <1>1, <1>2, PartsNext

-----------------------------------------------------------------------------
(* What the operators on tabs and requests return.                          *)

\* The signed-out store makes no tab stray.
LEMMA SignedOutAside ==
  ASSUME NEW state, NEW own
  PROVE  ~Foreign(state, SignedOut, own)
BY DEF Foreign, SignedOut

\* A page just loaded has its type.
LEMMA LoadedType ==
  ASSUME NEW st \in [pair : TokenPair, user : Person \union {None}],
         NEW acting \in Acting \union {None}
  PROVE  /\ Loaded(st, acting) \in TabState
         /\ Loaded(st, acting).real = st.user /\ Loaded(st, acting).actAs = acting
         /\ Loaded(st, acting).stored = acting /\ Loaded(st, acting).renewing = 0
         /\ Loaded(st, acting).cache = {} /\ Loaded(st, acting).allowed = {}
         /\ Loaded(st, acting).authed => st.user # None
<1> DEFINE x == st.user # None /\ st.pair # 0
<1>1. Loaded(st, acting) =
        [real |-> st.user, actAs |-> acting, stored |-> acting, authed |-> x,
         renewing |-> 0, cache |-> {}, strayed |-> FALSE, allowed |-> {}, torn |-> FALSE]
  BY DEF Loaded
<1>2. x \in BOOLEAN /\ (x => st.user # None)
  OBVIOUS
<1> HIDE DEF x
<1>3. Loaded(st, acting) \in TabState
  BY <1>1, <1>2 DEF TabState, TokenPair
<1>4. QED
  BY <1>1, <1>2, <1>3

LEMMA FreeType ==
  Free \in CallState /\ SignedOut \in [pair : TokenPair, user : Person \union {None}]
BY DEF Free, CallState, Kind, TokenPair, SignedOut

\* Dropped reads differ in that alone.
LEMMA DroppedType ==
  ASSUME NEW t \in Tab, call \in [Call -> CallState], NEW c \in Call
  PROVE  /\ DropReads(t, call) \in [Call -> CallState]
         /\ call[c].tab # t => DropReads(t, call)[c] = call[c]
         /\ call[c].kind # "read" => DropReads(t, call)[c] = call[c]
         /\ call[c].tab = t /\ call[c].kind = "read" =>
              DropReads(t, call)[c] = [call[c] EXCEPT !.dropped = TRUE]
<1>1. \A d \in Call : [call[d] EXCEPT !.dropped = TRUE] \in CallState
  BY DEF CallState
<1>2. QED
  BY <1>1 DEF DropReads

\* A request whose read was dropped, in a tab that renews and allows what it did.
LEMMA DroppedGood ==
  ASSUME NEW t \in Tab, call \in [Call -> CallState], NEW c \in Call,
         NEW state, NEW new \in TabState, NEW own,
         CallGood(call[c], state, owner), call[c].tab = t, call[c].pair <= Len(own),
         new.renewing = state.renewing, state.allowed \subseteq new.allowed
  PROVE  LET r == DropReads(t, call)[c] IN r.tab = t /\ CallGood(r, new, own)
<1> DEFINE r == DropReads(t, call)[c]
<1>1. /\ r.tab = t /\ r.at = call[c].at /\ r.pair = call[c].pair /\ r.as = call[c].as
      /\ r.kind = call[c].kind /\ r.who = call[c].who
      /\ r.kind = "read" => r.dropped
  <2>1. CASE call[c].kind = "read"
    <3>1. r = [call[c] EXCEPT !.dropped = TRUE] /\ call[c] \in CallState
      BY <2>1, DroppedType
    <3> HIDE DEF r
    <3>2. QED
      BY <3>1 DEF CallState
  <2>2. CASE call[c].kind # "read"
    BY <2>2, DroppedType
  <2>3. QED
    BY <2>1, <2>2
<1> HIDE DEF r
<1>2. QED
  BY <1>1 DEF CallGood, CallSound, r

-----------------------------------------------------------------------------
(* A step puts a tab in a new state, which is then marked if the store has   *)
(* changed; what must be shown of each action is only what it shows of that  *)
(* state and of the requests.                                               *)

StateGood(state, own, starting) ==
  /\ state.authed => state.real # None
  /\ state.authed /\ ~state.strayed =>
       /\ state.stored = state.actAs
       /\ state.cache \subseteq {IF state.actAs # None THEN state.actAs.user ELSE state.real}
  /\ state.renewing <= Len(own)
  /\ state.stored # None /\ starting = {} => state.actAs = state.stored
  /\ state.authed /\ state.actAs # None => state.stored = state.actAs \/ state.torn
  /\ state.stored # None /\ state.stored.write => state.stored.user \in state.allowed

Becomes(t, state) ==
  /\ tab' \in [Tab -> TabState] /\ Aside(state, tab'[t], store', owner')
  /\ \A u \in Tab \ {t} : Aside(tab[u], tab'[u], store', owner')

TokensGood ==
  /\ store' \in [pair : TokenPair, user : Person \union {None}]
  /\ store'.pair <= Len(owner')
  /\ live' \subseteq 1 .. Len(owner') /\ fresh' \subseteq 1 .. Len(owner')

LEMMA StateStep ==
  ASSUME Inductive, Longer, TokensGood, NEW t \in Tab, NEW state \in TabState,
         Becomes(t, state), StateGood(state, owner', Starting(t)'),
         call' \in [Call -> CallState],
         \A c \in Call : \/ call'[c] = call[c] /\ call[c].tab # t
                         \/ call'[c] = Free /\ call[c].tab \in {t, None}
                         \/ /\ call'[c].tab = t /\ call[c].tab \in {t, None}
                            /\ CallGood(call'[c], state, owner')
  PROVE  Inductive'
<1>1. TypeOK'
  <2>1. ASSUME NEW u \in Tab PROVE tab'[u].renewing <= Len(owner')
    <3>1. CASE u = t
      BY <3>1 DEF Becomes, StateGood, Aside
    <3>2. CASE u # t
      <4>1. /\ tab'[u].renewing = tab[u].renewing /\ tab[u].renewing <= Len(owner)
            /\ tab[u].renewing \in Nat /\ Len(owner) \in Nat /\ Len(owner') \in Nat
        BY <3>2 DEF Becomes, Aside, Inductive, TypeOK, TabState, TokenPair, Longer
      <4>2. QED
        BY <4>1 DEF Longer
    <3>3. QED
      BY <3>1, <3>2
  <2>2. ASSUME NEW c \in Call PROVE call'[c].pair <= Len(owner')
    <3>1. /\ call[c].pair <= Len(owner) /\ call[c].pair \in Nat /\ Len(owner) \in Nat
          /\ Len(owner') \in Nat /\ Len(owner) <= Len(owner') /\ Free.pair = 0
      BY DEF Inductive, TypeOK, CallState, TokenPair, Longer, Free
    <3>2. QED
      BY <3>1 DEF CallGood
  <2>3. QED
    BY <2>1, <2>2 DEF TypeOK, Becomes, TokensGood, Longer
<1>2. TabGood(tab'[t], store', owner', Starting(t)')
  <2>1. TabSound(tab'[t], store', owner')
    BY DEF Becomes, StateGood, Aside, TabSound, Foreign
  <2>2. QED
    BY <2>1 DEF Becomes, StateGood, Aside, TabGood
<1>3. ASSUME NEW c \in Call, CallGood(call'[c], state, owner')
      PROVE  CallGood(call'[c], tab'[t], owner')
  BY <1>3 DEF Becomes, CallGood, CallSound, Aside
<1>4. QED
  BY <1>1, <1>2, <1>3, StepOfTab DEF Becomes

\* A tab is marked, or the store is signed out, or it has not changed.
LEMMA BecomesMarked ==
  ASSUME Inductive, NEW t \in Tab, NEW state \in TabState,
         tab' = Marked([tab EXCEPT ![t] = state], store', owner')
  PROVE  Becomes(t, state)
<1> DEFINE tabs == [tab EXCEPT ![t] = state]
<1> DEFINE x(v) == tabs[v].strayed \/ Foreign(tabs[v], store', owner')
<1> DEFINE new(v) == [tabs[v] EXCEPT !.strayed = x(v)]
<1>1. /\ tabs \in [Tab -> TabState] /\ tabs[t] = state
      /\ \A u \in Tab \ {t} : tabs[u] = tab[u]
  BY DEF Inductive, TypeOK
<1>2. tab' = [v \in Tab |-> new(v)]
  BY DEF Marked
<1> HIDE DEF tabs
<1>3. ASSUME NEW v \in Tab
      PROVE  new(v) \in TabState /\ Aside(tabs[v], new(v), store', owner')
  <2>1. x(v) \in BOOLEAN /\ tabs[v] \in TabState
        /\ (~x(v) => ~tabs[v].strayed /\ ~Foreign(tabs[v], store', owner'))
    BY <1>1 DEF Foreign, TabState
  <2> HIDE DEF x
  <2>2. QED
    BY <2>1 DEF TabState, Aside
<1> HIDE DEF new
<1>4. tab' \in [Tab -> TabState] /\ \A v \in Tab : tab'[v] = new(v)
  BY <1>2, <1>3
<1>5. ASSUME NEW v \in Tab PROVE Aside(tabs[v], tab'[v], store', owner')
  BY <1>3, <1>4 DEF Aside
<1>6. Aside(state, tab'[t], store', owner')
  BY <1>1, <1>5 DEF Aside, Foreign
<1>7. ASSUME NEW u \in Tab \ {t} PROVE Aside(tab[u], tab'[u], store', owner')
  <2>1. tabs[u] = tab[u] /\ Aside(tabs[u], tab'[u], store', owner')
    BY <1>1, <1>5
  <2>2. QED
    BY <2>1 DEF Aside, Foreign
<1>8. QED
  BY <1>4, <1>6, <1>7 DEF Becomes
LEMMA BecomesSignedOut ==
  ASSUME Inductive, NEW t \in Tab, NEW state \in TabState,
         tab' = [tab EXCEPT ![t] = state], store' = SignedOut
  PROVE  Becomes(t, state)
BY SignedOutAside DEF Becomes, Aside, Inductive, TypeOK
LEMMA BecomesQuietly ==
  ASSUME Inductive, NEW t \in Tab, NEW state \in TabState,
         tab' = [tab EXCEPT ![t] = state], UNCHANGED <<store, owner>>,
         ~state.strayed => ~Foreign(state, store, owner)
  PROVE  Becomes(t, state)
<1>1. \A u \in Tab : Aside(tab[u], tab[u], store, owner)
  BY DEF Aside, Inductive, TabSound
<1>2. tab' \in [Tab -> TabState] /\ tab'[t] = state /\ \A u \in Tab \ {t} : tab'[u] = tab[u]
  BY DEF Inductive, TypeOK
<1>3. QED
  BY <1>1, <1>2 DEF Becomes, Aside

\* Nothing was issued.
LEMMA Unissued ==
  ASSUME Inductive, UNCHANGED owner
  PROVE  Longer /\ Len(owner) \in Nat
BY DEF Inductive, TypeOK, Longer

-----------------------------------------------------------------------------
(* Steps that load the page of a tab anew: its requests are gone.           *)

LEMMA PageLoaded ==
  ASSUME Inductive, Longer, TokensGood, NEW t \in Tab, NEW state \in TabState,
         Becomes(t, state), state.stored = state.actAs, state.renewing = 0,
         state.cache = {}, state.authed => state.real # None,
         state.stored # None /\ state.stored.write => state.stored.user \in state.allowed,
         call' = [c \in Call |-> IF call[c].tab = t THEN Free ELSE call[c]]
  PROVE  Inductive'
<1>1. Len(owner') \in Nat
  BY DEF Longer
<1>2. StateGood(state, owner', Starting(t)')
  BY <1>1 DEF StateGood
<1>3. call' \in [Call -> CallState]
  BY FreeType DEF Inductive, TypeOK
<1>4. \A c \in Call : \/ call'[c] = call[c] /\ call[c].tab # t
                      \/ call'[c] = Free /\ call[c].tab \in {t, None}
  OBVIOUS
<1>5. QED
  BY <1>2, <1>3, <1>4, StateStep

\* A reload keeps what sessionStorage and localStorage hold.
LEMMA ReloadStep ==
  ASSUME Inductive, NEW t \in Tab, Reload(t)
  PROVE  Inductive'
<1> DEFINE page == Loaded(store, tab[t].stored)
<1> DEFINE state == [page EXCEPT !.allowed = tab[t].allowed]
<1>1. /\ tab[t] \in TabState /\ tab[t].stored \in Acting \union {None}
      /\ store \in [pair : TokenPair, user : Person \union {None}]
      /\ tab[t].stored # None /\ tab[t].stored.write =>
           tab[t].stored.user \in tab[t].allowed
  BY DEF Inductive, TypeOK, TabState, WritesWereAllowed
<1>2. /\ page \in TabState /\ page.real = store.user /\ page.actAs = tab[t].stored
      /\ page.stored = tab[t].stored /\ page.renewing = 0 /\ page.cache = {}
      /\ page.authed => store.user # None
  BY <1>1, LoadedType
<1>3. tab' = Marked([tab EXCEPT ![t] = state], store', owner')
  BY DEF Reload, Inductive, TypeOK
<1> HIDE DEF page
<1>4. /\ state \in TabState /\ state.real = store.user /\ state.actAs = tab[t].stored
      /\ state.stored = tab[t].stored /\ state.renewing = 0 /\ state.cache = {}
      /\ state.allowed = tab[t].allowed /\ (state.authed => store.user # None)
  <2>1. tab[t].allowed \in SUBSET Person
    BY <1>1 DEF TabState
  <2>2. QED
    BY <1>2, <2>1 DEF TabState
<1> HIDE DEF state
<1>5. /\ UNCHANGED <<store, owner, live, fresh>>
      /\ call' = [c \in Call |-> IF call[c].tab = t THEN Free ELSE call[c]]
  BY DEF Reload
<1>6. Becomes(t, state) /\ Longer /\ TokensGood
  BY <1>3, <1>4, <1>5, BecomesMarked, Unissued DEF TokensGood, Inductive, TypeOK
<1>7. QED
  BY <1>1, <1>4, <1>5, <1>6, PageLoaded

\* A tab that takes the place of another starts without View as.
LEMMA ReopenStep ==
  ASSUME Inductive, NEW t \in Tab, Reopen(t)
  PROVE  Inductive'
<1> DEFINE page == Loaded(store, None)
<1>1. store \in [pair : TokenPair, user : Person \union {None}]
  BY DEF Inductive, TypeOK
<1>2. /\ page \in TabState /\ page.real = store.user /\ page.actAs = None
      /\ page.stored = None /\ page.renewing = 0 /\ page.cache = {}
      /\ page.authed => store.user # None
  BY <1>1, LoadedType
<1> HIDE DEF page
<1>3. /\ tab' = Marked([tab EXCEPT ![t] = page], store', owner')
      /\ UNCHANGED <<store, owner, live, fresh>>
      /\ call' = [c \in Call |-> IF call[c].tab = t THEN Free ELSE call[c]]
  BY DEF Reopen, page
<1>4. Becomes(t, page) /\ Longer /\ TokensGood
  BY <1>2, <1>3, BecomesMarked, Unissued DEF TokensGood, Inductive, TypeOK
<1>5. QED
  BY <1>2, <1>3, <1>4, PageLoaded

-----------------------------------------------------------------------------
(* Steps of one request.                                                    *)

\* The requests of the tab but one are as good for its new state as before.
CallsKept(t, c, state) ==
  \A d \in Call \ {c} : call[d].tab = t => CallGood(call[d], state, owner')

\* A request of t is made, moves on or ends.
LEMMA OneCall ==
  ASSUME Inductive, Longer, TokensGood, NEW t \in Tab, NEW state \in TabState,
         Becomes(t, state), NEW c \in Call, call[c].tab \in {t, None},
         NEW r \in CallState, call' = [call EXCEPT ![c] = r],
         r = Free \/ (r.tab = t /\ CallGood(r, state, owner')),
         CallsKept(t, c, state), StateGood(state, owner', Starting(t)')
  PROVE  Inductive'
<1>1. call' \in [Call -> CallState] /\ call'[c] = r
  BY DEF Inductive, TypeOK
<1>2. \A d \in Call \ {c} : call'[d] = call[d]
  BY DEF Inductive, TypeOK
<1>3. ASSUME NEW d \in Call
      PROVE  \/ call'[d] = call[d] /\ call[d].tab # t
             \/ call'[d] = Free /\ call[d].tab \in {t, None}
             \/ /\ call'[d].tab = t /\ call[d].tab \in {t, None}
                /\ CallGood(call'[d], state, owner')
  BY <1>1, <1>2 DEF CallsKept
<1>4. QED
  BY <1>1, <1>3, StateStep

\* The state of a tab is good to begin with, and so are its requests.
LEMMA Given ==
  ASSUME Inductive, NEW t \in Tab
  PROVE  /\ tab[t] \in TabState /\ StateGood(tab[t], owner, Starting(t))
         /\ ~tab[t].strayed => ~Foreign(tab[t], store, owner)
         /\ \A c \in Call : call[c].tab = t => CallGood(call[c], tab[t], owner)
<1>1. Free.tab = None
  BY DEF Free
<1>2. QED
  BY <1>1, Parts DEF TabGood, TabSound, StateGood

LEMMA QuietTokens ==
  ASSUME Inductive, UNCHANGED <<store, owner, live, fresh>>
  PROVE  TokensGood /\ Longer
BY Unissued DEF TokensGood, Inductive, TypeOK

\* A step that leaves the tabs and the tokens alone and makes one request.
LEMMA Asked ==
  ASSUME Inductive, NEW t \in Tab, NEW c \in Call, NEW r \in CallState,
         UNCHANGED <<store, owner, live, fresh, tab>>, call[c] = Free,
         call' = [call EXCEPT ![c] = r], r.tab = t, r.kind # "me",
         CallGood(r, tab[t], owner)
  PROVE  Inductive'
<1>1. tab' = [tab EXCEPT ![t] = tab[t]]
  BY DEF Inductive, TypeOK
<1>2. Becomes(t, tab[t])
  BY <1>1, Given, BecomesQuietly
<1>3. Starting(t)' = Starting(t)
  <2>1. call'[c] = r /\ \A d \in Call \ {c} : call'[d] = call[d]
    BY DEF Inductive, TypeOK
  <2>2. call[c].kind # "me"
    BY DEF Free
  <2>3. QED
    BY <2>1, <2>2 DEF Starting, CallsOf
<1>4. StateGood(tab[t], owner', Starting(t)') /\ CallsKept(t, c, tab[t])
  BY <1>3, Given DEF CallsKept
<1>5. call[c].tab = None
  BY DEF Free
<1>6. QED
  BY <1>2, <1>4, <1>5, Given, QuietTokens, OneCall

\* A sign-in is sent.
LEMMA BeginLoginStep ==
  ASSUME Inductive, NEW t \in Tab, NEW c \in Call, NEW p \in Person, BeginLogin(t, c, p)
  PROVE  Inductive'
<1> DEFINE r == [Free EXCEPT !.tab = t, !.kind = "login", !.at = "sent", !.who = p]
<1>1. /\ r \in CallState /\ r.tab = t /\ r.kind = "login" /\ r.at = "sent" /\ r.who = p
      /\ r.pair = 0 /\ r.as = None
  <2>1. Free \in CallState /\ Free.pair = 0 /\ Free.as = None /\ "login" \in Kind
    BY FreeType DEF Free, Kind
  <2>2. QED
    BY <2>1 DEF CallState
<1> HIDE DEF r
<1>2. CallGood(r, tab[t], owner)
  BY <1>1, Unissued DEF CallGood, CallSound, Inductive, TypeOK
<1>3. /\ UNCHANGED <<store, owner, live, fresh, tab>> /\ call[c] = Free
      /\ call' = [call EXCEPT ![c] = r]
  BY DEF BeginLogin, r
<1>4. QED
  BY <1>1, <1>2, <1>3, Asked

\* What the interceptor makes of a request.
LEMMA StampedType ==
  ASSUME NEW r \in CallState, NEW state \in TabState,
         NEW st \in [pair : TokenPair, user : Person \union {None}]
  PROVE  LET q == Stamped(r, state, st) IN
         /\ q \in CallState /\ q.tab = r.tab /\ q.kind = r.kind /\ q.at = "sent"
         /\ q.pair = st.pair /\ q.dropped = r.dropped /\ q.who = r.who
         /\ q.as = IF state.stored # None THEN state.stored ELSE r.as
<1> DEFINE x == IF state.stored # None THEN state.stored ELSE r.as
<1>1. x \in Acting \union {None}
  BY DEF TabState, CallState
<1>2. Stamped(r, state, st) = [r EXCEPT !.at = "sent", !.pair = st.pair, !.as = x]
  BY DEF Stamped, CallState
<1> HIDE DEF x
<1>3. [r EXCEPT !.at = "sent", !.pair = st.pair, !.as = x] \in CallState
  BY <1>1 DEF CallState
<1>4. QED
  BY <1>2, <1>3 DEF CallState, x

\* A request of a tab whose own tokens are stored is made as whom the tab shows.
LEMMA StampedGood ==
  ASSUME NEW r \in CallState, NEW state \in TabState,
         NEW st \in [pair : TokenPair, user : Person \union {None}], NEW own, NEW starting,
         r.tab \in Tab, r.kind # "login", st.pair <= Len(own),
         StateGood(state, own, starting), ~state.strayed => ~Foreign(state, st, own),
         r.as # None /\ r.as.write => r.as.user \in state.allowed,
         ~r.dropped /\ state.authed /\ ~state.strayed /\ r.kind = "read" /\ r.as # None =>
           state.actAs # None /\ state.actAs.user = r.as.user
  PROVE  CallGood(Stamped(r, state, st), state, own)
<1> DEFINE q == Stamped(r, state, st)
<1>1. /\ q \in CallState /\ q.tab = r.tab /\ q.kind = r.kind /\ q.at = "sent"
      /\ q.pair = st.pair /\ q.dropped = r.dropped
      /\ q.as = IF state.stored # None THEN state.stored ELSE r.as
  BY StampedType
<1> HIDE DEF q
<1>2. q.as # None /\ q.as.write => q.as.user \in state.allowed
  BY <1>1 DEF StateGood
<1>3. CallSound(q, state, own)
  <2>1. SUFFICES ASSUME q.kind = "read", ~q.dropped, state.authed, ~state.strayed
                 PROVE  IF q.as = None
                          THEN state.actAs = None /\ (q.pair # 0 => own[q.pair] = state.real)
                          ELSE state.actAs # None /\ state.actAs.user = q.as.user
    BY <1>1 DEF CallSound
  <2>2. state.stored = state.actAs /\ state.real # None /\ ~Foreign(state, st, own)
    BY <2>1 DEF StateGood
  <2>3. QED
    BY <1>1, <2>1, <2>2 DEF Foreign
<1>4. QED
  BY <1>1, <1>2, <1>3 DEF CallGood, q

\* A read or a write is sent.
LEMMA SendStep ==
  ASSUME Inductive, NEW t \in Tab, NEW c \in Call, NEW kind \in {"read", "write"},
         Send(t, c, kind)
  PROVE  Inductive'
<1> DEFINE q == [Free EXCEPT !.tab = t, !.kind = kind]
<1> DEFINE r == Stamped(q, tab[t], store)
<1>1. q \in CallState /\ q.tab = t /\ q.kind = kind /\ q.as = None
  <2>1. Free \in CallState /\ Free.as = None /\ kind \in Kind
    BY FreeType DEF Free, Kind
  <2>2. QED
    BY <2>1 DEF CallState
<1>2. store \in [pair : TokenPair, user : Person \union {None}] /\ store.pair <= Len(owner)
  BY DEF Inductive, TypeOK
<1> HIDE DEF q
<1>3. CallGood(r, tab[t], owner)
  BY <1>1, <1>2, Given, StampedGood
<1>4. r \in CallState /\ r.tab = t /\ r.kind = kind
  BY <1>1, <1>2, Given, StampedType
<1>5. /\ UNCHANGED <<store, owner, live, fresh, tab>> /\ call[c] = Free
      /\ call' = [call EXCEPT ![c] = r]
  BY DEF Send, q
<1> HIDE DEF r
<1>6. QED
  BY <1>3, <1>4, <1>5, Asked

-----------------------------------------------------------------------------
(* Steps of the tab alone.                                                  *)

\* A step that changes a tab and none of its requests.
LEMMA TabAlone ==
  ASSUME Inductive, NEW t \in Tab, NEW state \in TabState, Longer, TokensGood,
         Becomes(t, state), UNCHANGED call, StateGood(state, owner', Starting(t)),
         \A c \in Call : call[c].tab = t => CallGood(call[c], state, owner')
  PROVE  Inductive'
<1>1. call' \in [Call -> CallState]
  BY DEF Inductive, TypeOK
<1>2. Starting(t)' = Starting(t)
  BY DEF Starting, CallsOf
<1>3. StateGood(state, owner', Starting(t)')
  BY <1>2
<1>4. QED
  BY <1>1, <1>3, StateStep

\* The profile form makes the user shown the signed-in one.
LEMMA SaveProfileStep ==
  ASSUME Inductive, NEW t \in Tab, SaveProfile(t)
  PROVE  Inductive'
<1> DEFINE st == [store EXCEPT !.user = Shown(t)]
<1> DEFINE authed == st.pair # 0
<1> DEFINE state == [tab[t] EXCEPT !.real = st.user, !.authed = authed]
<1>1. /\ tab[t] \in TabState /\ StateGood(tab[t], owner, Starting(t)) /\ tab[t].authed
      /\ store \in [pair : TokenPair, user : Person \union {None}]
      /\ store.pair <= Len(owner)
  BY Given DEF SaveProfile, InApp, Inductive, TypeOK
<1>2. Shown(t) \in Person
  BY <1>1 DEF Shown, StateGood, TabState, Acting
<1>3. /\ st \in [pair : TokenPair, user : Person \union {None}] /\ st.pair = store.pair
      /\ st.user = Shown(t)
  BY <1>1, <1>2
<1>4. /\ tab' = Marked([tab EXCEPT ![t] = state], store', owner') /\ store' = st
      /\ UNCHANGED <<owner, live, fresh, call>>
  BY DEF SaveProfile, Inductive, TypeOK
<1> HIDE DEF st
<1>5. authed \in BOOLEAN
  OBVIOUS
<1> HIDE DEF authed
<1>6. /\ state \in TabState /\ state.real = Shown(t) /\ state.authed = authed
      /\ state.actAs = tab[t].actAs /\ state.stored = tab[t].stored
      /\ state.renewing = tab[t].renewing /\ state.cache = tab[t].cache
      /\ state.strayed = tab[t].strayed /\ state.allowed = tab[t].allowed
      /\ state.torn = tab[t].torn
  BY <1>1, <1>2, <1>3, <1>5 DEF TabState
<1> HIDE DEF state
<1>7. Becomes(t, state) /\ Longer /\ TokensGood
  BY <1>1, <1>3, <1>4, <1>6, BecomesMarked, Unissued DEF TokensGood, Inductive, TypeOK
<1>8. StateGood(state, owner', Starting(t))
  BY <1>1, <1>2, <1>4, <1>6 DEF StateGood, Shown
<1>9. ASSUME NEW c \in Call, call[c].tab = t PROVE CallGood(call[c], state, owner')
  <2>1. CallGood(call[c], tab[t], owner)
    BY <1>9, Given
  <2>2. QED
    BY <1>1, <1>4, <1>6, <2>1 DEF CallGood, CallSound, Shown
<1>10. QED
  BY <1>4, <1>6, <1>7, <1>8, <1>9, TabAlone

\* Changes are switched on or off for the user acted as.
LEMMA SetCanWriteStep ==
  ASSUME Inductive, NEW t \in Tab, NEW write \in BOOLEAN, SetCanWrite(t, write)
  PROVE  Inductive'
<1> DEFINE user == tab[t].stored.user
<1> DEFINE acting == [user |-> user, write |-> write]
<1> DEFINE allowed == IF write THEN tab[t].allowed \union {user} ELSE tab[t].allowed
<1> DEFINE authed == store.pair # 0
<1> DEFINE state == [tab[t] EXCEPT !.stored.write = write,
                                   !.actAs = [tab[t].stored EXCEPT !.write = write],
                                   !.authed = authed,
                                   !.allowed = IF write THEN @ \union {user} ELSE @]
<1>1. /\ tab[t] \in TabState /\ StateGood(tab[t], owner, Starting(t)) /\ tab[t].authed
      /\ tab[t].actAs # None /\ tab[t].stored # None /\ tab[t].stored \in Acting
      /\ ~tab[t].strayed => ~Foreign(tab[t], store, owner)
  BY Given DEF SetCanWrite, InApp, TabState
<1>2. [tab[t].stored EXCEPT !.write = write] = acting /\ user \in Person
  BY <1>1 DEF Acting
<1>3. /\ allowed \subseteq Person /\ tab[t].allowed \subseteq allowed
      /\ write => user \in allowed
  BY <1>1, <1>2 DEF TabState
<1>4. authed \in BOOLEAN /\ acting \in Acting /\ acting.user = user /\ acting.write = write
  BY <1>2 DEF Acting
<1>5. tab' = [tab EXCEPT ![t] = state] /\ UNCHANGED <<store, owner, live, fresh, call>>
  BY DEF SetCanWrite, Inductive, TypeOK
<1>6. state = [tab[t] EXCEPT !.stored = acting, !.actAs = acting, !.authed = authed,
                             !.allowed = allowed]
  BY <1>1, <1>2 DEF TabState
<1> HIDE DEF user, acting, allowed, authed, state
<1>7. /\ state \in TabState /\ state.real = tab[t].real /\ state.actAs = acting
      /\ state.stored = acting /\ state.renewing = tab[t].renewing
      /\ state.cache = tab[t].cache /\ state.strayed = tab[t].strayed
      /\ state.allowed = allowed
  BY <1>1, <1>3, <1>4, <1>6 DEF TabState
<1>8. acting # None
  BY <1>4 DEF Acting
<1>9. ~state.strayed => ~Foreign(state, store, owner)
  BY <1>1, <1>7 DEF Foreign
<1>10. Becomes(t, state) /\ Longer /\ TokensGood
  BY <1>5, <1>7, <1>9, BecomesQuietly, QuietTokens
<1>11. StateGood(state, owner', Starting(t))
  BY <1>1, <1>3, <1>4, <1>5, <1>7, <1>8 DEF StateGood, user
<1>12. ASSUME NEW c \in Call, call[c].tab = t PROVE CallGood(call[c], state, owner')
  <2>1. CallGood(call[c], tab[t], owner)
    BY <1>12, Given
  <2>2. QED
    BY <1>1, <1>3, <1>4, <1>5, <1>7, <1>8, <2>1 DEF CallGood, CallSound, StateGood, user
<1>13. QED
  BY <1>5, <1>7, <1>10, <1>11, <1>12, TabAlone

-----------------------------------------------------------------------------
(* Steps that empty the cache: what is being read has nowhere to go.        *)

LEMMA EmptiedType ==
  ASSUME NEW state \in TabState
  PROVE  /\ Emptied(state) \in TabState /\ Emptied(state).real = state.real
         /\ Emptied(state).actAs = state.actAs /\ Emptied(state).stored = state.stored
         /\ Emptied(state).authed = state.authed /\ Emptied(state).allowed = state.allowed
         /\ Emptied(state).renewing = state.renewing /\ Emptied(state).cache = {}
BY DEF Emptied, TabState

\* The tab shows `actAs`, for `real`, with nothing in its cache.
Restarted(state, t, real, actAs) ==
  /\ state \in TabState /\ state.real = real /\ state.actAs = actAs /\ state.stored = actAs
  /\ state.renewing = tab[t].renewing /\ state.allowed = tab[t].allowed /\ state.cache = {}
  /\ state.authed => real # None

LEMMA Dropping ==
  ASSUME Inductive, Longer, TokensGood, NEW t \in Tab, NEW state, NEW real, NEW actAs,
         Restarted(state, t, real, actAs), Becomes(t, state),
         actAs # None /\ actAs.write => actAs.user \in tab[t].allowed,
         call' \in [Call -> CallState],
         \A c \in Call : \/ call'[c] = DropReads(t, call)[c]
                         \/ call'[c] = Free /\ call[c].tab = t
  PROVE  Inductive'
<1>1. call \in [Call -> CallState] /\ tab[t] \in TabState
  BY DEF Inductive, TypeOK
<1>2. Len(owner) \in Nat /\ Len(owner') \in Nat /\ Len(owner) <= Len(owner')
  BY DEF Longer, Inductive, TypeOK
<1>3. StateGood(state, owner', Starting(t)')
  <2>1. tab[t].renewing <= Len(owner) /\ tab[t].renewing \in Nat
    BY DEF Inductive, TypeOK, TabState, TokenPair
  <2>2. state.renewing <= Len(owner')
    BY <1>2, <2>1 DEF Restarted
  <2>3. QED
    BY <2>2 DEF Restarted, StateGood
<1>4. ASSUME NEW c \in Call
      PROVE  \/ call'[c] = call[c] /\ call[c].tab # t
             \/ call'[c] = Free /\ call[c].tab \in {t, None}
             \/ /\ call'[c].tab = t /\ call[c].tab \in {t, None}
                /\ CallGood(call'[c], state, owner')
  <2>1. CASE call'[c] = Free /\ call[c].tab = t
    BY <2>1
  <2>2. CASE call'[c] = DropReads(t, call)[c] /\ call[c].tab # t
    BY <1>1, <2>2, DroppedType
  <2>3. CASE call'[c] = DropReads(t, call)[c] /\ call[c].tab = t
    <3>1. CallGood(call[c], tab[t], owner) /\ call[c].pair \in Nat
      BY <1>1, <2>3, Given DEF CallState, TokenPair
    <3>2. call[c].pair <= Len(owner')
      BY <1>2, <3>1 DEF CallGood
    <3>3. DropReads(t, call)[c].tab = t /\ CallGood(DropReads(t, call)[c], state, owner')
      BY <1>1, <2>3, <3>1, <3>2, DroppedGood DEF Restarted
    <3>4. QED
      BY <2>3, <3>3 DEF CallGood, CallSound
  <2>4. QED
    BY <2>1, <2>2, <2>3
<1>5. state \in TabState
  BY DEF Restarted
<1>6. QED
  BY <1>3, <1>4, <1>5, StateStep

\* Sign-out.
LEMMA LogoutStep ==
  ASSUME Inductive, NEW t \in Tab, Logout(t)
  PROVE  Inductive'
<1> DEFINE old == Emptied(tab[t])
<1> DEFINE state == [old EXCEPT !.real = None, !.actAs = None, !.stored = None,
                                !.authed = FALSE, !.torn = FALSE]
<1>1. tab[t] \in TabState /\ call \in [Call -> CallState]
  BY DEF Inductive, TypeOK
<1>2. /\ tab' = [tab EXCEPT ![t] = state] /\ store' = SignedOut
      /\ call' = DropReads(t, call) /\ UNCHANGED <<owner, live, fresh>>
  BY DEF Logout
<1>3. /\ old \in TabState /\ old.renewing = tab[t].renewing
      /\ old.allowed = tab[t].allowed /\ old.cache = {}
  BY <1>1, EmptiedType
<1> HIDE DEF old
<1>4. Restarted(state, t, None, None)
  BY <1>3 DEF Restarted, TabState
<1> HIDE DEF state
<1>5. Becomes(t, state)
  BY <1>2, <1>4, BecomesSignedOut DEF Restarted
<1>6. Longer /\ TokensGood
  BY <1>2, FreeType, Unissued DEF TokensGood, Inductive, TypeOK, SignedOut
<1>7. call' \in [Call -> CallState]
  BY <1>1, <1>2, DroppedType DEF DropReads
<1>8. QED
  BY <1>2, <1>4, <1>5, <1>6, <1>7, Dropping

\* View as ends.
LEMMA StopActingStep ==
  ASSUME Inductive, NEW t \in Tab, StopActing(t)
  PROVE  Inductive'
<1> DEFINE old == Emptied(tab[t])
<1> DEFINE authed == store.pair # 0
<1> DEFINE state == [old EXCEPT !.actAs = None, !.stored = None, !.torn = FALSE,
                                !.authed = authed]
<1>1. /\ tab[t] \in TabState /\ call \in [Call -> CallState] /\ tab[t].authed
      /\ tab[t].real # None
  BY Given DEF Inductive, TypeOK, StopActing, InApp, StateGood
<1>2. /\ tab' = Marked([tab EXCEPT ![t] = state], store', owner')
      /\ call' = DropReads(t, call) /\ UNCHANGED <<store, owner, live, fresh>>
  BY DEF StopActing
<1>3. /\ old \in TabState /\ old.renewing = tab[t].renewing /\ old.real = tab[t].real
      /\ old.allowed = tab[t].allowed /\ old.cache = {}
  BY <1>1, EmptiedType
<1>4. authed \in BOOLEAN
  OBVIOUS
<1> HIDE DEF old, authed
<1>5. Restarted(state, t, tab[t].real, None)
  BY <1>1, <1>3, <1>4 DEF Restarted, TabState
<1> HIDE DEF state
<1>6. Becomes(t, state)
  BY <1>2, <1>5, BecomesMarked DEF Restarted
<1>7. call' \in [Call -> CallState]
  BY <1>1, <1>2, DroppedType DEF DropReads
<1>8. QED
  BY <1>2, <1>5, <1>6, <1>7, QuietTokens, Dropping

\* What issuing a pair of tokens leaves.
LEMMA Issued ==
  ASSUME Inductive, NEW p \in Person, Issue(p)
  PROVE  /\ Longer /\ Len(owner') = Len(owner) + 1 /\ owner'[Len(owner')] = p
         /\ Len(owner) \in Nat /\ Len(owner') \in TokenPair
         /\ live' \subseteq 1 .. Len(owner') /\ fresh \subseteq 1 .. Len(owner')
<1>1. owner \in Seq(Person) /\ owner' = Append(owner, p) /\ Len(owner) < MaxPairs
  BY DEF Inductive, TypeOK, Issue
<1>2. /\ owner' \in Seq(Person) /\ Len(owner') = Len(owner) + 1 /\ Len(owner) \in Nat
      /\ owner'[Len(owner) + 1] = p
      /\ \A n \in 1 .. Len(owner) : owner'[n] = owner[n]
  BY <1>1
<1>3. live' = live \union {Len(owner) + 1} /\ live \subseteq 1 .. Len(owner)
      /\ fresh \subseteq 1 .. Len(owner)
  BY DEF Inductive, TypeOK, Issue
<1>4. QED
  BY <1>1, <1>2, <1>3 DEF Longer, TokenPair

\* Sign-in.
LEMMA LoginDoneStep ==
  ASSUME Inductive, NEW c \in Call, LoginDone(c)
  PROVE  Inductive'
<1> DEFINE t == call[c].tab
<1> DEFINE p == call[c].who
<1> DEFINE st == [pair |-> Len(owner) + 1, user |-> p]
<1> DEFINE old == Emptied(tab[t])
<1> DEFINE state == [old EXCEPT !.real = st.user, !.actAs = None, !.stored = None,
                                !.authed = TRUE, !.torn = FALSE]
<1>1. call[c] \in CallState /\ CallGood(call[c], tab[t], owner) /\ call[c].kind = "login"
  BY Parts DEF LoginDone, Free
<1>2. t \in Tab /\ p \in Person /\ p # None /\ tab[t] \in TabState
  BY <1>1 DEF CallGood, CallSound, Inductive, TypeOK
<1>3. Issue(p) /\ fresh' = fresh \union {Len(owner) + 1} /\ store' = st
  BY DEF LoginDone
<1>4. /\ tab' = Marked([tab EXCEPT ![t] = state], store', owner')
      /\ call' = [DropReads(t, call) EXCEPT ![c] = Free]
  BY DEF LoginDone
<1>5. /\ Longer /\ Len(owner') = Len(owner) + 1 /\ Len(owner) \in Nat
      /\ Len(owner') \in TokenPair
      /\ live' \subseteq 1 .. Len(owner') /\ fresh \subseteq 1 .. Len(owner')
  BY <1>2, <1>3, Issued
<1>6. TokensGood
  BY <1>2, <1>3, <1>5 DEF TokensGood
<1>7. st.user = p
  OBVIOUS
<1>8. /\ old \in TabState /\ old.renewing = tab[t].renewing
      /\ old.allowed = tab[t].allowed /\ old.cache = {}
  BY <1>2, EmptiedType
<1> HIDE DEF old, st
<1>9. Restarted(state, t, p, None)
  BY <1>2, <1>7, <1>8 DEF Restarted, TabState
<1> HIDE DEF state
<1>10. Becomes(t, state)
  BY <1>2, <1>4, <1>9, BecomesMarked DEF Restarted
<1>11. call \in [Call -> CallState]
  BY DEF Inductive, TypeOK
<1>12. call' \in [Call -> CallState] /\ call'[c] = Free
       /\ \A d \in Call \ {c} : call'[d] = DropReads(t, call)[d]
  BY <1>2, <1>4, <1>11, DroppedType, FreeType
<1>13. QED
  BY <1>2, <1>5, <1>6, <1>9, <1>10, <1>12, Dropping

\* The server has confirmed whom the tab acts as.
LEMMA MeAnsweredStep ==
  ASSUME Inductive, NEW c \in Call, Answered(c), call[c].kind = "me"
  PROVE  Inductive'
<1> DEFINE t == call[c].tab
<1> DEFINE as == call[c].as
<1> DEFINE old == Emptied(tab[t])
<1> DEFINE authed == tab[t].real # None /\ store.pair # 0
<1> DEFINE state == [old EXCEPT !.actAs = as, !.stored = as, !.torn = FALSE,
                                !.authed = authed]
<1>1. call[c] \in CallState /\ CallGood(call[c], tab[t], owner)
  BY Parts DEF Free
<1>2. /\ t \in Tab /\ tab[t] \in TabState /\ as \in Acting \union {None}
      /\ as # None /\ as.write => as.user \in tab[t].allowed
  BY <1>1 DEF CallGood, CallState, Inductive, TypeOK
<1>3. /\ tab' = Marked([tab EXCEPT ![t] = state], store', owner')
      /\ call' = [DropReads(t, call) EXCEPT ![c] = Free]
      /\ UNCHANGED <<store, owner, live, fresh>>
  BY DEF Answered, ActingConfirmed
<1>4. /\ old \in TabState /\ old.renewing = tab[t].renewing /\ old.real = tab[t].real
      /\ old.allowed = tab[t].allowed /\ old.cache = {}
  BY <1>2, EmptiedType
<1>5. authed \in BOOLEAN /\ (authed => tab[t].real # None)
  OBVIOUS
<1> HIDE DEF old, authed, as
<1>6. Restarted(state, t, tab[t].real, as)
  BY <1>2, <1>4, <1>5 DEF Restarted, TabState
<1> HIDE DEF state
<1>7. Becomes(t, state)
  BY <1>2, <1>3, <1>6, BecomesMarked DEF Restarted
<1>8. call \in [Call -> CallState]
  BY DEF Inductive, TypeOK
<1>9. call' \in [Call -> CallState] /\ call'[c] = Free
      /\ \A d \in Call \ {c} : call'[d] = DropReads(t, call)[d]
  BY <1>2, <1>3, <1>8, DroppedType, FreeType
<1>10. QED
  BY <1>2, <1>3, <1>6, <1>7, <1>9, QuietTokens, Dropping

-----------------------------------------------------------------------------
(* Steps of View as and of answers.                                         *)

\* A start of View as: the headers change before the server is asked.
LEMMA StartActingStep ==
  ASSUME Inductive, NEW t \in Tab, NEW c \in Call, NEW p \in Person, NEW write \in BOOLEAN,
         StartActing(t, c, p, write)
  PROVE  Inductive'
<1> DEFINE acting == Headers(p, write)
<1> DEFINE allowed == IF write THEN tab[t].allowed \union {p} ELSE tab[t].allowed
<1> DEFINE state == [tab[t] EXCEPT !.stored = acting, !.strayed = TRUE,
                                   !.allowed = IF write THEN @ \union {p} ELSE @]
<1> DEFINE q == [Free EXCEPT !.tab = t, !.kind = "me"]
<1> DEFINE r == Stamped(q, state, store)
<1>1. /\ tab[t] \in TabState /\ StateGood(tab[t], owner, Starting(t))
      /\ store \in [pair : TokenPair, user : Person \union {None}]
      /\ store.pair <= Len(owner)
  BY Given DEF Inductive, TypeOK
<1>2. acting \in Acting /\ acting # None /\ acting.user = p /\ acting.write = write
  BY DEF Headers, Acting
<1>3. /\ allowed \subseteq Person /\ tab[t].allowed \subseteq allowed
      /\ write => p \in allowed
  BY <1>1 DEF TabState
<1>4. /\ tab' = [tab EXCEPT ![t] = state] /\ call' = [call EXCEPT ![c] = r]
      /\ UNCHANGED <<store, owner, live, fresh>> /\ call[c] = Free /\ tab[t].actAs = None
  BY DEF StartActing
<1>5. state = [tab[t] EXCEPT !.stored = acting, !.strayed = TRUE, !.allowed = allowed]
  BY <1>1 DEF TabState
<1> HIDE DEF acting, allowed, state
<1>6. /\ state \in TabState /\ state.real = tab[t].real /\ state.authed = tab[t].authed
      /\ state.stored = acting /\ state.renewing = tab[t].renewing /\ state.strayed = TRUE
      /\ state.allowed = allowed /\ state.actAs = None
  BY <1>1, <1>2, <1>3, <1>4, <1>5 DEF TabState
<1>7. q \in CallState /\ q.tab = t /\ q.kind = "me" /\ q.as = None
  <2>1. Free \in CallState /\ Free.as = None /\ "me" \in Kind
    BY FreeType DEF Free, Kind
  <2>2. QED
    BY <2>1 DEF CallState
<1> HIDE DEF q
<1>8. r \in CallState /\ r.tab = t /\ r.kind = "me"
  BY <1>1, <1>6, <1>7, StampedType
<1>9. Becomes(t, state) /\ Longer /\ TokensGood
  BY <1>4, <1>6, BecomesQuietly, QuietTokens
<1>10. Starting(t)' # {}
  <2>1. call'[c] = r
    BY <1>4, <1>8 DEF Inductive, TypeOK
  <2> HIDE DEF r
  <2>2. QED
    BY <1>8, <2>1 DEF Starting, CallsOf
<1>11. StateGood(state, owner', Starting(t)')
  BY <1>1, <1>2, <1>3, <1>4, <1>6, <1>10 DEF StateGood
<1>12. CallGood(r, state, owner')
  BY <1>1, <1>4, <1>6, <1>7, <1>11, StampedGood
<1>13. CallsKept(t, c, state)
  <2>1. ASSUME NEW d \in Call \ {c}, call[d].tab = t PROVE CallGood(call[d], state, owner')
    <3>1. CallGood(call[d], tab[t], owner)
      BY <2>1, Given
    <3>2. QED
      BY <1>3, <1>4, <1>6, <3>1 DEF CallGood, CallSound
  <2>2. QED
    BY <2>1 DEF CallsKept
<1>14. call[c].tab = None
  BY <1>4 DEF Free
<1> HIDE DEF r
<1>15. QED
  BY <1>4, <1>6, <1>8, <1>9, <1>11, <1>12, <1>13, <1>14, OneCall

\* A request of t that asks nobody who the user is ends, and the tab takes a
\* state no worse for the others.
LEMMA CallEnds ==
  ASSUME Inductive, NEW c \in Call, NEW t \in Tab, call[c].tab = t,
         NEW state \in TabState, tab' = [tab EXCEPT ![t] = state],
         call' = [call EXCEPT ![c] = Free], UNCHANGED <<store, owner, live, fresh>>,
         state.real = tab[t].real, state.actAs = tab[t].actAs,
         state.authed = tab[t].authed, state.renewing = tab[t].renewing,
         state.allowed = tab[t].allowed, tab[t].strayed => state.strayed,
         state.stored # None /\ state.stored.write => state.stored.user \in state.allowed,
         \/ state.stored = None /\ state.strayed /\ (state.actAs # None => state.torn)
         \/ /\ state.stored = tab[t].stored /\ call[c].kind # "me"
            /\ state.torn = tab[t].torn
            /\ state.authed /\ ~state.strayed =>
                 state.cache \subseteq
                   {IF state.actAs # None THEN state.actAs.user ELSE state.real}
  PROVE  Inductive'
<1>1. /\ StateGood(tab[t], owner, Starting(t)) /\ tab[t] \in TabState
      /\ ~tab[t].strayed => ~Foreign(tab[t], store, owner)
  BY Given
<1>2. ~state.strayed => ~Foreign(state, store, owner)
  BY <1>1 DEF Foreign
<1>3. Becomes(t, state) /\ Longer /\ TokensGood
  BY <1>2, BecomesQuietly, QuietTokens
<1>4. CallsKept(t, c, state)
  <2>1. ASSUME NEW d \in Call \ {c}, call[d].tab = t PROVE CallGood(call[d], state, owner')
    <3>1. CallGood(call[d], tab[t], owner)
      BY <2>1, Given
    <3>2. QED
      BY <3>1 DEF CallGood, CallSound
  <2>2. QED
    BY <2>1 DEF CallsKept
<1>5. StateGood(state, owner', Starting(t)')
  <2>1. CASE state.stored = None /\ state.strayed /\ (state.actAs # None => state.torn)
    BY <1>1, <2>1 DEF StateGood
  <2>2. CASE /\ state.stored = tab[t].stored /\ call[c].kind # "me"
             /\ state.torn = tab[t].torn
             /\ state.authed /\ ~state.strayed =>
                  state.cache \subseteq
                    {IF state.actAs # None THEN state.actAs.user ELSE state.real}
    <3>1. call'[c] = Free /\ \A d \in Call \ {c} : call'[d] = call[d]
      BY DEF Inductive, TypeOK
    <3>2. Free.kind # "me"
      BY DEF Free
    <3>3. Starting(t)' = Starting(t)
      BY <2>2, <3>1, <3>2 DEF Starting, CallsOf
    <3>4. QED
      BY <1>1, <2>2, <3>3 DEF StateGood
  <2>3. QED
    BY <2>1, <2>2
<1>6. call' \in [Call -> CallState]
  BY FreeType DEF Inductive, TypeOK
<1>7. ASSUME NEW d \in Call
      PROVE  \/ call'[d] = call[d] /\ call[d].tab # t
             \/ call'[d] = Free /\ call[d].tab \in {t, None}
             \/ /\ call'[d].tab = t /\ call[d].tab \in {t, None}
                /\ CallGood(call'[d], state, owner')
  <2>1. call \in [Call -> CallState]
    BY DEF Inductive, TypeOK
  <2>2. CASE d = c
    BY <2>1, <2>2
  <2>3. CASE d # c
    BY <1>4, <2>1, <2>3 DEF CallsKept
  <2>4. QED
    BY <2>2, <2>3
<1>8. QED
  BY <1>3, <1>5, <1>6, <1>7, StateStep

\* The server answered a read or a write.
LEMMA DataAnsweredStep ==
  ASSUME Inductive, NEW c \in Call, Answered(c), call[c].kind # "me"
  PROVE  Inductive'
<1> DEFINE t == call[c].tab
<1> DEFINE r == call[c]
<1> DEFINE lands == r.kind = "read" /\ ~r.dropped
<1> DEFINE cache == tab[t].cache \union {ReadBy(r)}
<1> DEFINE state == IF lands THEN [tab[t] EXCEPT !.cache = cache] ELSE tab[t]
<1>1. r \in CallState /\ CallGood(r, tab[t], owner) /\ r.pair \in live
  BY Parts DEF Answered, Verdict, Free
<1>2. /\ t \in Tab /\ tab[t] \in TabState /\ StateGood(tab[t], owner, Starting(t))
      /\ ~tab[t].strayed => ~Foreign(tab[t], store, owner)
  BY <1>1, Given DEF CallGood
<1>3. r.pair \in 1 .. Len(owner) /\ owner[r.pair] \in Person /\ r.pair # 0
  BY <1>1 DEF Inductive, TypeOK
<1>4. ReadBy(r) \in Person
  BY <1>1, <1>3 DEF ReadBy, CallState, Acting
<1>5. tab' = [tab EXCEPT ![t] = state]
  BY <1>2 DEF Answered, Inductive, TypeOK
<1>6. call' = [call EXCEPT ![c] = Free] /\ UNCHANGED <<store, owner, live, fresh>>
  BY DEF Answered
<1>7. lands /\ tab[t].authed /\ ~tab[t].strayed =>
        ReadBy(r) = IF tab[t].actAs # None THEN tab[t].actAs.user ELSE tab[t].real
  BY <1>1, <1>3 DEF CallGood, CallSound, ReadBy
<1>8. cache \in SUBSET Person
  BY <1>2, <1>4 DEF TabState
<1>9. /\ state \in TabState /\ state.real = tab[t].real /\ state.actAs = tab[t].actAs
      /\ state.authed = tab[t].authed /\ state.renewing = tab[t].renewing
      /\ state.allowed = tab[t].allowed /\ state.strayed = tab[t].strayed
      /\ state.stored = tab[t].stored /\ state.torn = tab[t].torn
      /\ state.cache = IF lands THEN cache ELSE tab[t].cache
  <2>1. CASE lands
    <3>1. state = [tab[t] EXCEPT !.cache = cache]
      BY <2>1
    <3> HIDE DEF state, cache
    <3>2. QED
      BY <1>2, <1>8, <2>1, <3>1 DEF TabState
  <2>2. CASE ~lands
    BY <1>2, <2>2
  <2>3. QED
    BY <2>1, <2>2
<1> HIDE DEF state
<1>10. state.authed /\ ~state.strayed =>
         state.cache \subseteq {IF state.actAs # None THEN state.actAs.user ELSE state.real}
  BY <1>2, <1>7, <1>9 DEF StateGood
<1>11. state.stored # None /\ state.stored.write => state.stored.user \in state.allowed
  BY <1>2, <1>9 DEF StateGood
<1> HIDE DEF lands, cache
<1>12. QED
  BY <1>2, <1>5, <1>6, <1>9, <1>10, <1>11, CallEnds

\* A request that throws ends; a start of View as takes its headers back.
LEMMA RefusedStep ==
  ASSUME Inductive, NEW c \in Call, Refused(c)
  PROVE  Inductive'
<1> DEFINE t == call[c].tab
<1>1. /\ t \in Tab /\ tab[t] \in TabState /\ StateGood(tab[t], owner, Starting(t))
  BY Parts, Given DEF Refused, Free, CallGood
<1>2. /\ tab' = [tab EXCEPT ![t] = AfterThrow(tab[t], call[c].kind)]
      /\ call' = [call EXCEPT ![c] = Free] /\ UNCHANGED <<store, owner, live, fresh>>
  BY DEF Refused, Inductive, TypeOK
<1>3. CASE call[c].kind = "me"
  <2> DEFINE torn == tab[t].actAs # None
  <2> DEFINE state == [tab[t] EXCEPT !.stored = None, !.strayed = TRUE, !.torn = torn]
  <2>1. tab' = [tab EXCEPT ![t] = state]
    BY <1>2, <1>3 DEF AfterThrow
  <2>4. torn \in BOOLEAN /\ (tab[t].actAs # None => torn)
    OBVIOUS
  <2> HIDE DEF torn
  <2>2. /\ state \in TabState /\ state.real = tab[t].real /\ state.actAs = tab[t].actAs
        /\ state.authed = tab[t].authed /\ state.renewing = tab[t].renewing
        /\ state.allowed = tab[t].allowed /\ state.strayed /\ state.stored = None
        /\ state.actAs # None => state.torn
    BY <1>1, <2>4 DEF TabState
  <2> HIDE DEF state
  <2>3. QED
    BY <1>1, <1>2, <2>1, <2>2, CallEnds
<1>4. CASE call[c].kind # "me"
  <2>1. tab' = [tab EXCEPT ![t] = tab[t]]
    BY <1>2, <1>4 DEF AfterThrow
  <2>2. QED
    BY <1>1, <1>2, <1>4, <2>1, CallEnds DEF StateGood
<1>5. QED
  BY <1>3, <1>4

-----------------------------------------------------------------------------
(* Renewal of the tokens.                                                   *)

\* The renewal is given up: the page is loaded anew or, on the sign-in page, what
\* has thrown ends.
LEMMA AuthFailureStep ==
  ASSUME Inductive, NEW t \in Tab, NEW thrown \in SUBSET CallsOf(t),
         NEW renewing \in TokenPair,
         renewing <= Len(owner), AuthFailure(t, thrown, renewing),
         \A c \in CallsOf(t) \ thrown : call[c].at = "queued" => renewing # 0,
         fresh' \subseteq fresh, UNCHANGED <<owner, live>>
  PROVE  Inductive'
<1>1. /\ tab[t] \in TabState /\ store' = SignedOut /\ call \in [Call -> CallState]
  BY DEF Inductive, TypeOK, AuthFailure
<1>2. Longer /\ TokensGood
  BY <1>1, FreeType, Unissued DEF TokensGood, Inductive, TypeOK, SignedOut
<1>3. CASE tab[t].authed
  <2> DEFINE state == Loaded(SignedOut, None)
  <2>1. /\ tab' = [tab EXCEPT ![t] = state]
        /\ call' = [c \in Call |-> IF call[c].tab = t THEN Free ELSE call[c]]
    BY <1>3 DEF AuthFailure
  <2>2. /\ state \in TabState /\ state.stored = None /\ state.actAs = None
        /\ state.renewing = 0 /\ state.cache = {} /\ ~state.authed
    BY FreeType, LoadedType DEF SignedOut
  <2> HIDE DEF state
  <2>3. Becomes(t, state)
    BY <1>1, <2>1, <2>2, BecomesSignedOut
  <2>4. QED
    BY <1>2, <2>1, <2>2, <2>3, PageLoaded
<1>4. CASE ~tab[t].authed
  <2> DEFINE state == [tab[t] EXCEPT !.stored = None, !.renewing = renewing]
  <2>1. /\ tab' = [tab EXCEPT ![t] = state]
        /\ call' = [c \in Call |-> IF c \in thrown THEN Free ELSE call[c]]
    BY <1>4 DEF AuthFailure, Inductive, TypeOK
  <2>2. /\ state \in TabState /\ state.stored = None /\ ~state.authed
        /\ state.renewing = renewing /\ state.allowed = tab[t].allowed
    BY <1>1, <1>4 DEF TabState
  <2> HIDE DEF state
  <2>3. Becomes(t, state)
    BY <1>1, <2>1, <2>2, BecomesSignedOut
  <2>4. StateGood(state, owner', Starting(t)')
    BY <2>2 DEF StateGood
  <2>5. call' \in [Call -> CallState]
    BY <1>1, <2>1, FreeType
  <2>6. ASSUME NEW c \in Call
        PROVE  \/ call'[c] = call[c] /\ call[c].tab # t
               \/ call'[c] = Free /\ call[c].tab \in {t, None}
               \/ /\ call'[c].tab = t /\ call[c].tab \in {t, None}
                  /\ CallGood(call'[c], state, owner')
    <3>1. CASE c \in thrown
      BY <2>1, <3>1 DEF CallsOf
    <3>2. CASE c \notin thrown /\ call[c].tab = t
      <4>1. CallGood(call[c], tab[t], owner) /\ call'[c] = call[c] /\ c \in CallsOf(t)
        BY <2>1, <3>2, Given DEF CallsOf
      <4>2. CallGood(call[c], state, owner')
        BY <2>2, <3>2, <4>1 DEF CallGood, CallSound
      <4>3. QED
        BY <3>2, <4>1, <4>2
    <3>3. CASE c \notin thrown /\ call[c].tab # t
      BY <2>1, <3>3
    <3>4. QED
      BY <3>1, <3>2, <3>3
  <2>7. QED
    BY <1>2, <2>2, <2>3, <2>4, <2>5, <2>6, StateStep
<1>5. QED
  BY <1>3, <1>4

\* A first 401.
LEMMA ExpiredStep ==
  ASSUME Inductive, NEW c \in Call, Expired(c)
  PROVE  Inductive'
<1>0. PICK t \in Tab : t = call[c].tab
  BY Parts DEF Expired, Free, CallGood
<1> DEFINE n == IF tab[t].renewing = 0 THEN store.pair ELSE tab[t].renewing
<1> DEFINE state == [tab[t] EXCEPT !.renewing = n]
<1> DEFINE r == [call[c] EXCEPT !.retried = TRUE, !.at = "queued"]
<1>1. call[c] \in CallState /\ CallGood(call[c], tab[t], owner) /\ call[c].kind # "login"
  BY <1>0, Parts DEF Expired, Free
<1>2. /\ tab[t] \in TabState /\ StateGood(tab[t], owner, Starting(t))
      /\ ~tab[t].strayed => ~Foreign(tab[t], store, owner)
      /\ \A d \in Call : call[d].tab = t => CallGood(call[d], tab[t], owner)
  BY <1>0, Given
<1>3. /\ store \in [pair : TokenPair, user : Person \union {None}]
      /\ store.pair <= Len(owner) /\ call \in [Call -> CallState] /\ tab \in [Tab -> TabState]
  BY DEF Inductive, TypeOK
<1>4. tab[t].renewing \in TokenPair /\ tab[t].renewing <= Len(owner)
  BY <1>2 DEF TabState, StateGood
<1>5. CASE store.pair = 0
  <2>1. AuthFailure(t, {c}, tab[t].renewing) /\ UNCHANGED <<owner, live, fresh>>
    BY <1>0, <1>5 DEF Expired
  <2>2. \A d \in CallsOf(t) \ {c} : call[d].at = "queued" => tab[t].renewing # 0
    BY <1>2 DEF CallsOf, CallGood
  <2>3. {c} \in SUBSET CallsOf(t)
    BY <1>0 DEF CallsOf
  <2>4. QED
    BY <1>2, <1>4, <2>1, <2>2, <2>3, AuthFailureStep
<1>6. CASE store.pair # 0
  <2>1. /\ tab' = [tab EXCEPT ![t] = state] /\ call' = [call EXCEPT ![c] = r]
        /\ UNCHANGED <<store, owner, live, fresh>>
    BY <1>0, <1>3, <1>6 DEF Expired
  <2>2. n \in TokenPair /\ n # 0 /\ n <= Len(owner)
    BY <1>3, <1>4, <1>6
  <2> HIDE DEF n
  <2>3. /\ state \in TabState /\ state.real = tab[t].real /\ state.actAs = tab[t].actAs
        /\ state.stored = tab[t].stored /\ state.authed = tab[t].authed
        /\ state.cache = tab[t].cache /\ state.strayed = tab[t].strayed
        /\ state.allowed = tab[t].allowed /\ state.renewing = n
        /\ state.torn = tab[t].torn
    BY <1>2, <2>2 DEF TabState
  <2>4. /\ r \in CallState /\ r.tab = t /\ r.kind = call[c].kind /\ r.at = "queued"
        /\ r.pair = call[c].pair /\ r.as = call[c].as /\ r.dropped = call[c].dropped
        /\ r.who = call[c].who
    BY <1>0, <1>1 DEF CallState
  <2> HIDE DEF state, r
  <2>5. ~state.strayed => ~Foreign(state, store, owner)
    BY <1>2, <2>3 DEF Foreign
  <2>6. Becomes(t, state) /\ Longer /\ TokensGood
    BY <1>2, <2>1, <2>3, <2>5, BecomesQuietly, QuietTokens
  <2>7. CallGood(r, state, owner')
    BY <1>0, <1>1, <2>1, <2>2, <2>3, <2>4 DEF CallGood, CallSound
  <2>8. CallsKept(t, c, state)
    <3>1. ASSUME NEW d \in Call \ {c}, call[d].tab = t PROVE CallGood(call[d], state, owner')
      <4>1. CallGood(call[d], tab[t], owner)
        BY <1>2, <3>1
      <4>2. QED
        BY <2>1, <2>2, <2>3, <4>1 DEF CallGood, CallSound
    <3>2. QED
      BY <3>1 DEF CallsKept
  <2>9. Starting(t)' = Starting(t)
    <3>1. call'[c] = r /\ \A d \in Call \ {c} : call'[d] = call[d]
      BY <1>3, <2>1
    <3>2. QED
      BY <1>0, <2>4, <3>1 DEF Starting, CallsOf
  <2>10. StateGood(state, owner', Starting(t)')
    BY <1>2, <2>1, <2>2, <2>3, <2>9 DEF StateGood
  <2>11. QED
    BY <1>0, <2>1, <2>3, <2>4, <2>6, <2>7, <2>8, <2>10, OneCall
<1>7. QED
  BY <1>5, <1>6

\* The tokens were renewed: what waited is sent again with the new ones.
LEMMA RenewedStep ==
  ASSUME Inductive, NEW t \in Tab, Renewed(t)
  PROVE  Inductive'
<1> DEFINE n == tab[t].renewing
<1> DEFINE st == [store EXCEPT !.pair = Len(owner) + 1]
<1> DEFINE state == [tab[t] EXCEPT !.renewing = 0]
<1> DEFINE new == tab'[t]
<1>1. /\ tab[t] \in TabState /\ StateGood(tab[t], owner, Starting(t))
      /\ \A c \in Call : call[c].tab = t => CallGood(call[c], tab[t], owner)
  BY Given
<1>2. /\ n \in fresh /\ n \in 1 .. Len(owner) /\ owner[n] \in Person
      /\ store \in [pair : TokenPair, user : Person \union {None}]
      /\ call \in [Call -> CallState]
  BY DEF Renewed, Inductive, TypeOK
<1>3. /\ Issue(owner[n]) /\ fresh' = (fresh \ {n}) \union {Len(owner) + 1} /\ store' = st
      /\ tab' = Marked([tab EXCEPT ![t] = state], store', owner')
      /\ call' = [c \in Call |-> IF c \in Queued(t) THEN Stamped(call[c], tab[t], st)
                                                    ELSE call[c]]
  BY DEF Renewed, Inductive, TypeOK
<1>4. /\ Longer /\ Len(owner') = Len(owner) + 1 /\ Len(owner) \in Nat
      /\ Len(owner') \in TokenPair
      /\ live' \subseteq 1 .. Len(owner') /\ fresh \subseteq 1 .. Len(owner')
  BY <1>2, <1>3, Issued
<1> HIDE DEF n
<1>5. /\ st \in [pair : TokenPair, user : Person \union {None}] /\ st.pair = Len(owner')
  BY <1>2, <1>4
<1> HIDE DEF st
<1>6. TokensGood
  BY <1>3, <1>4, <1>5 DEF TokensGood
<1>7. /\ state \in TabState /\ state.real = tab[t].real /\ state.actAs = tab[t].actAs
      /\ state.stored = tab[t].stored /\ state.authed = tab[t].authed
      /\ state.cache = tab[t].cache /\ state.strayed = tab[t].strayed
      /\ state.allowed = tab[t].allowed /\ state.renewing = 0
      /\ state.torn = tab[t].torn
  BY <1>1 DEF TabState, TokenPair
<1> HIDE DEF state
<1>8. Becomes(t, state)
  BY <1>3, <1>7, BecomesMarked
<1>9. /\ new \in TabState /\ new.real = tab[t].real /\ new.actAs = tab[t].actAs
      /\ new.stored = tab[t].stored /\ new.authed = tab[t].authed
      /\ new.cache = tab[t].cache /\ new.allowed = tab[t].allowed /\ new.renewing = 0
      /\ new.torn = tab[t].torn
      /\ ~new.strayed => ~tab[t].strayed /\ ~Foreign(new, st, owner')
  BY <1>3, <1>7, <1>8 DEF Becomes, Aside, Foreign
<1> HIDE DEF new
<1>10. Becomes(t, new)
  BY <1>3, <1>8, <1>9 DEF Becomes, Aside, Foreign, new
<1>11. Starting(t)' = Starting(t)
  <2>1. ASSUME NEW c \in Call
        PROVE  call'[c].tab = call[c].tab /\ call'[c].kind = call[c].kind
    BY <1>1, <1>2, <1>3, <1>5, StampedType
  <2>2. QED
    BY <2>1 DEF Starting, CallsOf
<1>12. StateGood(new, owner', Starting(t)')
  BY <1>1, <1>4, <1>9, <1>11 DEF StateGood
<1>13. ASSUME NEW c \in Call
       PROVE  /\ call'[c] \in CallState
              /\ \/ call'[c] = call[c] /\ call[c].tab # t
                 \/ call'[c] = Free /\ call[c].tab \in {t, None}
                 \/ /\ call'[c].tab = t /\ call[c].tab \in {t, None}
                    /\ CallGood(call'[c], new, owner')
  <2>1. CASE call[c].tab # t
    BY <1>2, <1>3, <2>1 DEF Queued, CallsOf
  <2>2. CASE call[c].tab = t /\ call[c].at # "queued"
    <3>1. CallGood(call[c], tab[t], owner) /\ call'[c] = call[c] /\ call[c] \in CallState
      BY <1>1, <1>2, <1>3, <2>2 DEF Queued
    <3>2. /\ call[c].pair \in Nat /\ call[c].pair <= Len(owner)
          /\ call[c].pair # 0 => owner'[call[c].pair] = owner[call[c].pair]
      BY <1>4, <3>1 DEF CallState, TokenPair, CallGood, Longer
    <3>3. CallSound(call[c], new, owner')
      BY <1>9, <3>1, <3>2 DEF CallGood, CallSound
    <3>4. CallGood(call[c], new, owner')
      BY <1>4, <1>9, <2>2, <3>1, <3>2, <3>3 DEF CallGood
    <3>5. QED
      BY <2>2, <3>1, <3>4
  <2>3. CASE call[c].tab = t /\ call[c].at = "queued"
    <3>1. CallGood(call[c], tab[t], owner) /\ call[c] \in CallState /\ call[c].tab \in Tab
      BY <1>1, <1>2, <2>3
    <3>2. call'[c] = Stamped(call[c], tab[t], st)
      BY <1>3, <2>3 DEF Queued, CallsOf
    <3>3. Stamped(call[c], new, st) = Stamped(call[c], tab[t], st)
      BY <1>9 DEF Stamped
    <3>4. /\ call'[c] \in CallState /\ call'[c].tab = t
      BY <1>1, <1>5, <2>3, <3>1, <3>2, StampedType
    <3>5. call[c].kind # "login"
      BY <2>3, <3>1 DEF CallGood, CallSound
    <3>6. call[c].as # None /\ call[c].as.write => call[c].as.user \in new.allowed
      BY <1>9, <3>1 DEF CallGood
    <3>7. ~call[c].dropped /\ new.authed /\ ~new.strayed /\ call[c].kind = "read"
            /\ call[c].as # None =>
            new.actAs # None /\ new.actAs.user = call[c].as.user
      BY <1>9, <3>1 DEF CallGood, CallSound
    <3>8. CallGood(Stamped(call[c], new, st), new, owner')
      BY <1>4, <1>5, <1>9, <1>12, <3>1, <3>5, <3>6, <3>7, StampedGood
    <3>9. QED
      BY <2>3, <3>2, <3>3, <3>4, <3>8
  <2>4. QED
    BY <2>1, <2>2, <2>3
<1>14. call' \in [Call -> CallState]
  BY <1>3, <1>13
<1>15. QED
  BY <1>4, <1>6, <1>9, <1>10, <1>12, <1>13, <1>14, StateStep

\* The renewal failed.
LEMMA NotRenewedStep ==
  ASSUME Inductive, NEW t \in Tab, NotRenewed(t)
  PROVE  Inductive'
<1>1. AuthFailure(t, Queued(t), 0) /\ fresh' \subseteq fresh /\ UNCHANGED <<owner, live>>
  BY DEF NotRenewed
<1>2. Queued(t) \in SUBSET CallsOf(t)
      /\ \A c \in CallsOf(t) \ Queued(t) : call[c].at = "queued" => 0 # 0
  BY DEF Queued
<1>3. 0 \in TokenPair /\ 0 <= Len(owner)
  BY DEF TokenPair, Inductive, TypeOK
<1>4. QED
  BY <1>1, <1>2, <1>3, AuthFailureStep

\* An access token runs out.
LEMMA ExpireStep ==
  ASSUME Inductive, UNCHANGED <<store, owner, fresh, tab, call>>, live' \subseteq live
  PROVE  Inductive'
<1>1. TypeOK'
  BY DEF Inductive, TypeOK
<1>2. \A t \in Tab : Starting(t)' = Starting(t)
  BY DEF Starting, CallsOf
<1>3. \A t \in Tab : TabGood(tab'[t], store', owner', Starting(t)')
  BY <1>2, Parts
<1>4. \A c \in Call : call'[c] = Free \/ CallGood(call'[c], tab'[call'[c].tab], owner')
  BY Parts
<1>5. QED
  BY <1>1, <1>3, <1>4, PartsNext

-----------------------------------------------------------------------------
(* The invariant and what it gives.                                         *)

\* It holds when the browser starts.
LEMMA InitInductive == Init => Inductive
<1> SUFFICES ASSUME Init PROVE Inductive
  OBVIOUS
<1> DEFINE page == Loaded(SignedOut, None)
<1>1. /\ page \in TabState /\ page.real = None /\ page.actAs = None /\ page.stored = None
      /\ page.renewing = 0 /\ page.cache = {} /\ ~page.authed
  BY FreeType, LoadedType DEF SignedOut
<1> HIDE DEF page
<1>2. /\ tab = [t \in Tab |-> page] /\ call = [c \in Call |-> Free] /\ store = SignedOut
      /\ owner = <<>> /\ live = {} /\ fresh = {}
  BY DEF Init, page
<1>3. SignedOut.pair = 0 /\ Free.at = "free" /\ Free.pair = 0 /\ Free.as = None
  BY DEF SignedOut, Free
<1>4. Len(owner) = 0 /\ owner \in Seq(Person)
  BY <1>2
<1>5. TypeOK
  BY <1>1, <1>2, <1>3, <1>4, FreeType DEF TypeOK
<1>6. NoneWaitsInVain /\ HeadersAreBannered /\ WritesWereAllowed /\ CacheIsOwnUnlessStrayed
  BY <1>1, <1>2, <1>3 DEF NoneWaitsInVain, HeadersAreBannered, WritesWereAllowed,
                          CacheIsOwnUnlessStrayed, CallsOf
<1>7. \A t \in Tab : TabSound(tab[t], store, owner)
  BY <1>1, <1>2, <1>3 DEF TabSound, Foreign
<1>8. QED
  BY <1>2, <1>3, <1>5, <1>6, <1>7 DEF Inductive

\* And every step of every tab and of the server keeps it.
LEMMA NextInductive == Inductive /\ [Next]_vars => Inductive'
<1> SUFFICES ASSUME Inductive, [Next]_vars PROVE Inductive'
  OBVIOUS
<1>1. CASE \E t \in Tab, c \in Call, p \in Person :
             \/ BeginLogin(t, c, p)
             \/ \E write \in BOOLEAN : StartActing(t, c, p, write)
  BY <1>1, BeginLoginStep, StartActingStep
<1>2. CASE \E t \in Tab : \/ Logout(t) \/ Reload(t) \/ Reopen(t) \/ SaveProfile(t)
                         \/ StopActing(t)
  BY <1>2, LogoutStep, ReloadStep, ReopenStep, SaveProfileStep, StopActingStep
<1>3. CASE \E t \in Tab : Renewal(t)
  BY <1>3, RenewedStep, NotRenewedStep DEF Renewal
<1>4. CASE \E t \in Tab : \/ \E write \in BOOLEAN : SetCanWrite(t, write)
                         \/ \E c \in Call, kind \in {"read", "write"} : Send(t, c, kind)
  BY <1>4, SetCanWriteStep, SendStep
<1>5. CASE \E c \in Call : LoginDone(c) \/ Refused(c) \/ Expired(c)
  BY <1>5, LoginDoneStep, RefusedStep, ExpiredStep
<1>6. CASE \E c \in Call : Answered(c)
  BY <1>6, MeAnsweredStep, DataAnsweredStep
<1>7. CASE \E n \in live : Expire(n)
  <2>1. UNCHANGED <<store, owner, fresh, tab, call>> /\ live' \subseteq live
    BY <1>7 DEF Expire
  <2>2. QED
    BY <2>1, ExpireStep
<1>8. CASE UNCHANGED vars
  <2>1. UNCHANGED <<store, owner, fresh, tab, call>> /\ live' \subseteq live
    BY <1>8 DEF vars
  <2>2. QED
    BY <2>1, ExpireStep
<1>9. QED
  BY <1>1, <1>2, <1>3, <1>4, <1>5, <1>6, <1>7, <1>8 DEF Next, Answer

\* Inductive is an invariant: in a tab that has not strayed the tokens, the
\* headers, the banner and the requests in flight all speak of one user, and
\* every parked request has the renewal it is parked for.
THEOREM InductiveHolds == Spec => []Inductive
<1>1. Init => Inductive
  BY InitInductive
<1>2. Inductive /\ [Next]_vars => Inductive'
  BY NextInductive
<1>3. QED
  BY <1>1, <1>2, PTL DEF Spec

\* No request is left in pendingQueue by a renewal that has ended, however the
\* sign-outs, sign-ins and reloads of any number of tabs fall around it.
THEOREM NoneLeftWaiting == Spec => []NoneWaitsInVain
<1>1. Inductive => NoneWaitsInVain
  BY DEF Inductive
<1>2. QED
  BY <1>1, InductiveHolds, PTL

\* Once no start of View as is pending, the banner names whom the headers name,
\* with the same right to change things; and whom the banner names the headers
\* name, pending or not, unless a start failed under the banner of another.
THEOREM BannerTellsTheTruth == Spec => []HeadersAreBannered
<1>1. Inductive => HeadersAreBannered
  BY DEF Inductive
<1>2. QED
  BY <1>1, InductiveHolds, PTL

\* No request carries the permission to change things as a user for whom it was
\* never given in that tab.
THEOREM PermissionWasGiven == Spec => []WritesWereAllowed
<1>1. Inductive => WritesWereAllowed
  BY DEF Inductive
<1>2. QED
  BY <1>1, InductiveHolds, PTL

\* The query cache of a tab that has not strayed holds what was read as the user
\* it shows, whatever answers arrive late.
THEOREM ScreensShowTheirOwn == Spec => []CacheIsOwnUnlessStrayed
<1>1. Inductive => CacheIsOwnUnlessStrayed
  BY DEF Inductive
<1>2. QED
  BY <1>1, InductiveHolds, PTL
=============================================================================
