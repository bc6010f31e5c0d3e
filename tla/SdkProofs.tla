------------------------------ MODULE SdkProofs ------------------------------
(* The safety properties of the SDK's hooks, and of a page and the server  *)
(* together, for any number of hooks, users, calls and operations.         *)
EXTENDS EndToEnd, TLAPS

USE ClientAssumption, PollAssumption DEF ClientAssumption, PollAssumption

CallRecord == [fn : Functions, hook : LoginHooks \cup {NoHook},
               at : Points, user : Users \cup {NoUser}]

(* What a step of call c leaves it awaiting; the other calls stay.         *)
Moves(c, fn, hook, at, user) ==
    /\ calls' \in [Calls -> CallRecord]
    /\ calls'[c].fn = fn /\ calls'[c].hook = hook
    /\ calls'[c].at = at /\ calls'[c].user = user
    /\ \A d \in Calls \ {c} : calls'[d] = calls[d]

LEMMA CallStep ==
    ASSUME ClientTypeOK, NEW c \in Calls,
           NEW fn \in Functions, NEW hook \in LoginHooks \cup {NoHook},
           NEW at \in Points, NEW user \in Users \cup {NoUser},
           calls' = [calls EXCEPT ![c] = Call(fn, hook, at, user)]
    PROVE  Moves(c, fn, hook, at, user)
<1>1. Call(fn, hook, at, user) \in CallRecord
  BY DEF Call, CallRecord
<1>2. calls \in [Calls -> CallRecord]
  BY DEF ClientTypeOK, CallRecord
<1>3. calls' \in [Calls -> CallRecord] /\ calls'[c] = Call(fn, hook, at, user)
  BY <1>1, <1>2
<1>4. \A d \in Calls \ {c} : calls'[d] = calls[d]
  BY <1>2
<1> QED BY <1>3, <1>4 DEF Call, Moves

LEMMA StartMoves ==
    ASSUME ClientTypeOK, NEW c \in Calls,
           NEW fn \in Functions, NEW hook \in LoginHooks \cup {NoHook},
           NEW at \in Points, NEW user \in Users \cup {NoUser},
           Start(c, Call(fn, hook, at, user))
    PROVE  calls[c].at = "idle" /\ Moves(c, fn, hook, at, user)
BY CallStep DEF Start

LEMMA AwaitMoves ==
    ASSUME ClientTypeOK, NEW c \in Calls,
           NEW at \in Points, NEW user \in Users \cup {NoUser},
           Await(c, at, user)
    PROVE  Moves(c, calls[c].fn, calls[c].hook, at, user)
<1> DEFINE fn == calls[c].fn
           hook == calls[c].hook
<1>1. fn \in Functions /\ hook \in LoginHooks \cup {NoHook}
  BY DEF ClientTypeOK
<1>2. calls' = [calls EXCEPT ![c] = Call(fn, hook, at, user)]
  BY DEF Await
<1>3. Moves(c, fn, hook, at, user)
  <2> HIDE DEF fn, hook
  <2> QED BY <1>1, <1>2, CallStep
<1> QED BY <1>3

LEMMA ReturnMoves ==
    ASSUME ClientTypeOK, NEW c \in Calls, Return(c)
    PROVE  Moves(c, calls[c].fn, calls[c].hook, "returned", NoUser)
BY AwaitMoves DEF Return, Points

(* What CallsConsistent asks of a call. *)
Sound(fn, hook, at, user) ==
    /\ at \in {"accounts", "nonce", "sign"} => hook \in WalletHooks
    /\ at = "login" => hook \in LoginHooks
    /\ at \in {"nonce", "sign", "login"} => user \in Users
    /\ at \in {"build", "post", "sleep", "poll"}
         <=> at \notin {"idle", "returned"} /\ fn = "send"

LEMMA MoveKeeps ==
    ASSUME ClientTypeOK, CallsConsistent, NEW c \in Calls,
           NEW fn, NEW hook, NEW at, NEW user, Moves(c, fn, hook, at, user),
           Sound(fn, hook, at, user), token' \in Users \cup {NoUser}
    PROVE  ClientTypeOK' /\ CallsConsistent'
<1>1. ClientTypeOK'
  BY DEF ClientTypeOK, Moves, CallRecord
<1>2. ASSUME NEW d \in Calls
      PROVE  Sound(calls'[d].fn, calls'[d].hook, calls'[d].at, calls'[d].user)
  <2>1. CASE d = c
    BY <2>1 DEF Moves
  <2>2. CASE d # c
    <3>1. calls'[d] = calls[d]
      BY <2>2 DEF Moves
    <3> QED BY <3>1 DEF CallsConsistent, Sound, Live
  <2> QED BY <2>1, <2>2
<1> QED BY <1>1, <1>2 DEF CallsConsistent, Sound, Live

LEMMA StayKeeps ==
    ASSUME ClientTypeOK, CallsConsistent, UNCHANGED calls,
           token' \in Users \cup {NoUser}
    PROVE  ClientTypeOK' /\ CallsConsistent'
BY DEF ClientTypeOK, CallsConsistent, Live

(* What is under way stays so, unless it is call c itself. *)
LEMMA Underway ==
    ASSUME NEW c \in Calls, NEW fn, NEW hook, NEW at, NEW user,
           Moves(c, fn, hook, at, user)
    PROVE  /\ at = "login" => LoginUnderway(hook)'
           /\ at \in {"compute", "register", "request"} /\ fn # "computeKernelAddress"
                => FetchUnderway(ResourceOf(fn))'
           /\ fn = "send" /\ at \notin {"idle", "returned"} => SendUnderway'
           /\ \A h : LoginUnderway(h) /\ ~(calls[c].at = "login" /\ calls[c].hook = h)
                => LoginUnderway(h)'
           /\ \A r : FetchUnderway(r)
                     /\ ~(/\ calls[c].at \in {"compute", "register", "request"}
                          /\ ResourceOf(calls[c].fn) = r)
                => FetchUnderway(r)'
           /\ SendUnderway /\ ~(Live(c) /\ calls[c].fn = "send") => SendUnderway'
<1>1. at = "login" => LoginUnderway(hook)'
  BY DEF Moves, LoginUnderway
<1>2. at \in {"compute", "register", "request"} /\ fn # "computeKernelAddress"
        => FetchUnderway(ResourceOf(fn))'
  BY DEF Moves, FetchUnderway, ResourceOf
<1>3. fn = "send" /\ at \notin {"idle", "returned"} => SendUnderway'
  BY DEF Moves, SendUnderway, Live
<1>4. ASSUME NEW h, LoginUnderway(h), ~(calls[c].at = "login" /\ calls[c].hook = h)
      PROVE  LoginUnderway(h)'
  <2>1. PICK d \in Calls : calls[d].at = "login" /\ calls[d].hook = h
    BY <1>4 DEF LoginUnderway
  <2>2. calls'[d] = calls[d]
    BY <1>4, <2>1 DEF Moves
  <2> QED BY <2>1, <2>2 DEF LoginUnderway
<1>5. ASSUME NEW r, FetchUnderway(r),
             ~(/\ calls[c].at \in {"compute", "register", "request"}
               /\ ResourceOf(calls[c].fn) = r)
      PROVE  FetchUnderway(r)'
  <2>1. PICK d \in Calls : /\ calls[d].at \in {"compute", "register", "request"}
                           /\ calls[d].fn # "computeKernelAddress"
                           /\ ResourceOf(calls[d].fn) = r
    BY <1>5 DEF FetchUnderway
  <2>2. calls'[d] = calls[d]
    BY <1>5, <2>1 DEF Moves
  <2> QED BY <2>1, <2>2 DEF FetchUnderway, ResourceOf
<1>6. ASSUME SendUnderway, ~(Live(c) /\ calls[c].fn = "send")
      PROVE  SendUnderway'
  <2>1. PICK d \in Calls : Live(d) /\ calls[d].fn = "send"
    BY <1>6 DEF SendUnderway
  <2>2. calls'[d] = calls[d]
    BY <1>6, <2>1 DEF Moves
  <2> QED BY <2>1, <2>2 DEF SendUnderway, Live
<1> QED BY <1>1, <1>2, <1>3, <1>4, <1>5, <1>6

LEMMA StayUnderway ==
    ASSUME UNCHANGED calls
    PROVE  /\ \A h : LoginUnderway(h) => LoginUnderway(h)'
           /\ \A r : FetchUnderway(r) => FetchUnderway(r)'
           /\ SendUnderway => SendUnderway'
BY DEF LoginUnderway, FetchUnderway, SendUnderway, ResourceOf, Live

(* A hook that takes no part in a step has its calls still under way. *)
LEMMA LoginKept ==
    ASSUME LoginSettled, UNCHANGED loginVars, NEW c \in Calls,
           NEW fn, NEW hook, NEW at, NEW user, Moves(c, fn, hook, at, user),
           calls[c].at # "login"
    PROVE  LoginSettled'
BY Underway DEF LoginSettled, loginVars

LEMMA FetchKept ==
    ASSUME FetchSettled, UNCHANGED resourceVars, NEW c \in Calls,
           NEW fn, NEW hook, NEW at, NEW user, Moves(c, fn, hook, at, user),
           calls[c].at \notin {"compute", "register", "request"}
    PROVE  FetchSettled'
BY Underway DEF FetchSettled, resourceVars

LEMMA SendKept ==
    ASSUME SendSettled, UNCHANGED sendVars, NEW c \in Calls,
           NEW fn, NEW hook, NEW at, NEW user, Moves(c, fn, hook, at, user),
           ~(Live(c) /\ calls[c].fn = "send")
    PROVE  SendSettled'
BY Underway DEF SendSettled, sendVars

LEMMA OthersTyped ==
    /\ LoginTypeOK /\ UNCHANGED loginVars => LoginTypeOK'
    /\ ResourceTypeOK /\ UNCHANGED resourceVars => ResourceTypeOK'
    /\ SendTypeOK /\ UNCHANGED sendVars => SendTypeOK'
    /\ OwnedIsThere /\ UNCHANGED sendVars => OwnedIsThere'
<1>1. LoginTypeOK /\ UNCHANGED loginVars => LoginTypeOK'
  BY DEF LoginTypeOK, loginVars
<1>2. ResourceTypeOK /\ UNCHANGED resourceVars => ResourceTypeOK'
  BY DEF ResourceTypeOK, resourceVars
<1>3. SendTypeOK /\ UNCHANGED sendVars => SendTypeOK'
  BY DEF SendTypeOK, sendVars
<1>4. OwnedIsThere /\ UNCHANGED sendVars => OwnedIsThere'
  BY DEF OwnedIsThere, sendVars
<1> QED BY <1>1, <1>2, <1>3, <1>4

LEMMA TimeKept ==
    ASSUME TimeIsLeft, UNCHANGED elapsed, NEW c \in Calls,
           NEW fn, NEW hook, NEW at, NEW user, Moves(c, fn, hook, at, user),
           at \notin {"idle", "build", "post", "sleep"}
    PROVE  TimeIsLeft'
<1> SUFFICES ASSUME NEW d \in Calls
    PROVE  /\ calls'[d].at \in {"idle", "build", "post"} => elapsed[d] = 0
           /\ calls'[d].at = "sleep" => elapsed[d] < PollBudget
  BY DEF TimeIsLeft
<1>1. CASE d = c
  BY <1>1 DEF Moves
<1>2. CASE d # c
  BY <1>2 DEF Moves, TimeIsLeft
<1> QED BY <1>1, <1>2

-----------------------------------------------------------------------------
(* Steps of the login hooks                                                *)

(* A step that moves call c of a login hook, or begins it. *)
LEMMA LoginMove ==
    ASSUME IInv, UNCHANGED <<resourceVars, sendVars>>, NEW c \in Calls,
           NEW fn, NEW hook, NEW at, NEW user, Moves(c, fn, hook, at, user),
           Sound(fn, hook, at, user),
           calls[c].at \in {"idle", "accounts", "nonce", "sign", "login"},
           at \notin {"idle", "build", "post", "sleep"},
           token' \in Users \cup {NoUser}, LoginTypeOK', LoginSettled'
    PROVE  IInv'
<1>1. ClientTypeOK' /\ CallsConsistent'
  BY MoveKeeps DEF IInv, SdkTypeOK
<1>2. FetchSettled'
  BY FetchKept DEF IInv, NothingLeftHanging
<1>3. ~(Live(c) /\ calls[c].fn = "send")
  BY DEF IInv, CallsConsistent
<1>4. SendSettled'
  BY <1>3, SendKept DEF IInv, NothingLeftHanging
<1>5. TimeIsLeft'
  BY TimeKept DEF IInv, sendVars
<1> QED BY <1>1, <1>2, <1>4, <1>5, OthersTyped DEF IInv, SdkTypeOK, NothingLeftHanging

(* A step that concerns no call. *)
LEMMA LoginStay ==
    ASSUME IInv, UNCHANGED <<calls, resourceVars, sendVars>>,
           token' \in Users \cup {NoUser}, LoginTypeOK', LoginSettled'
    PROVE  IInv'
<1>1. ClientTypeOK' /\ CallsConsistent'
  BY StayKeeps DEF IInv, SdkTypeOK
<1>2. FetchSettled' /\ SendSettled'
  BY StayUnderway
  DEF IInv, NothingLeftHanging, FetchSettled, SendSettled, resourceVars, sendVars
<1>3. TimeIsLeft'
  BY DEF IInv, TimeIsLeft, sendVars
<1> QED BY <1>1, <1>2, <1>3, OthersTyped DEF IInv, SdkTypeOK, NothingLeftHanging

LEMMA LoginStep ==
    ASSUME IInv, LoginNext, UNCHANGED <<resourceVars, sendVars>>
    PROVE  IInv'
<1> USE DEF IInv, SdkTypeOK
<1>0. /\ token \in Users \cup {NoUser}
      /\ \A c \in Calls : /\ calls[c].fn \in Functions
                           /\ calls[c].user \in Users \cup {NoUser}
                           /\ calls[c].hook \in LoginHooks \cup {NoHook}
  BY DEF ClientTypeOK
<1>1. ASSUME NEW h \in LoginHooks \ WalletHooks, logout(h) PROVE IInv'
  <2>1. LoginTypeOK'
    BY <1>1 DEF logout, LoginTypeOK, Error
  <2>2. LoginSettled'
    BY <1>1, StayUnderway DEF logout, LoginSettled, NothingLeftHanging, LoginTypeOK
  <2> QED BY <1>1, <2>1, <2>2, LoginStay DEF logout
<1>2. ASSUME NEW h \in LoginHooks \ WalletHooks, NEW c \in Calls, NEW user \in Users,
             login(c, h, user)
      PROVE  IInv'
  <2>1. calls[c].at = "idle" /\ Moves(c, "login", h, "login", user)
    BY <1>2, StartMoves DEF login, Functions, Points
  <2>2. LoginTypeOK'
    BY <1>2 DEF login, BeginLogin, LoginTypeOK, Error
  <2>3. LoginSettled'
    BY <1>2, <2>1, Underway DEF login, BeginLogin, LoginSettled, NothingLeftHanging, LoginTypeOK
  <2> QED BY <1>0, <1>2, <2>1, <2>2, <2>3, LoginMove DEF login, Sound
<1>3. ASSUME NEW w \in WalletHooks, NoWallet(w) PROVE IInv'
  <2>1. LoginTypeOK'
    BY <1>3 DEF NoWallet, LoginTypeOK, Error
  <2>2. LoginSettled'
    BY <1>3, StayUnderway DEF NoWallet, LoginSettled, NothingLeftHanging
  <2> QED BY <1>0, <1>3, <2>1, <2>2, LoginStay DEF NoWallet
<1>4. ASSUME NEW w \in WalletHooks, NEW c \in Calls, connect(c, w) PROVE IInv'
  <2>1. calls[c].at = "idle" /\ Moves(c, "connect", w, "accounts", NoUser)
    BY <1>4, StartMoves DEF connect, Functions, Points
  <2>2. LoginTypeOK'
    BY <1>4 DEF connect, LoginTypeOK, Error
  <2>3. LoginSettled'
    BY <1>4, <2>1, Underway DEF connect, LoginSettled, NothingLeftHanging
  <2> QED BY <1>0, <1>4, <2>1, <2>2, <2>3, LoginMove DEF connect, Sound
<1>5. ASSUME NEW c \in Calls, LoginGranted(c) PROVE IInv'
  <2>1. Moves(c, calls[c].fn, calls[c].hook, "returned", NoUser)
    BY <1>5, ReturnMoves DEF LoginGranted
  <2>2. LoginTypeOK'
    BY <1>0, <1>5 DEF LoginGranted, LoginTypeOK
  <2>3. LoginSettled'
    BY <1>5, <2>1, Underway DEF LoginGranted, LoginSettled, NothingLeftHanging, LoginTypeOK
  <2> QED BY <1>0, <1>5, <2>1, <2>2, <2>3, LoginMove DEF LoginGranted, Sound
<1>6. ASSUME NEW c \in Calls, LoginRefused(c) PROVE IInv'
  <2>1. Moves(c, calls[c].fn, calls[c].hook, "returned", NoUser)
    BY <1>6, ReturnMoves DEF LoginRefused
  <2>2. LoginTypeOK'
    <3> DEFINE h == calls[c].hook
    <3>1. PICK error \in RequestErrors : loginError' = [loginError EXCEPT ![h] = error]
      BY <1>6 DEF LoginRefused
    <3>2. loginStatus' = [loginStatus EXCEPT ![h] = "error"]
      BY <1>6 DEF LoginRefused
    <3> HIDE DEF h
    <3>3. loginError' \in [LoginHooks -> Error]
      BY <3>1 DEF LoginTypeOK, Error
    <3>4. loginStatus' \in [LoginHooks -> {"idle", "loading", "authenticated", "error"}]
      BY <3>2 DEF LoginTypeOK
    <3> QED BY <1>6, <3>3, <3>4 DEF LoginRefused, LoginTypeOK
  <2>3. LoginSettled'
    BY <1>6, <2>1, Underway DEF LoginRefused, LoginSettled, NothingLeftHanging, LoginTypeOK
  <2> QED BY <1>0, <1>6, <2>1, <2>2, <2>3, LoginMove DEF LoginRefused, Sound
<1>7. ASSUME NEW c \in Calls, NEW user \in Users, AccountsGiven(c, user) PROVE IInv'
  <2>1. Moves(c, calls[c].fn, calls[c].hook, "nonce", user)
    BY <1>7, AwaitMoves DEF AccountsGiven, Points
  <2>2. LoginTypeOK'
    BY <1>7 DEF AccountsGiven, LoginTypeOK
  <2>3. LoginSettled'
    BY <1>7, <2>1, Underway DEF AccountsGiven, LoginSettled, NothingLeftHanging
  <2>4. Sound(calls[c].fn, calls[c].hook, "nonce", user)
    BY <1>7 DEF AccountsGiven, Sound, CallsConsistent, Live
  <2> QED BY <1>0, <1>7, <2>1, <2>2, <2>3, <2>4, LoginMove DEF AccountsGiven
<1>8. ASSUME NEW c \in Calls, NonceGiven(c) PROVE IInv'
  <2>1. Moves(c, calls[c].fn, calls[c].hook, "sign", calls[c].user)
    BY <1>0, <1>8, AwaitMoves DEF NonceGiven, Points
  <2>2. LoginTypeOK'
    BY <1>8 DEF NonceGiven, LoginTypeOK, loginVars
  <2>3. LoginSettled'
    BY <1>8, <2>1, LoginKept DEF NonceGiven, NothingLeftHanging
  <2>4. Sound(calls[c].fn, calls[c].hook, "sign", calls[c].user)
    BY <1>8 DEF NonceGiven, Sound, CallsConsistent, Live
  <2> QED BY <1>0, <1>8, <2>1, <2>2, <2>3, <2>4, LoginMove DEF NonceGiven
<1>9. ASSUME NEW c \in Calls, MessageSigned(c) PROVE IInv'
  <2>1. Moves(c, calls[c].fn, calls[c].hook, "login", calls[c].user)
    BY <1>0, <1>9, AwaitMoves DEF MessageSigned, Points
  <2>2. LoginTypeOK'
    BY <1>9 DEF MessageSigned, BeginLogin, LoginTypeOK, Error
  <2>3. LoginSettled'
    BY <1>9, <2>1, Underway
    DEF MessageSigned, BeginLogin, LoginSettled, NothingLeftHanging, LoginTypeOK
  <2>4. Sound(calls[c].fn, calls[c].hook, "login", calls[c].user)
    BY <1>9 DEF MessageSigned, Sound, CallsConsistent, Live
  <2> QED BY <1>0, <1>9, <2>1, <2>2, <2>3, <2>4, LoginMove DEF MessageSigned
<1>10. ASSUME NEW c \in Calls, ConnectFails(c) PROVE IInv'
  <2>1. Moves(c, calls[c].fn, calls[c].hook, "returned", NoUser)
    BY <1>10, ReturnMoves DEF ConnectFails
  <2>2. LoginTypeOK'
    <3>1. PICK error \in RequestErrors \cup {"wallet_not_found"} :
             connectError' = [connectError EXCEPT ![calls[c].hook] = error]
      BY <1>10 DEF ConnectFails
    <3> QED BY <1>10, <3>1 DEF ConnectFails, LoginTypeOK, Error
  <2>3. LoginSettled'
    BY <1>10, <2>1, Underway DEF ConnectFails, LoginSettled, NothingLeftHanging
  <2> QED BY <1>0, <1>10, <2>1, <2>2, <2>3, LoginMove DEF ConnectFails, Sound
<1> QED
  BY <1>1, <1>2, <1>3, <1>4, <1>5, <1>6, <1>7, <1>8, <1>9, <1>10
  DEF LoginNext, LoginProgress

-----------------------------------------------------------------------------
(* Steps of the account, session key and recovery hooks                    *)

LEMMA ResourceMove ==
    ASSUME IInv, UNCHANGED <<token, loginVars, sendVars>>, NEW c \in Calls,
           NEW fn, NEW hook, NEW at, NEW user, Moves(c, fn, hook, at, user),
           Sound(fn, hook, at, user),
           calls[c].at \in {"idle", "compute", "register", "request"},
           at \notin {"idle", "build", "post", "sleep"},
           ResourceTypeOK', FetchSettled'
    PROVE  IInv'
<1>1. ClientTypeOK' /\ CallsConsistent'
  <2>1. token' \in Users \cup {NoUser}
    BY DEF IInv, SdkTypeOK, ClientTypeOK
  <2> QED BY <2>1, MoveKeeps DEF IInv, SdkTypeOK
<1>2. LoginSettled'
  BY LoginKept DEF IInv, NothingLeftHanging
<1>3. ~(Live(c) /\ calls[c].fn = "send")
  BY DEF IInv, CallsConsistent
<1>4. SendSettled'
  BY <1>3, SendKept DEF IInv, NothingLeftHanging
<1>5. TimeIsLeft'
  BY TimeKept DEF IInv, sendVars
<1> QED BY <1>1, <1>2, <1>4, <1>5, OthersTyped DEF IInv, SdkTypeOK, NothingLeftHanging

LEMMA ResourceStay ==
    ASSUME IInv, UNCHANGED <<token, calls, loginVars, sendVars>>,
           ResourceTypeOK', FetchSettled'
    PROVE  IInv'
<1>1. ClientTypeOK' /\ CallsConsistent'
  <2>1. token' \in Users \cup {NoUser}
    BY DEF IInv, SdkTypeOK, ClientTypeOK
  <2> QED BY <2>1, StayKeeps DEF IInv, SdkTypeOK
<1>2. LoginSettled' /\ SendSettled'
  BY StayUnderway
  DEF IInv, NothingLeftHanging, LoginSettled, SendSettled, loginVars, sendVars
<1>3. TimeIsLeft'
  BY DEF IInv, TimeIsLeft, sendVars
<1> QED BY <1>1, <1>2, <1>3, OthersTyped DEF IInv, SdkTypeOK, NothingLeftHanging

LEMMA ResourceOfType == \A fn : ResourceOf(fn) \in Resources
BY DEF ResourceOf, Resources

LEMMA ResourceStep ==
    ASSUME IInv, ResourceNext, UNCHANGED <<loginVars, sendVars>>
    PROVE  IInv'
<1> USE ResourceOfType DEF IInv, SdkTypeOK
<1>0. /\ token \in Users \cup {NoUser}
      /\ \A c \in Calls : /\ calls[c].fn \in Functions
                           /\ calls[c].user \in Users \cup {NoUser}
                           /\ calls[c].hook \in LoginHooks \cup {NoHook}
  BY DEF ClientTypeOK
<1>1. ASSUME NEW r \in {"account", "session"}, NotAuthenticated(r) PROVE IInv'
  <2>1. ResourceTypeOK'
    BY <1>1 DEF NotAuthenticated, ResourceTypeOK, Error
  <2>2. FetchSettled'
    BY <1>1, StayUnderway DEF NotAuthenticated, FetchSettled, NothingLeftHanging
  <2> QED BY <1>1, <2>1, <2>2, ResourceStay DEF NotAuthenticated
<1>2. ASSUME NEW r \in {"session", "recovery"}, Clear(r) PROVE IInv'
  <2>1. ResourceTypeOK'
    BY <1>2 DEF Clear, ResourceTypeOK, Error
  <2>2. FetchSettled'
    BY <1>2, StayUnderway DEF Clear, FetchSettled, NothingLeftHanging
  <2> QED BY <1>2, <2>1, <2>2, ResourceStay DEF Clear
<1>3. ASSUME NEW c \in Calls, NEW fn \in Fetches, Fetch(c, fn) PROVE IInv'
  <2>1. calls[c].at = "idle" /\ Moves(c, fn, NoHook, "request", token)
    BY <1>0, <1>3, StartMoves DEF Fetch, Fetches, Functions, Points
  <2>2. ResourceTypeOK'
    BY <1>3 DEF Fetch, Begin, ResourceTypeOK, Error
  <2>3. FetchUnderway(ResourceOf(fn))'
    BY <2>1, Underway DEF Fetches
  <2>4. FetchSettled'
    BY <1>3, <2>1, <2>3, Underway
    DEF Fetch, Begin, FetchSettled, NothingLeftHanging, ResourceTypeOK
  <2> QED BY <1>3, <2>1, <2>2, <2>4, ResourceMove DEF Fetch, Begin, Fetches, Sound
<1>4. ASSUME NEW c \in Calls, createAccountFromOwner(c) PROVE IInv'
  <2>1. calls[c].at = "idle" /\ Moves(c, "createAccountFromOwner", NoHook, "compute", NoUser)
    BY <1>4, StartMoves DEF createAccountFromOwner, Functions, Points
  <2>2. ResourceTypeOK'
    BY <1>4 DEF createAccountFromOwner, Begin, ResourceTypeOK, Error
  <2>3. FetchUnderway("account")'
    <3>1. ResourceOf("createAccountFromOwner") = "account"
      BY DEF ResourceOf
    <3> QED BY <2>1, <3>1, Underway
  <2>4. FetchSettled'
    BY <1>4, <2>1, <2>3, Underway
    DEF createAccountFromOwner, Begin, FetchSettled, NothingLeftHanging, ResourceTypeOK
  <2> QED BY <1>4, <2>1, <2>2, <2>4, ResourceMove DEF createAccountFromOwner, Begin, Sound
<1>5. ASSUME NEW c \in Calls, registerSessionKeyOnChain(c) PROVE IInv'
  <2>1. /\ calls[c].at = "idle"
        /\ Moves(c, "registerSessionKeyOnChain", NoHook, "register", NoUser)
    BY <1>5, StartMoves DEF registerSessionKeyOnChain, Functions, Points
  <2>2. ResourceTypeOK'
    BY <1>5 DEF registerSessionKeyOnChain, Begin, ResourceTypeOK, Error
  <2>3. FetchUnderway("session")'
    <3>1. ResourceOf("registerSessionKeyOnChain") = "session"
      BY DEF ResourceOf
    <3> QED BY <2>1, <3>1, Underway
  <2>4. FetchSettled'
    BY <1>5, <2>1, <2>3, Underway
    DEF registerSessionKeyOnChain, Begin, FetchSettled, NothingLeftHanging, ResourceTypeOK
  <2> QED BY <1>5, <2>1, <2>2, <2>4, ResourceMove DEF registerSessionKeyOnChain, Begin, Sound
<1>6. ASSUME NEW c \in Calls, computeKernelAddress(c) PROVE IInv'
  <2>1. calls[c].at = "idle" /\ Moves(c, "computeKernelAddress", NoHook, "compute", NoUser)
    BY <1>6, StartMoves DEF computeKernelAddress, Functions, Points
  <2>2. ResourceTypeOK'
    BY <1>6 DEF computeKernelAddress, ResourceTypeOK, resourceVars
  <2>3. FetchSettled'
    BY <1>6, <2>1, FetchKept DEF computeKernelAddress, NothingLeftHanging
  <2> QED BY <1>6, <2>1, <2>2, <2>3, ResourceMove DEF computeKernelAddress, Sound
<1>7. ASSUME NEW c \in Calls, AddressComputed(c) PROVE IInv'
  <2>1. Moves(c, "createAccountFromOwner", calls[c].hook, "request", token)
    BY <1>0, <1>7, AwaitMoves DEF AddressComputed, Points
  <2>2. ResourceTypeOK'
    BY <1>7 DEF AddressComputed, ResourceTypeOK, resourceVars
  <2>3. FetchUnderway("account")'
    <3>1. ResourceOf("createAccountFromOwner") = "account"
      BY DEF ResourceOf
    <3> QED BY <2>1, <3>1, Underway
  <2>4. FetchSettled'
    <3>1. ResourceOf(calls[c].fn) = "account"
      BY <1>7 DEF AddressComputed, ResourceOf
    <3> QED BY <1>7, <2>1, <2>3, <3>1, Underway
            DEF AddressComputed, FetchSettled, NothingLeftHanging, resourceVars
  <2> QED BY <1>7, <2>1, <2>2, <2>4, ResourceMove DEF AddressComputed, Sound
<1>8. ASSUME NEW c \in Calls, ComputeFails(c) PROVE IInv'
  <2>1. Moves(c, calls[c].fn, calls[c].hook, "returned", NoUser)
    BY <1>8, ReturnMoves DEF ComputeFails
  <2>2. ResourceTypeOK'
    BY <1>8 DEF ComputeFails, Fail, ResourceTypeOK, Error
  <2>3. FetchSettled'
    BY <1>8, <2>1, Underway
    DEF ComputeFails, Fail, FetchSettled, NothingLeftHanging, ResourceTypeOK
  <2> QED BY <1>8, <2>1, <2>2, <2>3, ResourceMove DEF ComputeFails, Fail, Sound
<1>9. ASSUME NEW c \in Calls, Registered(c) PROVE IInv'
  <2>1. Moves(c, calls[c].fn, calls[c].hook, "returned", NoUser)
    BY <1>9, ReturnMoves DEF Registered
  <2>2. ResourceTypeOK'
    BY <1>9 DEF Registered, ResourceTypeOK
  <2>3. FetchSettled'
    <3>1. ResourceOf(calls[c].fn) = "session"
      BY <1>9 DEF Registered, ResourceOf
    <3> QED BY <1>9, <2>1, <3>1, Underway
            DEF Registered, FetchSettled, NothingLeftHanging, ResourceTypeOK
  <2> QED BY <1>9, <2>1, <2>2, <2>3, ResourceMove DEF Registered, Sound
<1>10. ASSUME NEW c \in Calls, Fetched(c) PROVE IInv'
  <2>1. Moves(c, calls[c].fn, calls[c].hook, "returned", NoUser)
    BY <1>10, ReturnMoves DEF Fetched
  <2>2. ResourceTypeOK'
    BY <1>10 DEF Fetched, ResourceTypeOK
  <2>3. FetchSettled'
    BY <1>10, <2>1, Underway DEF Fetched, FetchSettled, NothingLeftHanging, ResourceTypeOK
  <2> QED BY <1>10, <2>1, <2>2, <2>3, ResourceMove DEF Fetched, Sound
<1>11. ASSUME NEW c \in Calls, FetchFails(c) PROVE IInv'
  <2>1. Moves(c, calls[c].fn, calls[c].hook, "returned", NoUser)
    BY <1>11, ReturnMoves DEF FetchFails
  <2>2. ResourceTypeOK'
    BY <1>11 DEF FetchFails, Fail, ResourceTypeOK, Error
  <2>3. FetchSettled'
    BY <1>11, <2>1, Underway
    DEF FetchFails, Fail, FetchSettled, NothingLeftHanging, ResourceTypeOK
  <2> QED BY <1>11, <2>1, <2>2, <2>3, ResourceMove DEF FetchFails, Fail, Sound
<1>12. ASSUME NEW c \in Calls, PreviewEnds(c) PROVE IInv'
  <2>1. Moves(c, calls[c].fn, calls[c].hook, "returned", NoUser)
    BY <1>12, ReturnMoves DEF PreviewEnds
  <2>2. ResourceTypeOK'
    BY <1>12 DEF PreviewEnds, ResourceTypeOK, Error
  <2>3. FetchSettled'
    <3>1. ASSUME NEW r, FetchUnderway(r) PROVE FetchUnderway(r)'
      <4>1. PICK d \in Calls : /\ calls[d].at \in {"compute", "register", "request"}
                               /\ calls[d].fn # "computeKernelAddress"
                               /\ ResourceOf(calls[d].fn) = r
        BY <3>1 DEF FetchUnderway
      <4>2. calls'[d] = calls[d]
        BY <1>12, <2>1, <4>1 DEF PreviewEnds, Moves
      <4> QED BY <4>1, <4>2 DEF FetchUnderway, ResourceOf
    <3> QED BY <1>12, <3>1 DEF PreviewEnds, FetchSettled, NothingLeftHanging
  <2> QED BY <1>12, <2>1, <2>2, <2>3, ResourceMove DEF PreviewEnds, Sound
<1> QED
  BY <1>1, <1>2, <1>3, <1>4, <1>5, <1>6, <1>7, <1>8, <1>9, <1>10, <1>11, <1>12
  DEF ResourceNext, ResourceProgress

-----------------------------------------------------------------------------
(* Steps of the send hook                                                  *)

LEMMA SendMove ==
    ASSUME IInv, UNCHANGED <<token, loginVars, resourceVars>>, NEW c \in Calls,
           NEW fn, NEW hook, NEW at, NEW user, Moves(c, fn, hook, at, user),
           Sound(fn, hook, at, user),
           calls[c].at \in {"idle", "build", "post", "sleep", "poll"},
           SendTypeOK', OwnedIsThere', TimeIsLeft', SendSettled'
    PROVE  IInv'
<1>1. ClientTypeOK' /\ CallsConsistent'
  <2>1. token' \in Users \cup {NoUser}
    BY DEF IInv, SdkTypeOK, ClientTypeOK
  <2> QED BY <2>1, MoveKeeps DEF IInv, SdkTypeOK
<1>2. LoginSettled'
  BY LoginKept DEF IInv, NothingLeftHanging
<1>3. FetchSettled'
  BY FetchKept DEF IInv, NothingLeftHanging
<1> QED BY <1>1, <1>2, <1>3, OthersTyped DEF IInv, SdkTypeOK, NothingLeftHanging

LEMMA SendStay ==
    ASSUME IInv, UNCHANGED <<token, calls, loginVars, resourceVars>>,
           UNCHANGED elapsed, SendTypeOK', OwnedIsThere', SendSettled'
    PROVE  IInv'
<1>1. ClientTypeOK' /\ CallsConsistent'
  <2>1. token' \in Users \cup {NoUser}
    BY DEF IInv, SdkTypeOK, ClientTypeOK
  <2> QED BY <2>1, StayKeeps DEF IInv, SdkTypeOK
<1>2. LoginSettled' /\ FetchSettled'
  BY StayUnderway
  DEF IInv, NothingLeftHanging, LoginSettled, FetchSettled, loginVars, resourceVars
<1>3. TimeIsLeft'
  BY DEF IInv, TimeIsLeft
<1> QED BY <1>1, <1>2, <1>3, OthersTyped DEF IInv, SdkTypeOK, NothingLeftHanging

(* The rows that the server's steps write are rows. *)
LEMMA RowTypes ==
    /\ {L!Absent, L!Pending, L!Submitted} \subseteq L!Record
    /\ \A block \in L!Block : L!Confirmed(block) \in L!Record
    /\ \A hash \in L!Hash : L!Failed(hash) \in L!Record
BY DEF L!Absent, L!Pending, L!Submitted, L!Confirmed, L!Failed, L!Row,
       L!Record, L!Status, L!Hash, L!Block, L!Reason

(* What the server does to the record of an intent that it has. *)
LEMMA RecordStep ==
    ASSUME SendTypeOK, NEW c \in Calls, L!Submit(c) \/ L!Settle(c)
    PROVE  /\ record' \in [Calls -> L!Record]
           /\ record[c].status \notin L!Terminal /\ record[c] # L!Absent
           /\ record'[c].status # "absent"
           /\ record[c].tx_hash = "hash" => record'[c].tx_hash = "hash"
           /\ \A d \in Calls \ {c} : record'[d] = record[d]
<1>1. PICK new \in L!Record :
         /\ record' = [record EXCEPT ![c] = new]
         /\ new.status # "absent"
         /\ record[c].tx_hash = "hash" => new.tx_hash = "hash"
  <2>1. CASE L!Submit(c)
    BY <2>1, RowTypes DEF L!Submit, L!Submitted, L!Row
  <2>2. CASE L!Settle(c)
    BY <2>2, RowTypes DEF L!Settle, L!Confirmed, L!Failed, L!Row
  <2> QED BY <2>1, <2>2
<1>2. record[c] \in {L!Pending, L!Submitted}
  BY DEF L!Submit, L!Settle, L!Open
<1>3. record[c].status \notin L!Terminal /\ record[c] # L!Absent
  BY <1>2 DEF L!Pending, L!Submitted, L!Absent, L!Row, L!Terminal
<1> QED BY <1>1, <1>3 DEF SendTypeOK

LEMMA PollShows ==
    ASSUME SendTypeOK, NEW c \in Calls, PollReads(c), record[c].status # "absent"
    PROVE  /\ intentStatus' \in (L!Status \ {"absent"}) \cup {"null"}
           /\ txHash' \in Calls \cup {NoHash}
<1>1. record[c].status \in L!Status
  BY DEF SendTypeOK, L!Record
<1> QED BY <1>1 DEF SendTypeOK, PollReads

LEMMA SendStep ==
    ASSUME IInv, SendNext, UNCHANGED <<loginVars, resourceVars>>
    PROVE  IInv'
<1> USE DEF IInv, SdkTypeOK
<1>0. /\ token \in Users \cup {NoUser}
      /\ \A c \in Calls : /\ calls[c].fn \in Functions
                           /\ calls[c].user \in Users \cup {NoUser}
                           /\ calls[c].hook \in LoginHooks \cup {NoHook}
  BY DEF ClientTypeOK
<1>1. CASE SendNotAuthenticated
  <2>1. SendTypeOK' /\ OwnedIsThere'
    BY <1>1 DEF SendNotAuthenticated, SendTypeOK, OwnedIsThere, Error
  <2>2. SendSettled'
    BY <1>1 DEF SendNotAuthenticated, SendSettled
  <2> QED BY <1>1, <2>1, <2>2, SendStay DEF SendNotAuthenticated
<1>2. CASE reset
  <2>1. SendTypeOK' /\ OwnedIsThere'
    BY <1>2 DEF reset, SendTypeOK, OwnedIsThere, Error
  <2>2. SendSettled'
    BY <1>2 DEF reset, SendSettled
  <2> QED BY <1>2, <2>1, <2>2, SendStay DEF reset
<1>3. CASE ServerWorks
  <2>1. PICK c \in Calls : L!Submit(c) \/ L!Settle(c)
    BY <1>3 DEF ServerWorks
  <2>2. /\ record' \in [Calls -> L!Record]
        /\ record'[c].status # "absent"
        /\ \A d \in Calls \ {c} : record'[d] = record[d]
    BY <2>1, RecordStep
  <2>3. SendTypeOK'
    BY <1>3, <2>2 DEF ServerWorks, SendTypeOK, shownVars
  <2>4. OwnedIsThere'
    BY <1>3, <2>2 DEF ServerWorks, OwnedIsThere
  <2>5. SendSettled'
    BY <1>3, StayUnderway DEF ServerWorks, SendSettled, NothingLeftHanging, shownVars
  <2> QED BY <1>3, <2>3, <2>4, <2>5, SendStay DEF ServerWorks
<1>4. ASSUME NEW c \in Calls, NEW at \in {"build", "post"}, NEW user \in Users \cup {NoUser},
             Start(c, Call("send", NoHook, at, user)), ShowPending
      PROVE  IInv'
  <2>1. calls[c].at = "idle" /\ Moves(c, "send", NoHook, at, user)
    BY <1>4, StartMoves DEF Functions, Points
  <2>2. SendTypeOK' /\ OwnedIsThere'
    BY <1>4 DEF ShowPending, SendTypeOK, OwnedIsThere, Error, L!Status
  <2>3. SendSettled'
    BY <2>1, Underway DEF SendSettled
  <2>4. TimeIsLeft'
    <3>1. elapsed'[c] = 0
      BY <1>4, <2>1 DEF ShowPending, TimeIsLeft
    <3> QED BY <1>4, <2>1, <3>1 DEF ShowPending, TimeIsLeft, Moves
  <2> QED BY <1>4, <2>1, <2>2, <2>3, <2>4, SendMove DEF ShowPending, Sound
<1>5. ASSUME NEW c \in Calls, ServerAccepts(c) PROVE IInv'
  <2>1. record' = [record EXCEPT ![c] = L!Pending] /\ L!Pending \in L!Record
    BY <1>5, RowTypes DEF ServerAccepts, L!Accept
  <2>2. L!Pending.status # "absent"
    BY DEF L!Pending, L!Row
  <2>3. SendTypeOK'
    BY <1>0, <1>5, <2>1 DEF ServerAccepts, SendTypeOK, shownVars
  <2>4. OwnedIsThere'
    BY <1>5, <2>1, <2>2 DEF ServerAccepts, OwnedIsThere, SendTypeOK
  <2>5. SendSettled'
    BY <1>5, StayUnderway DEF ServerAccepts, SendSettled, NothingLeftHanging, shownVars
  <2> QED BY <1>5, <2>3, <2>4, <2>5, SendStay DEF ServerAccepts
<1>6. ASSUME NEW c \in Calls, NEW at \in {"post", "sleep", "poll", "returned"},
             NEW user \in Users \cup {NoUser},
             calls[c].at \in {"build", "post", "sleep", "poll"},
             Await(c, at, user), UNCHANGED <<token, record, owner>>,
             SendTypeOK',
             \A d \in Calls \ {c} : elapsed'[d] = elapsed[d],
             at = "post" => elapsed'[c] = 0,
             at = "sleep" => elapsed'[c] < PollBudget,
             at = "returned" =>
                 ~(intentStatus' \in {"pending", "submitted"} /\ sendError' = "none")
      PROVE  IInv'
  <2>1. calls[c].fn = "send"
    BY <1>6 DEF CallsConsistent
  <2>2. Moves(c, "send", calls[c].hook, at, user)
    BY <1>6, <2>1, AwaitMoves DEF Points
  <2>3. SendSettled'
    BY <1>6, <2>2, Underway DEF SendSettled
  <2>4. OwnedIsThere'
    BY <1>6 DEF OwnedIsThere
  <2>5. TimeIsLeft'
    <3> SUFFICES ASSUME NEW d \in Calls
        PROVE  /\ calls'[d].at \in {"idle", "build", "post"} => elapsed'[d] = 0
               /\ calls'[d].at = "sleep" => elapsed'[d] < PollBudget
      BY DEF TimeIsLeft
    <3>1. CASE d = c
      BY <1>6, <2>2, <3>1 DEF Moves
    <3>2. CASE d # c
      BY <1>6, <2>2, <3>2 DEF Moves, TimeIsLeft
    <3> QED BY <3>1, <3>2
  <2> QED BY <1>6, <2>2, <2>3, <2>4, <2>5, SendMove DEF Sound
<1>7. ASSUME NEW c \in Calls, BuildPosts(c) PROVE IInv'
  <2>1. SendTypeOK'
    BY <1>7 DEF BuildPosts, ShowPending, SendTypeOK, Error, L!Status
  <2> QED BY <1>0, <1>6, <1>7, <2>1 DEF BuildPosts, ShowPending, TimeIsLeft
<1>8. ASSUME NEW c \in Calls, BuildFindsLogout(c) PROVE IInv'
  <2>1. SendTypeOK'
    BY <1>8 DEF BuildFindsLogout, SendTypeOK, Error
  <2> QED BY <1>6, <1>8, <2>1 DEF BuildFindsLogout, Return
<1>9. ASSUME NEW c \in Calls, BuildFails(c) PROVE IInv'
  <2>1. SendTypeOK'
    BY <1>9 DEF BuildFails, ShowError, SendTypeOK, Error
  <2> QED BY <1>6, <1>9, <2>1 DEF BuildFails, ShowError, Return
<1>10. ASSUME NEW c \in Calls, PostAccepted(c) PROVE IInv'
  <2>1. SendTypeOK'
    BY <1>10 DEF PostAccepted, SendTypeOK, L!Status
  <2>2. elapsed'[c] < PollBudget
    BY <1>10 DEF PostAccepted, TimeIsLeft
  <2> QED BY <1>6, <1>10, <2>1, <2>2 DEF PostAccepted
<1>11. ASSUME NEW c \in Calls, PostFails(c) PROVE IInv'
  <2>1. PICK error \in RequestErrors : ShowError(error)
    BY <1>11 DEF PostFails
  <2>2. SendTypeOK'
    BY <2>1 DEF ShowError, SendTypeOK, Error
  <2> QED BY <1>6, <1>11, <2>1, <2>2 DEF PostFails, ShowError, Return
<1>12. ASSUME NEW c \in Calls, SleepEnds(c) PROVE IInv'
  <2>1. SendTypeOK'
    <3>1. elapsed[c] + 1 \in 0..PollBudget
      BY <1>12 DEF SleepEnds, SendTypeOK, TimeIsLeft
    <3> QED BY <1>12, <3>1 DEF SleepEnds, SendTypeOK, shownVars
  <2> QED BY <1>0, <1>6, <1>12, <2>1 DEF SleepEnds, SendTypeOK
<1>13. ASSUME NEW c \in Calls, PollSettled(c) PROVE IInv'
  <2>1. SendTypeOK'
    <3>1. record[c].status # "absent"
      BY <1>13 DEF PollSettled, L!Terminal
    <3>2. returned' \in [Calls -> L!Record]
      BY <1>13 DEF PollSettled, SendTypeOK
    <3> QED BY <1>13, <3>1, <3>2, PollShows DEF PollSettled, SendTypeOK
  <2>2. intentStatus' \in L!Terminal
    BY <1>13 DEF PollSettled, PollReads
  <2> QED BY <1>6, <1>13, <2>1, <2>2 DEF PollSettled, PollReads, Return, L!Terminal
<1>14. ASSUME NEW c \in Calls, PollsOn(c) PROVE IInv'
  <2>1. SendTypeOK'
    <3>1. record[c].status # "absent"
      BY <1>14 DEF PollsOn, PollReads, OwnedIsThere
    <3>2. elapsed' \in [Calls -> 0..PollBudget]
      BY <1>14 DEF PollsOn, SendTypeOK
    <3> QED BY <1>14, <3>1, <3>2, PollShows DEF PollsOn, SendTypeOK
  <2>2. PICK now \in elapsed[c] .. (PollBudget - 1) : elapsed' = [elapsed EXCEPT ![c] = now]
    BY <1>14 DEF PollsOn
  <2>3. elapsed'[c] < PollBudget /\ \A d \in Calls \ {c} : elapsed'[d] = elapsed[d]
    BY <2>2 DEF SendTypeOK
  <2> QED BY <1>6, <1>14, <2>1, <2>3 DEF PollsOn, PollReads
<1>15. ASSUME NEW c \in Calls, PollTimesOut(c) PROVE IInv'
  <2>1. SendTypeOK'
    <3>1. record[c].status # "absent"
      BY <1>15 DEF PollTimesOut, PollReads, OwnedIsThere
    <3>2. elapsed' \in [Calls -> 0..PollBudget] /\ sendError' \in Error
      BY <1>15 DEF PollTimesOut, SendTypeOK, Error
    <3> QED BY <1>15, <3>1, <3>2, PollShows DEF PollTimesOut, SendTypeOK
  <2> QED BY <1>6, <1>15, <2>1 DEF PollTimesOut, PollReads, Return, SendTypeOK
<1>16. ASSUME NEW c \in Calls, PollFails(c) PROVE IInv'
  <2>1. PICK error \in RequestErrors : ShowError(error)
    BY <1>16 DEF PollFails
  <2>2. SendTypeOK'
    BY <2>1 DEF ShowError, SendTypeOK, Error
  <2> QED BY <1>6, <1>16, <2>1, <2>2 DEF PollFails, ShowError, Return
<1>17. ASSUME NEW c \in Calls, SendProgress(c) PROVE IInv'
  BY <1>7, <1>8, <1>9, <1>10, <1>11, <1>12, <1>13, <1>14, <1>15, <1>16, <1>17
  DEF SendProgress
<1>18. ASSUME NEW c \in Calls, sendIntentWithSessionKey(c) PROVE IInv'
  BY <1>4, <1>18 DEF sendIntentWithSessionKey
<1>19. ASSUME NEW c \in Calls, sendIntent(c) PROVE IInv'
  BY <1>0, <1>4, <1>19 DEF sendIntent
<1> QED BY <1>1, <1>2, <1>3, <1>5, <1>17, <1>18, <1>19 DEF SendNext

-----------------------------------------------------------------------------
(* The theorems                                                            *)

LEMMA InvInit == Init => IInv
<1> SUFFICES ASSUME Init PROVE IInv
  OBVIOUS
<1>1. ClientTypeOK
  BY DEF Init, ClientInit, ClientTypeOK, Unused, Call, Functions, Points
<1>2. LoginTypeOK /\ ResourceTypeOK
  BY DEF Init, LoginInit, LoginTypeOK, ResourceInit, ResourceTypeOK, Error
<1>3. SendTypeOK
  BY RowTypes DEF Init, SendInit, SendTypeOK, L!Init, Error
<1>4. CallsConsistent /\ TimeIsLeft
  BY DEF Init, ClientInit, SendInit, CallsConsistent, TimeIsLeft, Live, Unused, Call
<1>5. OwnedIsThere
  BY DEF Init, SendInit, OwnedIsThere
<1>6. NothingLeftHanging
  BY DEF Init, LoginInit, ResourceInit, SendInit,
         NothingLeftHanging, LoginSettled, FetchSettled, SendSettled
<1> QED BY <1>1, <1>2, <1>3, <1>4, <1>5, <1>6 DEF IInv, SdkTypeOK

LEMMA InvStep == ASSUME IInv, [Next]_vars PROVE IInv'
<1>1. CASE UNCHANGED vars
  <2>1. ClientTypeOK' /\ CallsConsistent'
    BY <1>1, StayKeeps DEF IInv, SdkTypeOK, ClientTypeOK, vars
  <2>2. TimeIsLeft'
    BY <1>1 DEF IInv, TimeIsLeft, vars, sendVars
  <2>3. NothingLeftHanging'
    BY <1>1, StayUnderway
    DEF IInv, vars, loginVars, resourceVars, sendVars,
        NothingLeftHanging, LoginSettled, FetchSettled, SendSettled
  <2> QED BY <1>1, <2>1, <2>2, <2>3, OthersTyped DEF IInv, SdkTypeOK, vars
<1> QED BY <1>1, LoginStep, ResourceStep, SendStep DEF Next

(* The types, what each call awaits and what the hooks show of it fit      *)
(* together, however many calls overlap.                                   *)
THEOREM Invariance == Spec => []IInv
BY InvInit, InvStep, PTL DEF Spec

(* No hook goes on showing that something is under way when nothing is.    *)
THEOREM NothingHangs == Spec => []NothingLeftHanging
<1>1. IInv => NothingLeftHanging
  BY DEF IInv
<1> QED BY <1>1, Invariance, PTL

-----------------------------------------------------------------------------

LEMMA TokenStep ==
    ASSUME IInv, NoHiddenToken, [Next]_vars
    PROVE  NoHiddenToken'
<1>1. CASE UNCHANGED <<token, userId>>
  BY <1>1 DEF NoHiddenToken, isAuthenticated
<1>2. ASSUME NEW h \in LoginHooks \ WalletHooks, logout(h) PROVE NoHiddenToken'
  BY <1>2 DEF logout, NoHiddenToken, isAuthenticated
<1>3. ASSUME NEW c \in Calls, LoginGranted(c) PROVE NoHiddenToken'
  <2>1. calls[c].hook \in LoginHooks
    BY <1>3 DEF LoginGranted, IInv, CallsConsistent
  <2>2. userId' = [userId EXCEPT ![calls[c].hook] = calls[c].user] /\ token' = calls[c].user
    BY <1>3 DEF LoginGranted
  <2>3. userId'[calls[c].hook] = token'
    BY <2>1, <2>2 DEF IInv, SdkTypeOK, LoginTypeOK
  <2> QED BY <2>1, <2>3 DEF NoHiddenToken
<1>4. CASE LoginNext
  BY <1>1, <1>2, <1>3, <1>4
  DEF LoginNext, LoginProgress, login, LoginRefused, NoWallet, connect, AccountsGiven,
      NonceGiven, MessageSigned, ConnectFails, loginVars
<1>5. CASE ResourceNext /\ UNCHANGED loginVars
  BY <1>1, <1>5
  DEF ResourceNext, ResourceProgress, NotAuthenticated, Clear, Fetch, Begin, Fail,
      createAccountFromOwner, registerSessionKeyOnChain, computeKernelAddress,
      AddressComputed, ComputeFails, Registered, Fetched, FetchFails, PreviewEnds, loginVars
<1>6. CASE SendNext /\ UNCHANGED loginVars
  BY <1>1, <1>6
  DEF SendNext, SendProgress, SendNotAuthenticated, reset, ServerWorks, ShowPending,
      ShowError, sendIntentWithSessionKey, sendIntent, ServerAccepts, BuildPosts,
      BuildFindsLogout, BuildFails, PostAccepted, PostFails, SleepEnds, PollSettled,
      PollsOn, PollTimesOut, PollFails, loginVars
<1> QED BY <1>1, <1>4, <1>5, <1>6 DEF Next, vars, loginVars

(* Whoever the client's requests speak for is the user that some login     *)
(* hook shows.                                                             *)
THEOREM TokenIsShown == Spec => []NoHiddenToken
<1>1. Init => NoHiddenToken
  BY DEF Init, ClientInit, NoHiddenToken, isAuthenticated
<1> QED BY <1>1, TokenStep, Invariance, PTL DEF Spec

-----------------------------------------------------------------------------

(* A step of the hooks that shows and resolves nothing new. *)
LEMMA ShownStays ==
    ASSUME ShownIsTrue, UNCHANGED <<record, returned>>,
           intentStatus' \in {intentStatus, "null", "pending"},
           txHash' \in {txHash, NoHash}
    PROVE  ShownIsTrue'
BY DEF ShownIsTrue, L!Terminal

(* The server changes a record that is not settled, and keeps its hash. *)
LEMMA ShownOfServer ==
    ASSUME IInv, ShownIsTrue, UNCHANGED <<shownVars, returned>>, NEW c \in Calls,
           record' \in [Calls -> L!Record],
           record[c].status \notin L!Terminal,
           record[c].tx_hash = "hash" => record'[c].tx_hash = "hash",
           \A d \in Calls \ {c} : record'[d] = record[d]
    PROVE  ShownIsTrue'
<1>1. intentStatus' \in L!Terminal => \E d \in Calls : record'[d].status = intentStatus'
  <2> SUFFICES ASSUME intentStatus \in L!Terminal
      PROVE  \E d \in Calls : record'[d].status = intentStatus
    BY DEF shownVars
  <2>1. PICK d \in Calls : record[d].status = intentStatus
    BY DEF ShownIsTrue
  <2>2. record'[d] = record[d]
    BY <2>1
  <2> QED BY <2>1, <2>2
<1>2. txHash' # NoHash => record'[txHash'].tx_hash = "hash"
  <2> SUFFICES ASSUME txHash # NoHash PROVE record'[txHash].tx_hash = "hash"
    BY DEF shownVars
  <2>1. record[txHash].tx_hash = "hash" /\ txHash \in Calls
    BY DEF ShownIsTrue, IInv, SdkTypeOK, SendTypeOK
  <2> QED BY <2>1
<1>3. ASSUME NEW d \in Calls, returned'[d] # L!Absent
      PROVE  returned'[d].status \in L!Terminal /\ returned'[d] = record'[d]
  <2>1. returned[d].status \in L!Terminal /\ returned[d] = record[d]
    BY <1>3 DEF ShownIsTrue
  <2>2. record'[d] = record[d]
    BY <2>1
  <2> QED BY <2>1, <2>2
<1> QED BY <1>1, <1>2, <1>3 DEF ShownIsTrue, L!Absent, L!Row, L!Terminal

(* What a poll reads is true. *)
LEMMA ShownOfPoll ==
    ASSUME ShownIsTrue, UNCHANGED record, NEW c \in Calls, PollReads(c),
           \A d \in Calls : returned'[d] # L!Absent =>
               returned'[d].status \in L!Terminal /\ returned'[d] = record[d]
    PROVE  ShownIsTrue'
<1>1. intentStatus' = record[c].status
  BY DEF PollReads
<1>2. txHash' # NoHash => record[txHash'].tx_hash = "hash"
  BY DEF PollReads, ShownIsTrue
<1> QED BY <1>1, <1>2 DEF ShownIsTrue, L!Absent, L!Row, L!Terminal

LEMMA ShownStep ==
    ASSUME IInv, ShownIsTrue, [Next]_vars
    PROVE  ShownIsTrue'
<1>1. CASE UNCHANGED sendVars
  BY <1>1, ShownStays DEF sendVars
<1>2. CASE ServerWorks
  <2>1. PICK c \in Calls : L!Submit(c) \/ L!Settle(c)
    BY <1>2 DEF ServerWorks
  <2> QED BY <1>2, <2>1, RecordStep, ShownOfServer DEF ServerWorks, IInv, SdkTypeOK
<1>3. ASSUME NEW c \in Calls, ServerAccepts(c) PROVE ShownIsTrue'
  <2>1. record[c] = L!Absent /\ record' = [record EXCEPT ![c] = L!Pending]
    BY <1>3 DEF ServerAccepts, L!Accept
  <2>2. record' \in [Calls -> L!Record] /\ \A d \in Calls \ {c} : record'[d] = record[d]
    BY <2>1, RowTypes DEF IInv, SdkTypeOK, SendTypeOK
  <2>3. record[c].status \notin L!Terminal /\ record[c].tx_hash # "hash"
    BY <2>1 DEF L!Absent, L!Row, L!Terminal
  <2> QED BY <1>3, <2>2, <2>3, ShownOfServer DEF ServerAccepts
<1>4. ASSUME NEW c \in Calls, PollSettled(c) PROVE ShownIsTrue'
  <2>1. /\ returned' = [returned EXCEPT ![c] = record[c]]
        /\ record[c].status \in L!Terminal /\ UNCHANGED record /\ PollReads(c)
    BY <1>4 DEF PollSettled
  <2>2. ASSUME NEW d \in Calls, returned'[d] # L!Absent
        PROVE  returned'[d].status \in L!Terminal /\ returned'[d] = record[d]
    BY <2>1, <2>2 DEF ShownIsTrue, IInv, SdkTypeOK, SendTypeOK
  <2> QED BY <2>1, <2>2, ShownOfPoll
<1>5. ASSUME NEW c \in Calls, PollsOn(c) \/ PollTimesOut(c) PROVE ShownIsTrue'
  <2>1. PollReads(c) /\ UNCHANGED <<returned, record>>
    BY <1>5 DEF PollsOn, PollTimesOut
  <2> QED BY <2>1, ShownOfPoll DEF ShownIsTrue
<1>6. ASSUME ShowPending \/ reset \/ SendNotAuthenticated PROVE ShownIsTrue'
  BY <1>6, ShownStays DEF ShowPending, reset, SendNotAuthenticated
<1>7. ASSUME NEW error, ShowError(error) PROVE ShownIsTrue'
  BY <1>7, ShownStays DEF ShowError
<1>8. ASSUME NEW c \in Calls, BuildFindsLogout(c) \/ PostAccepted(c) \/ SleepEnds(c)
      PROVE  ShownIsTrue'
  BY <1>8, ShownStays DEF BuildFindsLogout, PostAccepted, SleepEnds, shownVars
<1>9. ASSUME NEW c \in Calls, SendProgress(c) PROVE ShownIsTrue'
  BY <1>4, <1>5, <1>6, <1>7, <1>8, <1>9
  DEF SendProgress, BuildPosts, BuildFails, PostFails, PollFails
<1>10. CASE SendNext
  BY <1>2, <1>3, <1>6, <1>9, <1>10 DEF SendNext, sendIntentWithSessionKey, sendIntent
<1> QED BY <1>1, <1>10 DEF Next, vars

(* What useSendIntent shows, and what a send resolves to, the server has   *)
(* recorded, and will keep.                                                *)
THEOREM ShownTrue == Spec => []ShownIsTrue
<1>1. Init => ShownIsTrue
  BY DEF Init, SendInit, ShownIsTrue, L!Terminal
<1> QED BY <1>1, ShownStep, Invariance, PTL DEF Spec

-----------------------------------------------------------------------------

(* With one login hook on the page, what it shows is what the client has.  *)
OneHookShows ==
    \A h \in LoginHooks :
       /\ loginStatus[h] = "authenticated" => isAuthenticated
       /\ isAuthenticated => userId[h] = token

LEMMA OneHookStep ==
    ASSUME \A g, h \in LoginHooks : g = h,
           IInv, OneHookShows, LoginNext
    PROVE  OneHookShows'
<1> USE DEF IInv, SdkTypeOK, LoginTypeOK, isAuthenticated
<1> SUFFICES ASSUME NEW h \in LoginHooks
    PROVE  /\ loginStatus'[h] = "authenticated" => token' # NoUser
           /\ token' # NoUser => userId'[h] = token'
  BY DEF OneHookShows
<1>0. \A g \in LoginHooks : g = h
  OBVIOUS
<1>1. ASSUME NEW g \in LoginHooks \ WalletHooks, logout(g) PROVE OneHookShows'
  BY <1>0, <1>1 DEF logout, OneHookShows
<1>2. ASSUME NEW g \in LoginHooks, BeginLogin(g), UNCHANGED <<token, userId>>
      PROVE  OneHookShows'
  BY <1>0, <1>2 DEF BeginLogin, OneHookShows
<1>3. ASSUME NEW c \in Calls, LoginGranted(c) PROVE OneHookShows'
  <2>1. calls[c].hook = h /\ calls[c].user \in Users
    BY <1>0, <1>3 DEF LoginGranted, CallsConsistent
  <2>2. /\ userId' = [userId EXCEPT ![h] = calls[c].user]
        /\ token' = calls[c].user
    BY <1>3, <2>1 DEF LoginGranted
  <2>3. userId'[h] = token' /\ token' # NoUser
    BY <2>1, <2>2
  <2> QED BY <1>0, <2>3 DEF OneHookShows
<1>4. ASSUME NEW c \in Calls, LoginRefused(c) PROVE OneHookShows'
  <2>1. calls[c].hook = h
    BY <1>0, <1>4 DEF LoginRefused, CallsConsistent
  <2>2. /\ loginStatus' = [loginStatus EXCEPT ![h] = "error"]
        /\ UNCHANGED <<token, userId>>
    BY <1>4, <2>1 DEF LoginRefused
  <2> QED BY <1>0, <2>2 DEF OneHookShows
<1>5. ASSUME UNCHANGED <<token, userId, loginStatus>> PROVE OneHookShows'
  BY <1>5 DEF OneHookShows
<1>6. ASSUME NEW c \in Calls, MessageSigned(c) PROVE OneHookShows'
  <2>1. calls[c].hook \in LoginHooks
    BY <1>6 DEF MessageSigned, CallsConsistent
  <2> QED BY <1>2, <1>6, <2>1 DEF MessageSigned
<1>7. ASSUME NEW g \in LoginHooks \ WalletHooks, NEW c \in Calls, NEW user \in Users,
             login(c, g, user)
      PROVE  OneHookShows'
  BY <1>2, <1>7 DEF login
<1>8. ASSUME NEW w \in WalletHooks, NoWallet(w) \/ \E c \in Calls : connect(c, w)
      PROVE  OneHookShows'
  <2>1. UNCHANGED <<token, userId, loginStatus>>
    BY <1>8 DEF NoWallet, connect
  <2> QED BY <1>5, <2>1
<1>9. ASSUME NEW c \in Calls,
             \/ \E user \in Users : AccountsGiven(c, user)
             \/ NonceGiven(c) \/ ConnectFails(c)
      PROVE  OneHookShows'
  <2>1. UNCHANGED <<token, userId, loginStatus>>
    BY <1>9 DEF AccountsGiven, NonceGiven, ConnectFails, loginVars
  <2> QED BY <1>5, <2>1
<1>10. OneHookShows'
  <2> HIDE DEF IInv, SdkTypeOK, LoginTypeOK, isAuthenticated
  <2> QED BY <1>1, <1>3, <1>4, <1>6, <1>7, <1>8, <1>9 DEF LoginNext, LoginProgress
<1> QED BY <1>10 DEF OneHookShows

(* Of a page with a single login hook, what docs/sdk/hooks.md says is      *)
(* true: a hook that shows 'authenticated' has the client's token.         *)
THEOREM OneLoginHook ==
    ASSUME \A g, h \in LoginHooks : g = h
    PROVE  Spec => []AuthenticatedHasToken
<1>1. Init => OneHookShows
  BY DEF Init, ClientInit, LoginInit, OneHookShows, isAuthenticated
<1>2. ASSUME IInv, OneHookShows, [Next]_vars PROVE OneHookShows'
  <2>1. CASE LoginNext
    BY <1>2, <2>1, OneHookStep
  <2>2. CASE UNCHANGED <<token, loginVars>>
    BY <1>2, <2>2 DEF OneHookShows, loginVars, isAuthenticated
  <2>3. CASE ResourceNext /\ UNCHANGED loginVars
    BY <2>2, <2>3
    DEF ResourceNext, ResourceProgress, NotAuthenticated, Clear, Fetch, Begin, Fail,
        createAccountFromOwner, registerSessionKeyOnChain, computeKernelAddress,
        AddressComputed, ComputeFails, Registered, Fetched, FetchFails, PreviewEnds
  <2>4. CASE SendNext /\ UNCHANGED loginVars
    BY <2>2, <2>4
    DEF SendNext, SendProgress, SendNotAuthenticated, reset, ServerWorks, ShowPending,
        ShowError, sendIntentWithSessionKey, sendIntent, ServerAccepts, BuildPosts,
        BuildFindsLogout, BuildFails, PostAccepted, PostFails, SleepEnds, PollSettled,
        PollsOn, PollTimesOut, PollFails
  <2> QED BY <1>2, <2>1, <2>2, <2>3, <2>4 DEF Next, vars
<1>3. OneHookShows => AuthenticatedHasToken
  BY DEF OneHookShows, AuthenticatedHasToken
<1> QED BY <1>1, <1>2, <1>3, Invariance, PTL DEF Spec

-----------------------------------------------------------------------------
(* The page and the server                                                 *)

(* The server once more, with its theorems. *)
Proved == INSTANCE IntentPipelineProofs WITH Intents <- Calls, call <- handler

(* The two instances say the same. *)
LEMMA SameServer ==
    /\ Server!Init <=> Proved!Init
    /\ Server!Next <=> Proved!Next
    /\ Server!vars = Proved!vars
    /\ Server!Mined = Proved!Mined
BY DEF Server!Answered, Server!SponsorOk, Server!SponsorErr,
       Server!SendOk, Server!SendErr, Server!PollReceipt, Server!PollNull,
       Server!PollNone, Server!PollErr, Server!HandlerStep, Server!Admit,
       Server!Refuse, Server!InsertIntent, Server!SpawnTask,
       Server!ClientGone, Server!TaskWrites, Server!MarkSubmitted,
       Server!GiveUp, Server!Settle, Server!UpdateIntentStatus,
       Server!Struck, Server!BundlerStep, Server!BundlerTakes,
       Server!BundlerRefuses, Server!Restart, Server!Live, Server!Mine,
       Server!Drop, Server!Mined, Server!vars, Server!Pending,
       Server!Submitted, Server!Confirmed, Server!Failed, Server!Task,
       Server!Polling, Server!Settling, Server!Lifecycle!Absent,
       Server!Lifecycle!Pending, Server!Lifecycle!Submitted,
       Server!Lifecycle!Confirmed, Server!Lifecycle!Failed,
       Server!Lifecycle!Row, Server!Lifecycle!Init, Server!Init,
       Server!Next, Proved!Answered, Proved!SponsorOk, Proved!SponsorErr,
       Proved!SendOk, Proved!SendErr, Proved!PollReceipt, Proved!PollNull,
       Proved!PollNone, Proved!PollErr, Proved!HandlerStep, Proved!Admit,
       Proved!Refuse, Proved!InsertIntent, Proved!SpawnTask,
       Proved!ClientGone, Proved!TaskWrites, Proved!MarkSubmitted,
       Proved!GiveUp, Proved!Settle, Proved!UpdateIntentStatus,
       Proved!Struck, Proved!BundlerStep, Proved!BundlerTakes,
       Proved!BundlerRefuses, Proved!Restart, Proved!Live, Proved!Mine,
       Proved!Drop, Proved!Mined, Proved!vars, Proved!Pending,
       Proved!Submitted, Proved!Confirmed, Proved!Failed, Proved!Task,
       Proved!Polling, Proved!Settling, Proved!Lifecycle!Absent,
       Proved!Lifecycle!Pending, Proved!Lifecycle!Submitted,
       Proved!Lifecycle!Confirmed, Proved!Lifecycle!Failed,
       Proved!Lifecycle!Row, Proved!Lifecycle!Init, Proved!Init,
       Proved!Next

(* What a step of the page does to the calls: one of them starts or goes   *)
(* on, and none comes to post but from before its POST.                    *)
Goes(c) ==
    /\ \A d \in Calls \ {c} : calls'[d] = calls[d]
    /\ \/ calls[c].at = "idle"
       \/ /\ calls'[c].at \notin {"idle", "build"}
          /\ calls'[c].at = "post" => calls[c].at = "build"

LEMMA StartGoes ==
    ASSUME ClientTypeOK, NEW c \in Calls, NEW call, Start(c, call)
    PROVE  Goes(c)
BY DEF ClientTypeOK, Start, Goes

LEMMA AwaitGoes ==
    ASSUME ClientTypeOK, NEW c \in Calls, NEW at, NEW user, Await(c, at, user),
           at \notin {"idle", "build"}, at = "post" => calls[c].at = "build"
    PROVE  Goes(c)
<1>1. calls' = [calls EXCEPT ![c] = Call(calls[c].fn, calls[c].hook, at, user)]
  BY DEF Await
<1>2. calls'[c].at = at /\ \A d \in Calls \ {c} : calls'[d] = calls[d]
  BY <1>1 DEF ClientTypeOK, Call
<1> QED BY <1>2 DEF Goes

LEMMA ReturnGoes ==
    ASSUME ClientTypeOK, NEW c \in Calls, Return(c)
    PROVE  Goes(c)
BY AwaitGoes DEF Return

LEMMA PageGoes ==
    ASSUME ClientTypeOK, Next
    PROVE  UNCHANGED calls \/ \E c \in Calls : Goes(c)
<1>1. CASE LoginNext
  BY <1>1, StartGoes, AwaitGoes, ReturnGoes
  DEF LoginNext, LoginProgress, login, LoginGranted, LoginRefused, logout, NoWallet,
      connect, AccountsGiven, NonceGiven, MessageSigned, ConnectFails
<1>2. CASE ResourceNext
  BY <1>2, StartGoes, AwaitGoes, ReturnGoes
  DEF ResourceNext, ResourceProgress, NotAuthenticated, Clear, Fetch,
      createAccountFromOwner, registerSessionKeyOnChain, computeKernelAddress,
      AddressComputed, ComputeFails, Registered, Fetched, FetchFails, PreviewEnds
<1>3. CASE SendNext
  BY <1>3, StartGoes, AwaitGoes, ReturnGoes
  DEF SendNext, SendProgress, SendNotAuthenticated, reset, ServerWorks,
      sendIntentWithSessionKey, sendIntent, ServerAccepts, BuildPosts, BuildFindsLogout,
      BuildFails, PostAccepted, PostFails, SleepEnds, PollSettled, PollsOn,
      PollTimesOut, PollFails
<1> QED BY <1>1, <1>2, <1>3 DEF Next

(* A handler that nobody has called has no row. *)
LEMMA UncalledIsAbsent ==
    ASSUME Proved!IInv, NEW c \in Calls, handler[c] = "checking"
    PROVE  row[c] = L!Absent
BY DEF Proved!IInv, Proved!CallInv, Proved!Lifecycle!Absent, Proved!Lifecycle!Row,
       L!Absent, L!Row

LEMMA CoupledInit == E2EInit => Coupled
BY DEF E2EInit, Init, ClientInit, Unused, Call, SendInit, Server!Init,
       Server!Lifecycle!Init, L!Init, Coupled, Server!Lifecycle!Absent,
       Server!Lifecycle!Row, L!Absent, L!Row

LEMMA CoupledPage ==
    ASSUME IInv, Proved!IInv, Coupled, PageStep
    PROVE  Coupled'
<1>1. UNCHANGED <<record, row, handler>>
  BY DEF PageStep, Beside, serverVars
<1>2. ASSUME NEW c \in Calls
      PROVE  \/ calls'[c] = calls[c]
             \/ calls[c].at = "idle"
             \/ /\ calls'[c].at \notin {"idle", "build"}
                /\ calls'[c].at = "post" => calls[c].at = "build"
  BY PageGoes DEF PageStep, IInv, SdkTypeOK, Goes
<1>3. \A c \in Calls : c \in posted' <=> c \in posted \/ calls'[c].at = "post"
  BY DEF PageStep, Beside
<1>4. ASSUME NEW c \in Calls, calls[c].at \in {"idle", "build"} PROVE record[c] = row[c]
  BY <1>4, UncalledIsAbsent DEF Coupled
<1>5. ASSUME NEW c \in Calls, calls'[c].at \in {"idle", "build"} PROVE c \notin posted'
  BY <1>2, <1>3, <1>5 DEF Coupled
<1>6. ASSUME NEW c \in Calls, calls'[c].at = "post" PROVE record'[c] = row'[c]
  BY <1>1, <1>2, <1>4, <1>6 DEF Coupled
<1> QED BY <1>1, <1>3, <1>5, <1>6 DEF Coupled

LEMMA CoupledServer ==
    ASSUME Coupled, ServerStep
    PROVE  Coupled'
BY DEF Coupled, ServerStep

(* To the page, a step of the server is what the page takes it to do.      *)
LEMMA ServerMaps ==
    ASSUME IInv, Proved!IInv, Coupled, ServerStep
    PROVE  [Next]_vars
<1> USE DEF L!Absent, L!Pending, L!Submitted, L!Confirmed, L!Failed, L!Row,
            Proved!Lifecycle!Absent, Proved!Lifecycle!Pending, Proved!Lifecycle!Submitted,
            Proved!Lifecycle!Confirmed, Proved!Lifecycle!Failed, Proved!Lifecycle!Row
<1>1. /\ record \in [Calls -> L!Record] /\ owner \in [Calls -> Users \cup {NoUser}]
      /\ row \in [Calls -> Proved!Lifecycle!Record]
  BY DEF IInv, SdkTypeOK, SendTypeOK, Proved!IInv, Proved!TypeOK
<1>2. /\ record' = [c \in Calls |-> IF record[c] = L!Absent /\ calls[c].at # "post"
                                    THEN L!Absent ELSE row'[c]]
      /\ owner' = [c \in Calls |-> IF record[c] = L!Absent /\ record'[c] # L!Absent
                                   THEN calls[c].user ELSE owner[c]]
      /\ UNCHANGED <<token, calls, loginVars, resourceVars, shownVars, elapsed, returned>>
  BY DEF ServerStep
<1>3. ASSUME NEW c \in Calls, row'[c] = row[c]
      PROVE  record'[c] = record[c] /\ owner'[c] = owner[c]
  BY <1>2, <1>3 DEF Coupled
<1>4. [Proved!Lifecycle!Next]_row
  BY Proved!LifecycleStep, EndToEndAssumption, SameServer DEF ServerStep
<1>5. CASE UNCHANGED <<record, owner>>
  BY <1>2, <1>5 DEF vars, sendVars, shownVars
<1>6. CASE UNCHANGED row
  <2>1. record' = record /\ owner' = owner
    BY <1>1, <1>2, <1>3, <1>6
  <2> QED BY <2>1, <1>5
<1>7. ASSUME NEW i \in Calls, NEW new, row' = [row EXCEPT ![i] = new]
      PROVE  /\ record' = [record EXCEPT ![i] = record'[i]]
             /\ owner' = [owner EXCEPT ![i] = owner'[i]]
             /\ row'[i] = new
             /\ record[i] = L!Absent /\ calls[i].at # "post" => UNCHANGED <<record, owner>>
             /\ ~(record[i] = L!Absent /\ calls[i].at # "post") =>
                    record[i] = row[i] /\ record'[i] = new
  <2>1. row'[i] = new /\ \A c \in Calls \ {i} : row'[c] = row[c]
    BY <1>1, <1>7
  <2>2. \A c \in Calls \ {i} : record'[c] = record[c] /\ owner'[c] = owner[c]
    BY <1>3, <2>1
  <2>3. /\ record' = [record EXCEPT ![i] = record'[i]]
        /\ owner' = [owner EXCEPT ![i] = owner'[i]]
    BY <1>1, <1>2, <2>2
  <2>4. record[i] = L!Absent /\ calls[i].at # "post" =>
            record'[i] = record[i] /\ owner'[i] = owner[i]
    BY <1>2
  <2>5. ~(record[i] = L!Absent /\ calls[i].at # "post") =>
            record[i] = row[i] /\ record'[i] = new
    BY <1>2, <2>1 DEF Coupled
  <2> QED BY <1>1, <2>1, <2>3, <2>4, <2>5
<1>8. ASSUME NEW i \in Calls, Proved!Lifecycle!Accept(i) PROVE [Next]_vars
  <2>1. row[i] = L!Absent /\ row' = [row EXCEPT ![i] = L!Pending]
    BY <1>8 DEF Proved!Lifecycle!Accept
  <2>2. CASE record[i] = L!Absent /\ calls[i].at # "post"
    BY <2>1, <2>2, <1>7, <1>5
  <2>3. CASE ~(record[i] = L!Absent /\ calls[i].at # "post")
    <3>1. /\ record[i] = L!Absent /\ record'[i] = L!Pending
          /\ record' = [record EXCEPT ![i] = L!Pending] /\ calls[i].at = "post"
      BY <2>1, <2>3, <1>7
    <3>2. owner'[i] = calls[i].user
      BY <3>1, <1>2
    <3>3. owner' = [owner EXCEPT ![i] = calls[i].user]
      BY <2>1, <3>2, <1>7
    <3>4. ServerAccepts(i)
      BY <3>1, <3>3, <1>2 DEF ServerAccepts, L!Accept
    <3> QED BY <3>4, <1>2 DEF Next, SendNext
  <2> QED BY <2>2, <2>3
<1>9. ASSUME NEW i \in Calls, NEW new, row' = [row EXCEPT ![i] = new],
             row[i] \in {L!Pending, L!Submitted},
             record[i] = row[i] /\ record' = [record EXCEPT ![i] = new]
                 => L!Submit(i) \/ L!Settle(i)
      PROVE  [Next]_vars
  <2>1. CASE record[i] = L!Absent /\ calls[i].at # "post"
    BY <1>9, <2>1, <1>7, <1>5
  <2>2. CASE ~(record[i] = L!Absent /\ calls[i].at # "post")
    <3>1. record[i] = row[i] /\ record' = [record EXCEPT ![i] = new]
      BY <1>9, <2>2, <1>7
    <3>2. owner' = owner
      <4>1. record[i] # L!Absent
        BY <1>9, <3>1
      <4>2. owner'[i] = owner[i]
        BY <4>1, <1>2
      <4>3. owner' = [owner EXCEPT ![i] = owner'[i]]
        BY <1>9, <1>7
      <4> QED BY <4>2, <4>3, <1>1
    <3>3. ServerWorks
      BY <1>9, <3>1, <3>2, <1>2 DEF ServerWorks
    <3> QED BY <3>3, <1>2 DEF Next, SendNext
  <2> QED BY <2>1, <2>2
<1>10. ASSUME NEW i \in Calls, Proved!Lifecycle!Submit(i) PROVE [Next]_vars
  <2>1. row[i] = L!Pending /\ row' = [row EXCEPT ![i] = L!Submitted]
    BY <1>10 DEF Proved!Lifecycle!Submit
  <2> QED BY <2>1, <1>9 DEF L!Submit
<1>11. ASSUME NEW i \in Calls, Proved!Lifecycle!Settle(i) PROVE [Next]_vars
  <2>1. row[i] \in {L!Pending, L!Submitted}
    BY <1>11 DEF Proved!Lifecycle!Settle, Proved!Lifecycle!Open
  <2>2. ASSUME NEW b \in L!Block, row' = [row EXCEPT ![i] = L!Confirmed(b)]
        PROVE  [Next]_vars
    <3>1. record[i] = row[i] /\ record' = [record EXCEPT ![i] = L!Confirmed(b)]
              => L!Settle(i)
      BY <2>1 DEF L!Settle, L!Open
    <3> QED BY <2>1, <2>2, <3>1, <1>9
  <2>3. ASSUME NEW h \in L!Hash, row' = [row EXCEPT ![i] = L!Failed(h)],
               row[i].tx_hash = "hash" => h = "hash"
        PROVE  [Next]_vars
    <3>1. record[i] = row[i] /\ record' = [record EXCEPT ![i] = L!Failed(h)]
              => L!Settle(i)
      BY <2>1, <2>3 DEF L!Settle, L!Open
    <3> QED BY <2>1, <2>3, <3>1, <1>9
  <2> QED BY <1>11, <2>2, <2>3
          DEF Proved!Lifecycle!Settle, Proved!Lifecycle!Block, Proved!Lifecycle!Hash,
              L!Block, L!Hash
<1> QED BY <1>4, <1>6, <1>8, <1>10, <1>11 DEF Proved!Lifecycle!Next

(* The server's step, with a page beside it. *)
LEMMA E2EServer == [E2ENext]_e2eVars => [Proved!Next]_(Proved!vars)
<1>1. PageStep \/ UNCHANGED e2eVars => UNCHANGED serverVars
  BY DEF PageStep, Beside, e2eVars
<1>2. UNCHANGED serverVars => UNCHANGED Proved!vars
  BY DEF serverVars, Proved!vars
<1>3. ServerStep => Proved!Next
  BY SameServer DEF ServerStep
<1> QED BY <1>1, <1>2, <1>3 DEF E2ENext

LEMMA E2EStep ==
    ASSUME IInv, Proved!IInv, Coupled, [E2ENext]_e2eVars
    PROVE  [Next]_vars /\ IInv' /\ Coupled'
<1>1. CASE PageStep
  <2>1. [Next]_vars
    BY <1>1 DEF PageStep
  <2> QED BY <1>1, <2>1, InvStep, CoupledPage
<1>2. CASE ServerStep
  BY <1>2, ServerMaps, InvStep, CoupledServer
<1>3. CASE UNCHANGED e2eVars
  <2>1. UNCHANGED vars /\ UNCHANGED serverVars /\ UNCHANGED posted
    BY <1>3 DEF e2eVars
  <2>2. Coupled'
    BY <2>1 DEF Coupled, vars, serverVars, sendVars
  <2> QED BY <2>1, <2>2, InvStep
<1> QED BY <1>1, <1>2, <1>3 DEF E2ENext

LEMMA ServerIsProved == E2ESpec => Proved!Spec
<1>1. E2EInit => Proved!Init
  BY SameServer DEF E2EInit
<1> QED BY <1>1, E2EServer, PTL DEF E2ESpec, Proved!Spec

(* The two sides' invariants, and what ties their states together.         *)
THEOREM E2EInvariance == E2ESpec => [](IInv /\ Proved!IInv /\ Coupled)
<1>1. E2EInit => IInv /\ Coupled
  BY InvInit, CoupledInit DEF E2EInit
<1>2. E2ESpec => []Proved!IInv
  BY ServerIsProved, Proved!Invariance, EndToEndAssumption, PTL
<1>3. IInv /\ Proved!IInv /\ Coupled /\ [E2ENext]_e2eVars => IInv' /\ Coupled'
  BY E2EStep
<1> QED BY <1>1, <1>2, <1>3, PTL DEF E2ESpec

(* The page and the server implement what each is taken for: the page's    *)
(* server keeps the promise of IntentLifecycle, and the server's clients   *)
(* do nothing that IntentPipeline does not allow for.                      *)
THEOREM BothTheorem == E2ESpec => BothHold
<1>1. E2EInit => Init /\ Server!Init
  BY DEF E2EInit
<1>2. IInv /\ Proved!IInv /\ Coupled /\ [E2ENext]_e2eVars => [Next]_vars
  BY E2EStep
<1>3. [E2ENext]_e2eVars => [Server!Next]_(Server!vars)
  <2>1. UNCHANGED Proved!vars => UNCHANGED Server!vars
    BY DEF Server!vars, Proved!vars
  <2> QED BY <2>1, E2EServer, SameServer
<1> QED BY <1>1, <1>2, <1>3, E2EInvariance, PTL
        DEF E2ESpec, BothHold, Spec, Server!Spec

(* So the page keeps its promises on the real server. *)
THEOREM PageKeepsPromises ==
    E2ESpec => [](NoHiddenToken /\ NothingLeftHanging /\ ShownIsTrue)
BY BothTheorem, TokenIsShown, NothingHangs, ShownTrue, PTL DEF BothHold

(* A record that is not absent is the row that the server has. *)
LEMMA ShownIsServers ==
    ASSUME IInv, Coupled, ShownIsTrue
    PROVE  /\ txHash # NoHash => txHash \in Calls /\ row[txHash].tx_hash = "hash"
           /\ \A c \in Calls : returned[c].block_number = "block" =>
                  row[c].block_number = "block"
<1> USE DEF L!Absent, L!Row
<1>1. txHash \in Calls \cup {NoHash}
  BY DEF IInv, SdkTypeOK, SendTypeOK
<1>2. \A c \in Calls : record[c].tx_hash = "hash" \/ record[c].block_number = "block"
          => record[c] = row[c]
  BY DEF Coupled
<1>3. ASSUME NEW c \in Calls, returned[c].block_number = "block"
      PROVE  row[c].block_number = "block"
  <2>1. returned[c] # L!Absent
    BY <1>3
  <2> QED BY <1>2, <1>3, <2>1 DEF ShownIsTrue
<1> QED BY <1>1, <1>2, <1>3 DEF ShownIsTrue

(* What the page shows of the chain is so. *)
THEOREM ShownOnChainTheorem == E2ESpec => []ShownOnChain
<1>1. E2ESpec => [](Proved!HashMeansTaken /\ Proved!BlockMeansMined)
  BY ServerIsProved, Proved!HashTheorem, Proved!BlockTheorem, EndToEndAssumption, PTL
<1>2. ASSUME IInv, Coupled, ShownIsTrue, Proved!HashMeansTaken, Proved!BlockMeansMined
      PROVE  ShownOnChain
  BY <1>2, ShownIsServers, SameServer
  DEF ShownOnChain, Proved!HashMeansTaken, Proved!BlockMeansMined
<1> QED BY <1>1, <1>2, E2EInvariance, PageKeepsPromises, PTL

(* Raced sends of one nonce: one operation's alone resolve to a block. *)
THEOREM OneSendTheorem == E2ESpec => []OneSendPerNonce
<1>1. E2ESpec => []Proved!OneWinnerPerNonce
  BY ServerIsProved, Proved!NonceTheorem, EndToEndAssumption, PTL
<1>2. ASSUME IInv, Coupled, ShownIsTrue, Proved!OneWinnerPerNonce PROVE OneSendPerNonce
  BY <1>2, ShownIsServers DEF OneSendPerNonce, Proved!OneWinnerPerNonce
<1> QED BY <1>1, <1>2, E2EInvariance, PageKeepsPromises, PTL

==============================================================================
