------------------------------ MODULE NapiEnv ------------------------------
(***************************************************************************)
(* Calls from JavaScript into native code (napi-bridge/index.js): the      *)
(* functions, constructors, methods, getters and setters that native code  *)
(* defines, the two hooks of the module system, the callback information   *)
(* each call leaves for napi_get_cb_info, the environments the calls are   *)
(* made for, and the deferreds by which native code answers later.         *)
(*                                                                         *)
(* A handle stands for its value here; NapiHandles says when it does.      *)
(* Argument i of call k is the pair <<k, i>>, and its receiver <<k, 0>>.   *)
(* JavaScript that native code calls may call native code again; an error  *)
(* of native code (a Wasm trap) unwinds the calls it passes, and any of    *)
(* the JavaScript callers between them may catch it.                       *)
(***************************************************************************)
EXTENDS Integers, Sequences

CONSTANTS
  MaxFrame,      \* bound: native callbacks running at once
  MaxCall,       \* bound: calls into native code
  MaxArgs,       \* bound: arguments of a call, and cells of native argv
  MaxEnv,        \* bound: environments
  MaxDeferred    \* bound: deferreds

VARIABLES
  calls,       \* nextCallbackInfo: calls made so far
  infos,       \* callbackInfos: what each call's information holds
  frames,      \* the calls that run, the innermost last
  argv,        \* native memory: what napi_get_cb_info wrote for each call
  refused,     \* has napi_get_cb_info refused a number
  envs,        \* nextEnvId: environments created
  activeEnv,   \* activeEnv
  scopes,      \* envByScope: environments whose scope is open
  hooks,       \* envCleanupHooks: those that have some
  deferred,    \* deferreds: which are in the Map
  promise,     \* what became of each one's promise
  accepted,    \* history: settlements that answered napi_ok
  passed,      \* history: arguments that each call was made with
  released     \* history: environments released

calling == <<calls, infos, frames, passed>>
environments == <<envs, activeEnv, scopes, hooks, released>>
deferring == <<deferred, promise, accepted>>
vars == <<calling, argv, refused, environments, deferring>>

Call == 1 .. MaxCall
Env == 1 .. MaxEnv
Deferred == 1 .. MaxDeferred
NoEnv == 0
NoInfo == [this |-> << >>, args |-> << >>]
Garbage == <<"garbage">>

(* "function" is what napi_create_function makes, and a class's method or   *)
(* constructor; "import" and "meta" are the hooks of the module system. The *)
(* methods of napi_define_properties are left out: they hand dynCall their  *)
(* arguments in an order that makes it throw before native code is entered. *)
Kind == {"function", "getter", "setter", "import", "meta"}
Hook == {"import", "meta"}
ArgCount(kind) ==
  CASE kind = "getter" -> {0}
    [] kind = "setter" -> {1}
    [] kind = "meta" -> {2}
    [] kind = "import" -> {3}
    [] OTHER -> 0 .. MaxArgs

Init ==
  /\ calls = 0
  /\ infos = [k \in Call |-> NoInfo]
  /\ frames = << >>
  /\ argv = [k \in Call |-> [i \in 1 .. MaxArgs |-> Garbage]]
  /\ refused = FALSE
  /\ envs = 0 /\ activeEnv = NoEnv /\ scopes = {} /\ hooks = {}
  /\ deferred = {} /\ promise = [d \in Deferred |-> "none"]
  /\ accepted = [d \in Deferred |-> 0]
  /\ passed = [k \in Call |-> NoInfo] /\ released = {}

TypeOK ==
  /\ calls \in 0 .. MaxCall
  /\ \A k \in Call : Len(infos[k].args) \in 0 .. 3
  /\ Len(frames) \in 0 .. MaxFrame
  /\ \A i \in DOMAIN frames : frames[i] \in [call : Call, kind : Kind, env : 0 .. MaxEnv]
  /\ \A k \in Call : DOMAIN argv[k] = 1 .. MaxArgs
  /\ refused \in BOOLEAN
  /\ envs \in 0 .. MaxEnv /\ activeEnv \in 0 .. MaxEnv
  /\ scopes \subseteq Env /\ hooks \subseteq Env /\ released \subseteq Env
  /\ deferred \subseteq Deferred
  /\ promise \in [Deferred -> {"none", "pending", "resolved", "rejected"}]
  /\ accepted \in [Deferred -> Nat]

Running == {frames[i].call : i \in DOMAIN frames}

-----------------------------------------------------------------------------
(* unofficial_napi_create_env, with options or not, and release_env, which *)
(* forgets the scope and nothing else: no hook runs, activeEnv stays.       *)
CreateEnv ==
  /\ envs < MaxEnv
  /\ envs' = envs + 1
  /\ activeEnv' = envs + 1
  /\ scopes' = scopes \cup {envs + 1}
  /\ UNCHANGED <<hooks, released, calling, argv, refused, deferring>>

ReleaseEnv(e) ==
  /\ e \in scopes
  /\ scopes' = scopes \ {e}
  /\ released' = released \cup {e}
  /\ UNCHANGED <<envs, activeEnv, hooks, calling, argv, refused, deferring>>

(* napi_add_env_cleanup_hook.                                               *)
AddCleanupHook(e) ==
  /\ e \in scopes
  /\ hooks' = hooks \cup {e}
  /\ UNCHANGED <<envs, activeEnv, scopes, released, calling, argv, refused, deferring>>

(* A hook is called for activeEnv, any other callback for the environment  *)
(* that defined it.                                                         *)
EnvOf(kind) == IF kind \in Hook THEN {activeEnv} ELSE 1 .. envs

Enter(kind, e, n) ==
  LET k == calls + 1
      info == [this |-> <<k, 0>>, args |-> [i \in 1 .. n |-> <<k, i>>]]
  IN  /\ calls' = k
      /\ infos' = [infos EXCEPT ![k] = info]
      /\ passed' = [passed EXCEPT ![k] = info]
      /\ frames' = Append(frames, [call |-> k, kind |-> kind, env |-> e])

JsCalls(kind) ==
  /\ envs > 0
  /\ calls < MaxCall /\ Len(frames) < MaxFrame
  /\ \E e \in EnvOf(kind), n \in ArgCount(kind) : Enter(kind, e, n)
  /\ UNCHANGED <<argv, refused, environments, deferring>>

\* Mutant: the information is deleted on the normal path only.
DeleteReturned(ks) ==
  infos' = [k \in Call |-> IF ks = {k} THEN NoInfo ELSE infos[k]]

Delete(ks) == infos' = [k \in Call |-> IF k \in ks THEN NoInfo ELSE infos[k]]

(* Native code returns: the finally block deletes the call's information.   *)
NativeReturns ==
  /\ frames # << >>
  /\ Delete({frames[Len(frames)].call})
  /\ frames' = SubSeq(frames, 1, Len(frames) - 1)
  /\ UNCHANGED <<calls, passed, argv, refused, environments, deferring>>

(* Native code fails: every finally block on the way to the caller that    *)
(* catches, left with n calls, runs. The hooks catch what they call.        *)
NativeFails(n) ==
  /\ n < Len(frames)
  /\ \A i \in n + 2 .. Len(frames) : frames[i].kind \notin Hook
  /\ Delete({frames[i].call : i \in n + 1 .. Len(frames)})
  /\ frames' = SubSeq(frames, 1, n)
  /\ UNCHANGED <<calls, passed, argv, refused, environments, deferring>>

(* napi_get_cb_info: native code asks with the number it was given, in the *)
(* callback or, having kept it, later; argv has room for `room` handles.    *)
\* Mutant: copies as many as native code has room for.
CopyCountRequested(room, available) == room

CopyCount(room, available) == IF room < available THEN room ELSE available

GetCbInfo(k, room) ==
  /\ infos[k] # NoInfo
  /\ argv' = [argv EXCEPT ![k] = [i \in 1 .. MaxArgs |->
       IF i \in 1 .. CopyCount(room, Len(infos[k].args))
       THEN IF i \in DOMAIN infos[k].args THEN infos[k].args[i] ELSE << >>
       ELSE @[i]]]
  /\ UNCHANGED <<calling, refused, environments, deferring>>

GetCbInfoUnknown(k) ==
  /\ k <= calls /\ infos[k] = NoInfo
  /\ refused' = TRUE
  /\ UNCHANGED <<calling, argv, environments, deferring>>

-----------------------------------------------------------------------------
(* napi_create_promise.                                                     *)
CreatePromise(d) ==
  /\ frames # << >>
  /\ promise[d] = "none" /\ \A c \in 1 .. d - 1 : promise[c] # "none"
  /\ deferred' = deferred \cup {d}
  /\ promise' = [promise EXCEPT ![d] = "pending"]
  /\ UNCHANGED <<accepted, calling, argv, refused, environments>>

(* napi_resolve_deferred and napi_reject_deferred; a promise keeps its      *)
(* first settlement whoever asks for a second.                              *)
\* Mutant: the deferred stays in the Map.
SettleKept(d, how) ==
  /\ frames # << >> /\ d \in deferred
  /\ promise' = [promise EXCEPT ![d] = IF @ = "pending" THEN how ELSE @]
  /\ accepted' = [accepted EXCEPT ![d] = IF @ < 2 THEN @ + 1 ELSE @]
  /\ UNCHANGED <<deferred, calling, argv, refused, environments>>

Settle(d, how) ==
  /\ frames # << >> /\ d \in deferred
  /\ promise' = [promise EXCEPT ![d] = IF @ = "pending" THEN how ELSE @]
  /\ accepted' = [accepted EXCEPT ![d] = @ + 1]
  /\ deferred' = deferred \ {d}
  /\ UNCHANGED <<calling, argv, refused, environments>>

Next ==
  \/ CreateEnv
  \/ \E e \in Env : ReleaseEnv(e) \/ AddCleanupHook(e)
  \/ \E kind \in Kind : JsCalls(kind)
  \/ NativeReturns
  \/ \E n \in 0 .. MaxFrame : NativeFails(n)
  \/ \E k \in Call, room \in 0 .. MaxArgs : GetCbInfo(k, room)
  \/ \E k \in Call : GetCbInfoUnknown(k)
  \/ \E d \in Deferred : CreatePromise(d)
  \/ \E d \in Deferred, how \in {"resolved", "rejected"} : Settle(d, how)

Spec == Init /\ [][Next]_vars

-----------------------------------------------------------------------------
(* The information of a call is there for as long as the call runs, however *)
(* the calls within it ended, and not a moment longer: nested callbacks and *)
(* traps through several of them neither lose nor leak one, and what it     *)
(* holds is what the call was made with.                                    *)
InfosAreOfTheRunning ==
  \A k \in Call : infos[k] = IF k \in Running THEN passed[k] ELSE NoInfo

(* What napi_get_cb_info writes to native memory are arguments of that very *)
(* call, each in its place; the cells beyond them it does not touch.        *)
ArgvIsTheCallers ==
  \A k \in Call, i \in 1 .. MaxArgs :
    argv[k][i] # Garbage =>
      i \in DOMAIN passed[k].args /\ argv[k][i] = passed[k].args[i]

(* One settlement of a deferred at most is accepted, and its promise is     *)
(* settled if and only if one was.                                          *)
SettledOnce ==
  \A d \in Deferred :
    /\ accepted[d] \in {0, 1}
    /\ accepted[d] = 1 <=> promise[d] \in {"resolved", "rejected"}
=============================================================================
