---------------------------- MODULE Network_proofs ----------------------------
(***************************************************************************)
(* Proofs about the components that MCNetwork takes its small instances    *)
(* of, for every value of their constants, one section each:               *)
(*   WispAdmission: the places of an address are given up on every path,   *)
(*     and every hop of a fetch passes the guard;                          *)
(*   HttpServer: redirects and answers find their way;                     *)
(*   TlsSocket: sessions are not shared, and records are in order;         *)
(*   HttpClient: a body arrives in order, and whole;                       *)
(*   GvisorTcp: a connection that is open is found under its key;          *)
(*   WispWorker: no socket is left behind;                                 *)
(*   V9Net: what runs is served, and what is forwarded is open.            *)
(***************************************************************************)
EXTENDS WispAdmission, HttpServer, TlsSocket, HttpClient, GvisorTcp,
        FiniteSetTheorems, SequenceTheorems, WellFoundedInduction, TLAPS

-----------------------------------------------------------------------------
(* The guard: WispAdmission.                                                *)

FetchOf == [at : {"none", "over"} \cup FetchBusy, ip : Addr, hop : 0 .. MaxRedirects,
            cleared : 0 .. MaxRedirects + 1, method : Methods, body : BOOLEAN,
            status : Nat]

(* Who has a place at the address a.                                        *)
Holders(a) == {w \in Ws : ws[w].at = "open" /\ ws[w].ip = a}
         \cup {f \in Fetch : fetch[f].at \in FetchBusy /\ fetch[f].ip = a}

(* A limit counts what is there, so that the places of an address are       *)
(* finitely many, however many clients there are.                           *)
PlacesInv ==
  \A a \in Addr :
    /\ IsFiniteSet(sessionsByIp[a])
    /\ MaxSessions # 0 => /\ sessionsByIp[a] = Holders(a)
                          /\ Cardinality(sessionsByIp[a]) <= MaxSessions

(* Before it asks the guard, a fetch has been cleared for the hops behind   *)
(* it, and afterwards for the next one too.                                 *)
HopInv ==
  \A f \in Fetch :
    /\ fetch[f].at \in {"none", "reading", "checking"} => fetch[f].cleared = fetch[f].hop
    /\ fetch[f].at = "asking" => fetch[f].cleared = fetch[f].hop + 1

GuardIInv == GuardTypeOK /\ PlacesInv /\ HopInv

-----------------------------------------------------------------------------
LEMMA GuardInitHolds == ASSUME GuardInit PROVE GuardIInv
<1>1. GuardTypeOK
  <2>1. sessionsByIp \in [Addr -> SUBSET (Ws \cup Fetch)]
    BY DEF GuardInit
  <2>2. ws \in [Ws -> [at : {"none", "open", "failed", "closed"}, ip : Addr]]
    BY DEF GuardInit
  <2>3. 0 \in 0 .. MaxRedirects /\ 0 \in 0 .. MaxRedirects + 1
    BY GuardAssumption
  <2>4. \A f \in Fetch :
          fetch[f] \in [at : {"none"}, ip : Addr, hop : {0}, cleared : {0},
                       method : {"GET"}, body : {FALSE}, status : {0}]
    BY DEF GuardInit
  <2>5. fetch \in [Fetch -> FetchOf]
    <3>1. ASSUME NEW f \in Fetch PROVE fetch[f] \in FetchOf
      <4>1. fetch[f] = [at |-> "none", ip |-> fetch[f].ip, hop |-> 0, cleared |-> 0,
                        method |-> "GET", body |-> FALSE, status |-> 0]
        BY <2>4
      <4>2. fetch[f].ip \in Addr
        BY <2>4
      <4>3. /\ "none" \in {"none", "over"} \cup FetchBusy /\ 0 \in Nat
            /\ "GET" \in Methods /\ FALSE \in BOOLEAN
        BY DEF Methods
      <4>4. [at |-> "none", ip |-> fetch[f].ip, hop |-> 0, cleared |-> 0,
             method |-> "GET", body |-> FALSE, status |-> 0] \in FetchOf
        BY <2>3, <4>2, <4>3, Zenon DEF FetchOf
      <4> QED BY <4>1, <4>4
    <3>2. fetch = [f \in Fetch |-> fetch[f]]
      BY DEF GuardInit
    <3> QED BY <3>1, <3>2
  <2> QED BY <2>1, <2>2, <2>5 DEF GuardTypeOK, FetchOf
<1>2. PlacesInv
  <2>1. \A a \in Addr : Holders(a) = {}
    BY DEF GuardInit, Holders, FetchBusy
  <2> QED BY <2>1, FS_EmptySet, GuardAssumption DEF GuardInit, PlacesInv
<1>3. HopInv
  BY DEF GuardInit, HopInv
<1> QED BY <1>1, <1>2, <1>3 DEF GuardIInv

(* Giving up a place: the member x of the address b goes, and stays in no   *)
(* other address's set.                                                     *)
LEMMA Leaves ==
  ASSUME GuardIInv, NEW b \in Addr, NEW x,
         sessionsByIp' = Removed(b, x),
         \A a \in Addr : Holders(a)' = IF a = b THEN Holders(a) \ {x} ELSE Holders(a)
  PROVE  PlacesInv'
<1> SUFFICES ASSUME NEW a \in Addr
             PROVE  /\ IsFiniteSet(sessionsByIp[a]')
                    /\ MaxSessions # 0 =>
                         /\ sessionsByIp[a]' = Holders(a)'
                         /\ Cardinality(sessionsByIp[a]') <= MaxSessions
  BY DEF PlacesInv
<1>1. sessionsByIp[a]' = IF a = b THEN sessionsByIp[a] \ {x} ELSE sessionsByIp[a]
  BY DEF Removed, GuardIInv, GuardTypeOK
<1>2. IsFiniteSet(sessionsByIp[a]) /\ Cardinality(sessionsByIp[a]) \in Nat
  BY FS_CardinalityType DEF GuardIInv, PlacesInv
<1>3. /\ IsFiniteSet(sessionsByIp[a] \ {x})
      /\ Cardinality(sessionsByIp[a] \ {x}) <= Cardinality(sessionsByIp[a])
  BY <1>2, FS_Subset
<1>4. Cardinality(sessionsByIp[a]') <= Cardinality(sessionsByIp[a])
  BY <1>1, <1>2, <1>3
<1>5. /\ IsFiniteSet(sessionsByIp[a]')
      /\ Cardinality(sessionsByIp[a]') \in Nat
  BY <1>1, <1>2, <1>3, FS_CardinalityType
<1>6. MaxSessions # 0 => /\ sessionsByIp[a]' = Holders(a)'
                         /\ Cardinality(sessionsByIp[a]) <= MaxSessions
  BY <1>1 DEF GuardIInv, PlacesInv
<1> QED BY <1>2, <1>4, <1>5, <1>6, GuardAssumption

(* Taking a place, which is done only where there is room.                  *)
LEMMA Enters ==
  ASSUME GuardIInv, NEW b \in Addr, NEW x, MayAdd(b),
         sessionsByIp' = Added(b, x),
         \A a \in Addr : Holders(a)' = IF a = b THEN Holders(a) \cup {x} ELSE Holders(a)
  PROVE  PlacesInv'
<1> SUFFICES ASSUME NEW a \in Addr
             PROVE  /\ IsFiniteSet(sessionsByIp[a]')
                    /\ MaxSessions # 0 =>
                         /\ sessionsByIp[a]' = Holders(a)'
                         /\ Cardinality(sessionsByIp[a]') <= MaxSessions
  BY DEF PlacesInv
<1>1. IsFiniteSet(sessionsByIp[a]) /\ Cardinality(sessionsByIp[a]) \in Nat
  BY FS_CardinalityType DEF GuardIInv, PlacesInv
<1>2. CASE MaxSessions = 0
  BY <1>1, <1>2 DEF Added
<1>3. CASE MaxSessions # 0
  <2>1. sessionsByIp[a]' = IF a = b THEN sessionsByIp[a] \cup {x} ELSE sessionsByIp[a]
    BY <1>3 DEF Added, GuardIInv, GuardTypeOK
  <2>2. /\ IsFiniteSet(sessionsByIp[a] \cup {x})
        /\ Cardinality(sessionsByIp[a] \cup {x}) <= Cardinality(sessionsByIp[a]) + 1
    BY <1>1, FS_AddElement
  <2>3. IsFiniteSet(sessionsByIp[a]') /\ Cardinality(sessionsByIp[a]') \in Nat
    BY <1>1, <2>1, <2>2, FS_CardinalityType
  <2>4. /\ sessionsByIp[a] = Holders(a)
        /\ Cardinality(sessionsByIp[a]) <= MaxSessions
    BY <1>3 DEF GuardIInv, PlacesInv
  <2>5. CASE a = b
    <3>1. Cardinality(sessionsByIp[a]) + 1 <= MaxSessions
      BY <1>1, <1>3, <2>5, GuardAssumption DEF MayAdd
    <3>2. Cardinality(sessionsByIp[a] \cup {x}) \in Nat
      BY <2>2, FS_CardinalityType
    <3>3. sessionsByIp[a]' = sessionsByIp[a] \cup {x}
      BY <2>1, <2>5
    <3>4. Cardinality(sessionsByIp[a]') <= MaxSessions
      BY <1>1, <2>2, <3>1, <3>2, <3>3, GuardAssumption
    <3> QED BY <2>3, <2>4, <2>5, <3>3, <3>4
  <2>6. CASE a # b
    BY <2>1, <2>3, <2>4, <2>6
  <2> QED BY <2>5, <2>6
<1> QED BY <1>2, <1>3

(* Neither a place nor who has one changes.                                 *)
LEMMA Stays ==
  ASSUME GuardIInv, UNCHANGED sessionsByIp, \A a \in Addr : Holders(a)' = Holders(a)
  PROVE  PlacesInv'
BY DEF GuardIInv, PlacesInv

-----------------------------------------------------------------------------
(* A fetch that is not at work before and after a step, or is at work       *)
(* before and after it, holds what it held.                                 *)
LEMMA FetchMoves ==
  ASSUME GuardIInv, NEW f \in Fetch, UNCHANGED ws,
         \A g \in Fetch : g # f => fetch'[g] = fetch[g],
         fetch'[f].ip = fetch[f].ip
  PROVE  /\ (fetch'[f].at \in FetchBusy <=> fetch[f].at \in FetchBusy) =>
              \A a \in Addr : Holders(a)' = Holders(a)
         /\ fetch'[f].at \in FetchBusy =>
              \A a \in Addr : Holders(a)' =
                IF a = fetch[f].ip THEN Holders(a) \cup {f} ELSE Holders(a)
         /\ Ws \cap Fetch = {} /\ fetch'[f].at \notin FetchBusy =>
              \A a \in Addr : Holders(a)' =
                IF a = fetch[f].ip THEN Holders(a) \ {f} ELSE Holders(a)
BY DEF Holders

LEMMA WsMoves ==
  ASSUME GuardIInv, NEW w \in Ws, UNCHANGED fetch,
         \A v \in Ws : v # w => ws'[v] = ws[v],
         ws'[w].ip = ws[w].ip
  PROVE  /\ (ws'[w].at = "open" <=> ws[w].at = "open") =>
              \A a \in Addr : Holders(a)' = Holders(a)
         /\ ws'[w].at = "open" =>
              \A a \in Addr : Holders(a)' =
                IF a = ws[w].ip THEN Holders(a) \cup {w} ELSE Holders(a)
         /\ Ws \cap Fetch = {} /\ ws'[w].at # "open" =>
              \A a \in Addr : Holders(a)' =
                IF a = ws[w].ip THEN Holders(a) \ {w} ELSE Holders(a)
BY DEF Holders
-----------------------------------------------------------------------------
(* One lemma for each way the state changes.                                *)
LEMMA AnswerKeeps ==
  ASSUME GuardIInv, NEW f \in Fetch, NEW status \in Nat,
         fetch' = Answer(f, status), UNCHANGED ws
  PROVE  /\ fetch' \in [Fetch -> FetchOf]
         /\ HopInv'
         /\ fetch'[f].at \notin FetchBusy /\ fetch'[f].ip = fetch[f].ip
         /\ \A g \in Fetch : g # f => fetch'[g] = fetch[g]
<1>1. fetch \in [Fetch -> FetchOf]
  BY DEF GuardIInv, GuardTypeOK, FetchOf
<1>2. fetch' = [fetch EXCEPT ![f].at = "over", ![f].status = status]
  BY DEF Answer
<1>3. fetch'[f].at = "over" /\ fetch'[f].ip = fetch[f].ip
  BY <1>1, <1>2 DEF FetchOf
<1>4. \A g \in Fetch : g # f => fetch'[g] = fetch[g]
  BY <1>1, <1>2
<1>5. fetch' \in [Fetch -> FetchOf]
  BY <1>1, <1>2 DEF FetchOf
<1>6. HopInv'
  BY <1>3, <1>4 DEF GuardIInv, HopInv
<1> QED BY <1>3, <1>4, <1>5, <1>6 DEF FetchBusy

LEMMA DoneKeeps ==
  ASSUME GuardIInv, NEW f \in Fetch, NEW status \in Nat, Done(f, status)
  PROVE  GuardIInv'
<1>1. fetch' = Answer(f, status) /\ sessionsByIp' = Removed(fetch[f].ip, f) /\ UNCHANGED ws
  BY DEF Done
<1>2. /\ fetch' \in [Fetch -> FetchOf]
      /\ HopInv'
      /\ fetch'[f].at \notin FetchBusy /\ fetch'[f].ip = fetch[f].ip
      /\ \A g \in Fetch : g # f => fetch'[g] = fetch[g]
  BY <1>1, AnswerKeeps
<1>3. fetch[f].ip \in Addr
  BY DEF GuardIInv, GuardTypeOK
<1>4. \A a \in Addr : Holders(a)' = IF a = fetch[f].ip THEN Holders(a) \ {f} ELSE Holders(a)
  BY <1>1, <1>2, FetchMoves, GuardAssumption
<1>5. PlacesInv'
  BY <1>1, <1>3, <1>4, Leaves
<1>6. GuardTypeOK'
  BY <1>1, <1>2 DEF GuardIInv, GuardTypeOK, FetchOf, Removed
<1> QED BY <1>2, <1>5, <1>6 DEF GuardIInv

(* A fetch that goes on keeps its place.                                    *)
LEMMA GoesOn ==
  ASSUME GuardIInv, NEW f \in Fetch, fetch' \in [Fetch -> FetchOf],
         \A g \in Fetch : g # f => fetch'[g] = fetch[g],
         fetch[f].at \in FetchBusy, fetch'[f].at \in FetchBusy, fetch'[f].ip = fetch[f].ip,
         \/ fetch'[f].at = "checking" /\ fetch'[f].cleared = fetch'[f].hop
         \/ fetch'[f].at = "asking" /\ fetch'[f].cleared = fetch'[f].hop + 1,
         UNCHANGED <<sessionsByIp, ws>>
  PROVE  GuardIInv'
<1>1. \A a \in Addr : Holders(a)' = Holders(a)
  BY FetchMoves
<1>2. PlacesInv'
  BY <1>1, Stays
<1>3. GuardTypeOK'
  BY DEF GuardIInv, GuardTypeOK, FetchOf
<1>4. HopInv'
  BY DEF GuardIInv, HopInv
<1> QED BY <1>2, <1>3, <1>4 DEF GuardIInv

-----------------------------------------------------------------------------
LEMMA ConnectionKeeps ==
  ASSUME GuardIInv, NEW w \in Ws, NEW origin \in Origins, Connection(w, origin)
  PROVE  GuardIInv'
<1>1. ws \in [Ws -> [at : {"none", "open", "failed", "closed"}, ip : Addr]]
  BY DEF GuardIInv, GuardTypeOK
<1>2. UNCHANGED fetch /\ ws[w].at = "none" /\ ws[w].ip \in Addr
  BY <1>1 DEF Connection
<1>3. HopInv'
  BY <1>2 DEF GuardIInv, HopInv
<1>4. CASE IsAllowedOrigin(origin) /\ MayAdd(ws[w].ip)
  <2>1. ws' = [ws EXCEPT ![w].at = "open"] /\ sessionsByIp' = Added(ws[w].ip, w)
    BY <1>4 DEF Connection
  <2>2. /\ ws'[w].at = "open" /\ ws'[w].ip = ws[w].ip
        /\ \A v \in Ws : v # w => ws'[v] = ws[v]
    BY <1>1, <2>1
  <2>3. \A a \in Addr : Holders(a)' = IF a = ws[w].ip THEN Holders(a) \cup {w} ELSE Holders(a)
    BY <1>2, <2>2, WsMoves
  <2>4. PlacesInv'
    BY <1>2, <1>4, <2>1, <2>3, Enters
  <2>5. GuardTypeOK'
    BY <1>1, <1>2, <2>1 DEF GuardIInv, GuardTypeOK, Added
  <2> QED BY <1>3, <2>4, <2>5 DEF GuardIInv
<1>5. CASE ~(IsAllowedOrigin(origin) /\ MayAdd(ws[w].ip))
  <2>1. ws' = [ws EXCEPT ![w].at = "closed"] /\ UNCHANGED sessionsByIp
    BY <1>5 DEF Connection
  <2>2. /\ ws'[w].at = "closed" /\ ws'[w].ip = ws[w].ip
        /\ \A v \in Ws : v # w => ws'[v] = ws[v]
    BY <1>1, <2>1
  <2>3. \A a \in Addr : Holders(a)' = Holders(a)
    BY <1>2, <2>2, WsMoves
  <2>4. PlacesInv'
    BY <2>1, <2>3, Stays
  <2>5. GuardTypeOK'
    BY <1>1, <1>2, <2>1 DEF GuardIInv, GuardTypeOK
  <2> QED BY <1>3, <2>4, <2>5 DEF GuardIInv
<1> QED BY <1>4, <1>5

(* The second of 'error' and 'close' finds the place given up.              *)
LEMMA SessionCloseKeeps ==
  ASSUME GuardIInv, NEW w \in Ws, NEW lost \in BOOLEAN, SessionClose(w, lost)
  PROVE  GuardIInv'
<1>1. ws \in [Ws -> [at : {"none", "open", "failed", "closed"}, ip : Addr]]
  BY DEF GuardIInv, GuardTypeOK
<1>2. /\ ws' = [ws EXCEPT ![w].at = IF lost THEN "failed" ELSE "closed"]
      /\ sessionsByIp' = Removed(ws[w].ip, w) /\ UNCHANGED fetch
      /\ ws[w].ip \in Addr
  BY <1>1 DEF SessionClose
<1>3. /\ ws'[w].at # "open" /\ ws'[w].ip = ws[w].ip
      /\ \A v \in Ws : v # w => ws'[v] = ws[v]
  BY <1>1, <1>2
<1>4. \A a \in Addr : Holders(a)' = IF a = ws[w].ip THEN Holders(a) \ {w} ELSE Holders(a)
  BY <1>2, <1>3, WsMoves, GuardAssumption
<1>5. PlacesInv'
  BY <1>2, <1>4, Leaves
<1>6. GuardTypeOK'
  BY <1>1, <1>2 DEF GuardIInv, GuardTypeOK, Removed
<1>7. HopInv'
  BY <1>2 DEF GuardIInv, HopInv
<1> QED BY <1>5, <1>6, <1>7 DEF GuardIInv

LEMMA RequestKeeps ==
  ASSUME GuardIInv, NEW f \in Fetch, NEW origin \in Origins,
         NEW verb \in {"POST", "PUT", "OPTIONS"}, Request(f, origin, verb)
  PROVE  GuardIInv'
<1>1. fetch \in [Fetch -> FetchOf] /\ fetch[f].ip \in Addr
  BY DEF GuardIInv, GuardTypeOK, FetchOf
<1>2. UNCHANGED ws /\ fetch[f].at = "none"
  BY DEF Request
<1> DEFINE refusal == CASE origin = "none" \/ ~IsAllowedOrigin(origin) -> 403
                        [] verb = "OPTIONS" -> 204
                        [] verb = "PUT" -> 405
                        [] ~MayAdd(fetch[f].ip) -> 429
                        [] OTHER -> 0
<1>3. refusal \in Nat /\ (refusal = 0 => MayAdd(fetch[f].ip))
  OBVIOUS
<1>4. IF refusal # 0
      THEN fetch' = Answer(f, refusal) /\ UNCHANGED sessionsByIp
      ELSE /\ fetch' = [fetch EXCEPT ![f].at = "reading"]
           /\ sessionsByIp' = Added(fetch[f].ip, f)
  BY DEF Request
<1> HIDE DEF refusal
<1>5. CASE refusal # 0
  <2>1. /\ fetch' \in [Fetch -> FetchOf]
        /\ HopInv'
        /\ fetch'[f].at \notin FetchBusy /\ fetch'[f].ip = fetch[f].ip
        /\ \A g \in Fetch : g # f => fetch'[g] = fetch[g]
    BY <1>2, <1>3, <1>4, <1>5, AnswerKeeps
  <2>2. fetch[f].at \notin FetchBusy
    BY <1>2 DEF FetchBusy
  <2>3. \A a \in Addr : Holders(a)' = Holders(a)
    BY <1>2, <2>1, <2>2, FetchMoves
  <2>4. PlacesInv'
    BY <1>4, <1>5, <2>3, Stays
  <2>5. GuardTypeOK'
    BY <1>2, <1>4, <1>5, <2>1 DEF GuardIInv, GuardTypeOK, FetchOf
  <2> QED BY <2>1, <2>4, <2>5 DEF GuardIInv
<1>6. CASE refusal = 0
  <2>1. /\ fetch' = [fetch EXCEPT ![f].at = "reading"]
        /\ sessionsByIp' = Added(fetch[f].ip, f)
    BY <1>4, <1>6
  <2>2. /\ fetch'[f].at = "reading" /\ fetch'[f].ip = fetch[f].ip
        /\ \A g \in Fetch : g # f => fetch'[g] = fetch[g]
    BY <1>1, <2>1 DEF FetchOf
  <2>3. fetch' \in [Fetch -> FetchOf]
    BY <1>1, <2>1 DEF FetchOf, FetchBusy
  <2>4. \A a \in Addr : Holders(a)' = IF a = fetch[f].ip THEN Holders(a) \cup {f} ELSE Holders(a)
    BY <1>2, <2>2, FetchMoves DEF FetchBusy
  <2>5. PlacesInv'
    BY <1>1, <1>3, <1>6, <2>1, <2>4, Enters
  <2>6. sessionsByIp' \in [Addr -> SUBSET (Ws \cup Fetch)]
    BY <2>1 DEF GuardIInv, GuardTypeOK, Added
  <2>7. GuardTypeOK'
    BY <1>2, <2>3, <2>6 DEF GuardIInv, GuardTypeOK, FetchOf
  <2>8. HopInv'
    BY <1>1, <1>2, <2>1, <2>2 DEF GuardIInv, HopInv, FetchOf
  <2> QED BY <2>5, <2>7, <2>8 DEF GuardIInv
<1> QED BY <1>5, <1>6

(* Before an await and after it.                                            *)
LEMMA BodyReadKeeps ==
  ASSUME GuardIInv, NEW f \in Fetch, NEW method \in Methods, NEW body \in BOOLEAN,
         BodyRead(f, method, body)
  PROVE  GuardIInv'
<1>1. fetch \in [Fetch -> FetchOf]
  BY DEF GuardIInv, GuardTypeOK, FetchOf
<1>2. /\ fetch' = [fetch EXCEPT ![f].at = "checking", ![f].method = method,
                                ![f].body = body]
      /\ fetch[f].at = "reading" /\ UNCHANGED <<sessionsByIp, ws>>
  BY DEF BodyRead
<1>3. fetch' \in [Fetch -> FetchOf]
  <2>1. fetch[f] \in FetchOf
    BY <1>1
  <2>2. [fetch[f] EXCEPT !.at = "checking", !.method = method, !.body = body] \in FetchOf
    BY <2>1 DEF FetchOf, FetchBusy
  <2> QED BY <1>1, <1>2, <2>2
<1>4. /\ fetch'[f].at = "checking" /\ fetch'[f].ip = fetch[f].ip
      /\ fetch'[f].cleared = fetch'[f].hop
      /\ \A g \in Fetch : g # f => fetch'[g] = fetch[g]
  BY <1>1, <1>2 DEF FetchOf, GuardIInv, HopInv
<1>5. fetch[f].at \in FetchBusy /\ fetch'[f].at \in FetchBusy
  BY <1>2, <1>4 DEF FetchBusy
<1> QED BY <1>2, <1>3, <1>4, <1>5, GoesOn

(* The guard clears a fetch for the hop it is about to make; what it has    *)
(* been cleared for before is what the hops before it were cleared for.     *)
LEMMA CheckedKeeps ==
  ASSUME GuardIInv, NEW f \in Fetch, Checked(f)
  PROVE  GuardIInv'
<1>1. fetch \in [Fetch -> FetchOf]
  BY DEF GuardIInv, GuardTypeOK, FetchOf
<1>2. /\ fetch' = [fetch EXCEPT ![f].at = "asking", ![f].cleared = @ + 1]
      /\ fetch[f].at = "checking" /\ UNCHANGED <<sessionsByIp, ws>>
  BY DEF Checked
<1>3. fetch[f].cleared = fetch[f].hop
  BY <1>2 DEF GuardIInv, HopInv
<1>4. fetch[f].cleared + 1 \in 0 .. MaxRedirects + 1
  BY <1>1, <1>3, GuardAssumption DEF FetchOf
<1>5. fetch' \in [Fetch -> FetchOf]
  BY <1>1, <1>2, <1>4 DEF FetchOf, FetchBusy
<1>6. /\ fetch'[f].at = "asking" /\ fetch'[f].ip = fetch[f].ip
      /\ fetch'[f].cleared = fetch'[f].hop + 1
      /\ \A g \in Fetch : g # f => fetch'[g] = fetch[g]
  BY <1>1, <1>2, <1>3 DEF FetchOf
<1>7. fetch[f].at \in FetchBusy /\ fetch'[f].at \in FetchBusy
  BY <1>2, <1>6 DEF FetchBusy
<1> QED BY <1>2, <1>5, <1>6, <1>7, GoesOn

(* A redirect: one hop more than the guard has cleared, or the end.         *)
LEMMA RedirectedKeeps ==
  ASSUME GuardIInv, NEW f \in Fetch, NEW status \in {302, 303, 307},
         Redirected(f, status)
  PROVE  GuardIInv'
<1>1. fetch \in [Fetch -> FetchOf]
  BY DEF GuardIInv, GuardTypeOK, FetchOf
<1> DEFINE get == status = 303 \/ fetch[f].method = "POST"
           verb == IF get THEN "GET" ELSE fetch[f].method
           kept == fetch[f].body /\ ~get
<1>2. CASE LastHop(f)
  BY <1>2, DoneKeeps DEF Redirected
<1>3. CASE ~LastHop(f)
  <2>1. /\ fetch' = [fetch EXCEPT ![f].at = "checking", ![f].hop = @ + 1,
                                  ![f].method = verb, ![f].body = kept]
        /\ fetch[f].at = "asking" /\ UNCHANGED <<sessionsByIp, ws>>
    BY <1>3 DEF Redirected, NextHop
  <2>2. /\ fetch[f].hop + 1 \in 0 .. MaxRedirects
        /\ fetch[f].hop \in Nat /\ fetch[f].cleared = fetch[f].hop + 1
    BY <1>1, <1>3, <2>1, GuardAssumption DEF FetchOf, LastHop, GuardIInv, HopInv
  <2>3. verb \in Methods /\ kept \in BOOLEAN
    BY <1>1 DEF FetchOf, Methods
  <2> HIDE DEF verb, kept
  <2>4. fetch' \in [Fetch -> FetchOf]
    <3>1. fetch[f] \in FetchOf
      BY <1>1
    <3>2. [fetch[f] EXCEPT !.at = "checking", !.hop = @ + 1,
                           !.method = verb, !.body = kept] \in FetchOf
      BY <3>1, <2>2, <2>3 DEF FetchOf, FetchBusy
    <3> QED BY <1>1, <2>1, <3>2
  <2>5. /\ fetch'[f].at = "checking" /\ fetch'[f].ip = fetch[f].ip
        /\ fetch'[f].cleared = fetch'[f].hop
        /\ \A g \in Fetch : g # f => fetch'[g] = fetch[g]
    BY <1>1, <2>1, <2>2 DEF FetchOf
  <2>6. fetch[f].at \in FetchBusy /\ fetch'[f].at \in FetchBusy
    BY <2>1, <2>5 DEF FetchBusy
  <2> QED BY <2>1, <2>4, <2>5, <2>6, GoesOn
<1> QED BY <1>2, <1>3

LEMMA GuardStepKeeps == ASSUME GuardIInv, [GuardNext]_guardVars PROVE GuardIInv'
<1>1. CASE UNCHANGED guardVars
  BY <1>1 DEF guardVars, GuardIInv, GuardTypeOK, PlacesInv, Holders, HopInv
<1>2. ASSUME NEW w \in Ws, NEW origin \in Origins, Connection(w, origin) PROVE GuardIInv'
  BY <1>2, ConnectionKeeps
<1>3. ASSUME NEW w \in Ws, NEW lost \in BOOLEAN, SessionClose(w, lost) PROVE GuardIInv'
  BY <1>3, SessionCloseKeeps
<1>4. ASSUME NEW f \in Fetch,
             BodyFails(f) \/ Blocked(f) \/ HopFails(f) \/ HopAnswers(f)
      PROVE  GuardIInv'
  BY <1>4, DoneKeeps DEF BodyFails, Blocked, HopFails, HopAnswers
<1>5. ASSUME NEW f \in Fetch, Checked(f) PROVE GuardIInv'
  BY <1>5, CheckedKeeps
<1>6. ASSUME NEW f \in Fetch, NEW origin \in Origins,
             NEW verb \in {"POST", "PUT", "OPTIONS"}, Request(f, origin, verb)
      PROVE  GuardIInv'
  BY <1>6, RequestKeeps
<1>7. ASSUME NEW f \in Fetch, NEW method \in Methods, NEW body \in BOOLEAN,
             BodyRead(f, method, body)
      PROVE  GuardIInv'
  BY <1>7, BodyReadKeeps
<1>8. ASSUME NEW f \in Fetch, NEW status \in {302, 303, 307}, Redirected(f, status)
      PROVE  GuardIInv'
  BY <1>8, RedirectedKeeps
<1> QED BY <1>1, <1>2, <1>3, <1>4, <1>5, <1>6, <1>7, <1>8 DEF GuardNext

LEMMA GuardIInvHolds == GuardSpec => []GuardIInv
<1>1. GuardInit => GuardIInv
  BY GuardInitHolds
<1>2. GuardIInv /\ [GuardNext]_guardVars => GuardIInv'
  BY GuardStepKeeps
<1> QED BY <1>1, <1>2, PTL DEF GuardSpec

(* The state has its type, with any number of clients.                      *)
THEOREM GuardIsTyped == GuardSpec => []GuardTypeOK
<1>1. GuardIInv => GuardTypeOK
  BY DEF GuardIInv
<1> QED BY <1>1, GuardIInvHolds, PTL

(* The places of an address are those of its open sessions and of its       *)
(* fetches in progress, on whichever path either ends, and never more than  *)
(* the limit: for any number of clients and any limit.                      *)
THEOREM BudgetHolds == GuardSpec => []BudgetIsExact
<1>1. GuardIInv => BudgetIsExact
  BY DEF GuardIInv, PlacesInv, Holders, BudgetIsExact
<1> QED BY <1>1, GuardIInvHolds, PTL

(* Every hop of a fetch has been let through by the guard, however many     *)
(* redirects there are.                                                     *)
THEOREM HopsAreChecked == GuardSpec => []EveryHopIsChecked
<1>1. GuardIInv => EveryHopIsChecked
  BY DEF GuardIInv, HopInv, EveryHopIsChecked
<1> QED BY <1>1, GuardIInvHolds, PTL

(* Both: what the run checks of the guard.                                  *)
THEOREM GuardHolds == GuardSpec => []GuardIsKept
<1>1. BudgetIsExact /\ EveryHopIsChecked => GuardIsKept
  BY DEF GuardIsKept
<1> QED BY <1>1, BudgetHolds, HopsAreChecked, PTL

-----------------------------------------------------------------------------
(* The servers in the page: HttpServer.                                     *)

Relays == 1 .. MaxRelay
Used == {w \in Relays : relay[w].of # NoServer}

Servers ==
  [port : Port \cup {NoPort}, listening : BOOLEAN, relay : 0 .. MaxRelay, tcp : BOOLEAN]
Sockets == [of : Server \cup {NoServer}, open : BOOLEAN]
Requests ==
  [at : {"none", "queued", "open", "ended", "over"}, of : Server \cup {NoServer},
   via : 0 .. MaxRelay, headSent : BOOLEAN, answers : 0 .. 3, to : 0 .. MaxRelay]

(* A server listens on a port. Its WebSocket was opened for it, and is the  *)
(* only one as long as it has listened once.                                *)
ServerOf(s) ==
  /\ server[s].listening => server[s].port # NoPort
  /\ server[s].relay # NoRelay => relay[server[s].relay].of = s
  /\ server[s].port = NoPort => \A w \in Relays : relay[w].of # s
  /\ s \notin again.servers =>
       \A v, w \in Relays : relay[v].of = s /\ relay[w].of = s => v = w

(* A request is answered when it is over, at most once, and came by a       *)
(* WebSocket of its server.                                                 *)
RequestOf(r) ==
  /\ request[r].at = "none" => request[r].via = NoRelay
  /\ request[r].at # "none" => request[r].of \in Server
  /\ request[r].via # NoRelay => relay[request[r].via].of = request[r].of
  /\ request[r].answers > 0 => request[r].at = "over"

(* The WebSockets are numbered in the order in which they are opened.       *)
RelaysInOrder ==
  \A w \in Relays : /\ w < NewRelay <=> relay[w].of # NoServer
                    /\ relay[w].open => relay[w].of # NoServer

ServerIInv ==
  /\ ServerTypeOK /\ RelaysInOrder /\ RoutesAreTrue
  /\ \A s \in Server : ServerOf(s)
  /\ \A r \in Ids : RequestOf(r)

-----------------------------------------------------------------------------
(* The number of the next WebSocket.                                        *)

(* There are finitely many WebSockets in use.                               *)
LEMMA UsedIsFinite ==
  /\ IsFiniteSet(Used) /\ Cardinality(Used) \in Nat
  /\ NewRelay = Cardinality(Used) + 1
<1>1. IsFiniteSet(Relays)
  BY FS_Interval, ServerAssumption DEF Relays
<1>2. IsFiniteSet(Used)
  BY <1>1, FS_Subset DEF Used
<1>3. NewRelay = Cardinality(Used) + 1
  BY DEF NewRelay, Used, Relays
<1> QED BY <1>2, <1>3, FS_CardinalityType

(* The first one has the number 1.                                          *)
LEMMA FirstRelay ==
  ASSUME \A w \in Relays : relay[w].of = NoServer
  PROVE  NewRelay = 1
<1>1. Used = {}
  BY DEF Used
<1> QED BY <1>1, UsedIsFinite, FS_EmptySet

(* As long as nobody opens one the number stays.                            *)
LEMMA SameRelay ==
  ASSUME \A w \in Relays : relay'[w].of = relay[w].of
  PROVE  NewRelay' = NewRelay
BY DEF NewRelay, Relays

(* It goes up by one with each that is opened.                              *)
LEMMA NextRelay ==
  ASSUME NewRelay \in Relays, relay[NewRelay].of = NoServer,
         relay'[NewRelay].of # NoServer,
         \A w \in Relays \ {NewRelay} : relay'[w].of = relay[w].of
  PROVE  NewRelay' = NewRelay + 1
<1> DEFINE k == NewRelay
           More == {w \in Relays : relay'[w].of # NoServer}
<1>1. More = Used \cup {k} /\ k \notin Used
  BY DEF Used
<1>2. Cardinality(More) = Cardinality(Used) + 1
  BY <1>1, UsedIsFinite, FS_AddElement
<1>3. NewRelay' = Cardinality(More) + 1
  BY DEF NewRelay, Relays
<1> QED BY <1>2, <1>3, UsedIsFinite

-----------------------------------------------------------------------------
(* What the operators give.                                                 *)

(* The WebSockets have their type, also when one is closed.                 *)
LEMMA SocketsStay ==
  ASSUME ServerIInv
  PROVE  /\ relay \in [Relays -> Sockets]
         /\ \A w \in Relays :
              relay[w] \in Sockets /\ [relay[w] EXCEPT !.open = FALSE] \in Sockets
<1>1. relay \in [Relays -> Sockets]
  BY DEF ServerIInv, ServerTypeOK, Sockets, Relays
<1>2. \A q \in Sockets : [q EXCEPT !.open = FALSE] \in Sockets
  BY DEF Sockets
<1>3. \A w \in Relays : relay[w] \in Sockets
  BY <1>1
<1> QED BY <1>1, <1>2, <1>3

(* An answer changes nothing but what is said of it; it goes to the         *)
(* WebSocket of a server that has one.                                      *)
LEMMA AnsweredParts ==
  ASSUME NEW q \in Requests, q.of \in Server, q.answers = 0, ServerTypeOK
  PROVE  /\ Answered(q) \in Requests
         /\ Answered(q).at = q.at /\ Answered(q).of = q.of /\ Answered(q).via = q.via
         /\ Answered(q).answers \in {0, 1}
         /\ Answered(q).answers = 1 =>
              /\ q.via # NoRelay /\ server[q.of].relay # NoRelay
              /\ Answered(q).to = server[q.of].relay
<1> DEFINE w == server[q.of].relay
<1>1. w \in 0 .. MaxRelay
  BY DEF ServerTypeOK
<1>2. [q EXCEPT !.answers = @ + 1, !.to = w] \in Requests
  <2>1. q.answers + 1 \in 0 .. 3
    OBVIOUS
  <2> QED BY <1>1, <2>1 DEF Requests
<1>3. CASE Answered(q) = q
  BY <1>3 DEF Requests
<1>4. CASE /\ Answered(q) = [q EXCEPT !.answers = @ + 1, !.to = w]
           /\ q.via # NoRelay /\ w # NoRelay
  BY <1>2, <1>4 DEF Requests
<1> QED BY <1>3, <1>4 DEF Answered

-----------------------------------------------------------------------------
(* The initial states.                                                      *)

LEMMA ServerInitIsFine == ServerInit => ServerIInv
<1> SUFFICES ASSUME ServerInit PROVE ServerIInv
  OBVIOUS
<1>1. ServerTypeOK
  BY ServerAssumption DEF ServerInit, ServerTypeOK, NoPort, NoRelay
<1>2. \A w \in Relays : relay[w] = [of |-> NoServer, open |-> FALSE]
  BY DEF ServerInit, Relays
<1>3. NewRelay = 1
  BY <1>2, FirstRelay
<1>4. RelaysInOrder
  BY <1>2, <1>3 DEF RelaysInOrder, Relays
<1>5. RoutesAreTrue
  BY DEF ServerInit, RoutesAreTrue, RegistryIsTrue, AnswersGoHome
<1>6. ASSUME NEW s \in Server PROVE ServerOf(s)
  <2>1. server[s].relay = NoRelay /\ ~server[s].listening
    BY DEF ServerInit
  <2>2. \A w \in Relays : relay[w].of # s
    BY <1>2, ServerAssumption
  <2> QED BY <2>1, <2>2 DEF ServerOf
<1>7. \A r \in Ids : RequestOf(r)
  BY DEF ServerInit, RequestOf
<1> QED BY <1>1, <1>4, <1>5, <1>6, <1>7 DEF ServerIInv

-----------------------------------------------------------------------------
(* Listening and closing.                                                   *)

(* Listen opens at most one WebSocket, the next one, and registers.         *)
LEMMA ListenParts ==
  ASSUME ServerIInv, NEW s \in Server, NEW p \in Port,
         NEW bridged \in BOOLEAN, NEW relayed \in BOOLEAN,
         Listen(s, p, bridged, relayed)
  PROVE  /\ NewRelay \in Nat \ {0}
         /\ relayed => NewRelay \in Relays /\ relay[NewRelay].of = NoServer
         /\ \A w \in Relays :
              /\ relay'[w].of = IF relayed /\ w = NewRelay THEN s ELSE relay[w].of
              /\ relay'[w].open => relay[w].open \/ (relayed /\ w = NewRelay)
         /\ \A t \in Server \ {s} : server'[t] = server[t]
         /\ server'[s].port = p /\ server'[s].listening
         /\ server'[s].relay = IF relayed THEN NewRelay ELSE NoRelay
<1>1. NewRelay \in Nat \ {0}
  BY UsedIsFinite
<1>2. ASSUME relayed PROVE NewRelay \in Relays /\ relay[NewRelay].of = NoServer
  <2>1. NewRelay \in Relays
    BY <1>1, <1>2, ServerAssumption DEF Listen, Relays
  <2> QED BY <1>1, <2>1 DEF ServerIInv, RelaysInOrder
<1>3. \A w \in Relays :
        /\ relay'[w].of = IF relayed /\ w = NewRelay THEN s ELSE relay[w].of
        /\ relay'[w].open => relay[w].open \/ (relayed /\ w = NewRelay)
  <2> SUFFICES ASSUME NEW w \in Relays
      PROVE /\ relay'[w].of = IF relayed /\ w = NewRelay THEN s ELSE relay[w].of
            /\ relay'[w].open => relay[w].open \/ (relayed /\ w = NewRelay)
    OBVIOUS
  <2>1. relay[w] \in Sockets
    BY DEF ServerIInv, ServerTypeOK, Sockets, Relays
  <2>2. relay'[w] = IF relayed /\ w = NewRelay THEN [of |-> s, open |-> TRUE]
                    ELSE IF w = server[s].relay THEN [relay[w] EXCEPT !.open = FALSE]
                    ELSE relay[w]
    BY DEF Listen, Relays
  <2> QED BY <2>1, <2>2 DEF Sockets
<1>4. /\ \A t \in Server \ {s} : server'[t] = server[t]
      /\ server'[s].port = p /\ server'[s].listening
      /\ server'[s].relay = IF relayed THEN NewRelay ELSE NoRelay
  BY DEF Listen, ServerIInv, ServerTypeOK
<1> QED BY <1>1, <1>2, <1>3, <1>4

LEMMA ListenKeepsTypes ==
  ASSUME ServerIInv, NEW s \in Server, NEW p \in Port,
         NEW bridged \in BOOLEAN, NEW relayed \in BOOLEAN,
         Listen(s, p, bridged, relayed)
  PROVE  ServerTypeOK'
<1>1. registry' \in [Port -> Server \cup {NoServer}]
  BY DEF Listen, ServerIInv, ServerTypeOK
<1>2. (IF relayed THEN NewRelay ELSE NoRelay) \in 0 .. MaxRelay
  BY ListenParts, ServerAssumption DEF Relays, NoRelay
<1>3. server' \in [Server -> Servers]
  <2>1. server[s].tcp \in BOOLEAN
    BY DEF ServerIInv, ServerTypeOK
  <2>2. [port |-> p, listening |-> TRUE, tcp |-> bridged \/ server[s].tcp,
         relay |-> IF relayed THEN NewRelay ELSE NoRelay] \in Servers
    BY <1>2, <2>1 DEF Servers
  <2>3. server \in [Server -> Servers]
    BY DEF ServerIInv, ServerTypeOK, Servers
  <2> QED BY <2>2, <2>3 DEF Listen
<1>4. relay' \in [Relays -> Sockets]
  <2>1. \A w \in Relays : relay[w] \in Sockets /\ [relay[w] EXCEPT !.open = FALSE] \in Sockets
    BY SocketsStay
  <2>2. [of |-> s, open |-> TRUE] \in Sockets
    BY DEF Sockets
  <2> QED BY <2>1, <2>2 DEF Listen, Relays
<1>5. request' \in [Ids -> Requests]
  BY DEF Listen, ServerIInv, ServerTypeOK, Requests
<1>6. again' \in [servers : SUBSET Server, ports : SUBSET Port]
  BY DEF Listen, ServerIInv, ServerTypeOK
<1> QED BY <1>1, <1>3, <1>4, <1>5, <1>6 DEF ServerTypeOK, Servers, Sockets, Requests, Relays

LEMMA ListenKeepsRoutes ==
  ASSUME ServerIInv, NEW s \in Server, NEW p \in Port,
         NEW bridged \in BOOLEAN, NEW relayed \in BOOLEAN,
         Listen(s, p, bridged, relayed)
  PROVE  RoutesAreTrue'
<1>1. /\ \A t \in Server \ {s} : server'[t] = server[t]
      /\ server'[s].port = p /\ server'[s].listening
  BY ListenParts
<1>2. registry'[p] = s /\ \A o \in Port \ {p} : registry'[o] = registry[o]
  BY DEF Listen, ServerIInv, ServerTypeOK
<1>3. /\ again.servers \subseteq again'.servers /\ again.ports \subseteq again'.ports
      /\ server[s].port # NoPort => s \in again'.servers
      /\ registry[p] # NoServer => p \in again'.ports
  BY DEF Listen
<1>4. ASSUME NEW o \in Port, registry'[o] # NoServer, registry'[o] \notin again'.servers
      PROVE  server'[registry'[o]].listening /\ server'[registry'[o]].port = o
  <2>1. CASE o = p
    BY <1>1, <1>2, <2>1
  <2>2. CASE o # p
    <3>1. registry[o] = registry'[o] /\ registry[o] \in Server
      BY <1>2, <1>4, <2>2 DEF ServerIInv, ServerTypeOK
    <3>2. server[registry[o]].listening /\ server[registry[o]].port = o
      BY <1>3, <1>4, <3>1 DEF ServerIInv, RoutesAreTrue, RegistryIsTrue
    <3>3. registry[o] # s
      BY <1>3, <1>4, <3>1, <3>2, ServerAssumption
    <3> QED BY <1>1, <3>1, <3>2, <3>3
  <2> QED BY <2>1, <2>2
<1>5. ASSUME NEW t \in Server, server'[t].listening, server'[t].port \notin again'.ports
      PROVE  registry'[server'[t].port] = t
  <2>1. CASE t = s
    BY <1>1, <1>2, <2>1
  <2>2. CASE t # s
    <3>1. server[t].listening /\ server[t].port = server'[t].port
      BY <1>1, <1>5, <2>2
    <3>2. server[t].port \in Port
      BY <3>1 DEF ServerIInv, ServerTypeOK, ServerOf
    <3>3. registry[server[t].port] = t
      BY <1>3, <1>5, <3>1 DEF ServerIInv, RoutesAreTrue, RegistryIsTrue
    <3>4. server[t].port # p
      BY <1>3, <1>5, <3>1, <3>3, ServerAssumption
    <3> QED BY <1>2, <3>1, <3>2, <3>3, <3>4
  <2> QED BY <2>1, <2>2
<1>6. AnswersGoHome'
  BY <1>3 DEF Listen, ServerIInv, RoutesAreTrue, AnswersGoHome
<1> QED BY <1>4, <1>5, <1>6 DEF RoutesAreTrue, RegistryIsTrue

LEMMA ListenKeepsOrder ==
  ASSUME ServerIInv, NEW s \in Server, NEW p \in Port,
         NEW bridged \in BOOLEAN, NEW relayed \in BOOLEAN,
         Listen(s, p, bridged, relayed)
  PROVE  RelaysInOrder'
<1> DEFINE k == NewRelay
<1>1. /\ k \in Nat \ {0}
      /\ relayed => k \in Relays /\ relay[k].of = NoServer
      /\ \A w \in Relays :
           /\ relay'[w].of = IF relayed /\ w = k THEN s ELSE relay[w].of
           /\ relay'[w].open => relay[w].open \/ (relayed /\ w = k)
  BY ListenParts
<1>2. \A w \in Relays : /\ w < k <=> relay[w].of # NoServer
                        /\ relay[w].open => relay[w].of # NoServer
  BY DEF ServerIInv, RelaysInOrder
<1>3. NewRelay' = IF relayed THEN k + 1 ELSE k
  <2>1. CASE relayed
    BY <1>1, <2>1, NextRelay, ServerAssumption
  <2>2. CASE ~relayed
    BY <1>1, <2>2, SameRelay
  <2> QED BY <2>1, <2>2
<1>4. \A w \in Relays : w \in Int
  BY DEF Relays
<1> HIDE DEF k
<1>5. ASSUME NEW w \in Relays
      PROVE  /\ w < NewRelay' <=> relay'[w].of # NoServer
             /\ relay'[w].open => relay'[w].of # NoServer
  BY <1>1, <1>2, <1>3, <1>4, ServerAssumption
<1> QED BY <1>5 DEF RelaysInOrder, Relays

LEMMA ListenKeepsServers ==
  ASSUME ServerIInv, NEW s \in Server, NEW p \in Port,
         NEW bridged \in BOOLEAN, NEW relayed \in BOOLEAN,
         Listen(s, p, bridged, relayed), NEW t \in Server
  PROVE  ServerOf(t)'
<1> DEFINE k == NewRelay
<1>1. /\ k \in Nat \ {0}
      /\ relayed => k \in Relays /\ relay[k].of = NoServer
      /\ \A w \in Relays : relay'[w].of = IF relayed /\ w = k THEN s ELSE relay[w].of
      /\ \A u \in Server \ {s} : server'[u] = server[u]
      /\ server'[s].port = p /\ server'[s].listening
      /\ server'[s].relay = IF relayed THEN k ELSE NoRelay
  BY ListenParts
<1>2. again'.servers =
        again.servers \cup (IF server[s].port # NoPort THEN {s} ELSE {})
  BY DEF Listen
<1>3. ServerOf(t) /\ ServerOf(s)
  BY DEF ServerIInv
<1>4. server[t].relay # NoRelay => server[t].relay \in Relays
  BY DEF ServerIInv, ServerTypeOK, Relays, NoRelay
<1> HIDE DEF k
<1>5. CASE t = s
  BY <1>1, <1>2, <1>3, <1>5, ServerAssumption DEF ServerOf, Relays
<1>6. CASE t # s
  <2>1. \A w \in Relays : relay'[w].of = t <=> relay[w].of = t
    BY <1>1, <1>6, ServerAssumption
  <2>2. t \in again'.servers <=> t \in again.servers
    BY <1>2, <1>6
  <2>3. server'[t] = server[t]
    BY <1>1, <1>6
  <2> QED BY <1>3, <1>4, <2>1, <2>2, <2>3 DEF ServerOf, Relays
<1> QED BY <1>5, <1>6

LEMMA ListenKeepsRequests ==
  ASSUME ServerIInv, NEW s \in Server, NEW p \in Port,
         NEW bridged \in BOOLEAN, NEW relayed \in BOOLEAN,
         Listen(s, p, bridged, relayed), NEW r \in Ids
  PROVE  RequestOf(r)'
<1>1. request' = request
  BY DEF Listen
<1>2. RequestOf(r)
  BY DEF ServerIInv
<1>3. request[r].via # NoRelay => request[r].via \in Relays
  BY DEF ServerIInv, ServerTypeOK, Relays, NoRelay
<1>4. request[r].via # NoRelay =>
        relay'[request[r].via].of = relay[request[r].via].of
  BY <1>2, <1>3, ListenParts, ServerAssumption DEF RequestOf
<1> QED BY <1>1, <1>2, <1>4 DEF RequestOf

LEMMA ListenKeepsIt ==
  ASSUME ServerIInv, NEW s \in Server, NEW p \in Port,
         NEW bridged \in BOOLEAN, NEW relayed \in BOOLEAN,
         Listen(s, p, bridged, relayed)
  PROVE  ServerIInv'
<1>1. ASSUME NEW t \in Server PROVE ServerOf(t)'
  BY ListenKeepsServers
<1>2. ASSUME NEW r \in Ids PROVE RequestOf(r)'
  BY ListenKeepsRequests
<1>3. ServerTypeOK' /\ RelaysInOrder' /\ RoutesAreTrue'
  BY ListenKeepsTypes, ListenKeepsOrder, ListenKeepsRoutes
<1> QED BY <1>1, <1>2, <1>3 DEF ServerIInv, Ids

(* Closing takes the server's port out of the registry, whoever has it.     *)
LEMMA CloseKeepsIt ==
  ASSUME ServerIInv, NEW s \in Server, Close(s)
  PROVE  ServerIInv'
<1> DEFINE mine == server[s].port
<1>1. mine \in Port
  BY DEF Close, ServerIInv, ServerTypeOK
<1>2. /\ registry'[mine] = NoServer
      /\ \A o \in Port \ {mine} : registry'[o] = registry[o]
  BY <1>1 DEF Close, Unregistered, ServerIInv, ServerTypeOK
<1>3. /\ server'[s].port = mine /\ ~server'[s].listening
      /\ server'[s].relay = server[s].relay
      /\ \A t \in Server \ {s} : server'[t] = server[t]
  BY DEF Close, ServerIInv, ServerTypeOK
<1>4. /\ again'.servers = again.servers /\ again.ports \subseteq again'.ports
      /\ ~server[s].listening => mine \in again'.ports
  BY DEF Close, ServerIInv, ServerTypeOK
<1>5. relay' = relay /\ request' = request /\ NewRelay' = NewRelay
  BY DEF Close, NewRelay
<1>6. ServerTypeOK'
  <2>1. registry' \in [Port -> Server \cup {NoServer}]
    BY DEF Close, Unregistered, ServerIInv, ServerTypeOK
  <2>2. server' \in [Server -> Servers]
    <3>1. server \in [Server -> Servers]
      BY DEF ServerIInv, ServerTypeOK, Servers
    <3>2. \A q \in Servers : [[q EXCEPT !.listening = FALSE] EXCEPT !.tcp = FALSE] \in Servers
      BY DEF Servers
    <3> QED BY <3>1, <3>2 DEF Close
  <2>3. again' \in [servers : SUBSET Server, ports : SUBSET Port]
    BY <1>1 DEF Close, ServerIInv, ServerTypeOK
  <2> QED BY <1>5, <2>1, <2>2, <2>3 DEF ServerIInv, ServerTypeOK, Servers
<1>7. RelaysInOrder'
  BY <1>5 DEF ServerIInv, RelaysInOrder
<1>8. RoutesAreTrue'
  <2>1. ASSUME NEW o \in Port, registry'[o] # NoServer, registry'[o] \notin again'.servers
        PROVE  server'[registry'[o]].listening /\ server'[registry'[o]].port = o
    <3>1. o # mine /\ registry'[o] = registry[o] /\ registry[o] \in Server
      BY <1>2, <2>1 DEF ServerIInv, ServerTypeOK
    <3>2. server[registry[o]].listening /\ server[registry[o]].port = o
      BY <1>4, <2>1, <3>1 DEF ServerIInv, RoutesAreTrue, RegistryIsTrue
    <3> QED BY <1>3, <3>1, <3>2
  <2>2. ASSUME NEW t \in Server, server'[t].listening, server'[t].port \notin again'.ports
        PROVE  registry'[server'[t].port] = t
    <3>1. t # s /\ server'[t] = server[t]
      BY <1>3, <2>2
    <3>2. server[t].port \in Port
      BY <2>2, <3>1 DEF ServerIInv, ServerTypeOK, ServerOf
    <3>3. registry[server[t].port] = t
      BY <1>4, <2>2, <3>1 DEF ServerIInv, RoutesAreTrue, RegistryIsTrue
    <3>4. server[t].port # mine
      BY <1>4, <2>2, <3>1, <3>3 DEF ServerIInv, RoutesAreTrue, RegistryIsTrue
    <3> QED BY <1>2, <3>1, <3>2, <3>3, <3>4
  <2>3. AnswersGoHome'
    BY <1>4, <1>5 DEF ServerIInv, RoutesAreTrue, AnswersGoHome
  <2> QED BY <2>1, <2>2, <2>3 DEF RoutesAreTrue, RegistryIsTrue
<1>9. ASSUME NEW t \in Server PROVE ServerOf(t)'
  <2>1. ServerOf(t)
    BY DEF ServerIInv
  <2>2. /\ server'[t].port = server[t].port /\ server'[t].relay = server[t].relay
        /\ server'[t].listening => server[t].listening
    BY <1>3
  <2> QED BY <1>4, <1>5, <2>1, <2>2 DEF ServerOf
<1>10. \A r \in Ids : RequestOf(r)'
  BY <1>5 DEF ServerIInv, RequestOf
<1> QED BY <1>6, <1>7, <1>8, <1>9, <1>10 DEF ServerIInv

(* A WebSocket that closes is forgotten.                                    *)
LEMMA RelayClosesKeepsIt ==
  ASSUME ServerIInv, NEW v \in Relays, RelayCloses(v)
  PROVE  ServerIInv'
<1>1. registry' = registry /\ request' = request /\ again' = again
  BY DEF RelayCloses
<1>2. \A w \in Relays : relay'[w].of = relay[w].of /\ (relay'[w].open => relay[w].open)
  BY DEF RelayCloses, ServerIInv, ServerTypeOK, Relays
<1>3. \A t \in Server : /\ server'[t].port = server[t].port
                        /\ server'[t].listening = server[t].listening
                        /\ server'[t].relay \in {server[t].relay, NoRelay}
  BY DEF RelayCloses, ServerIInv, ServerTypeOK
<1>4. NewRelay' = NewRelay
  BY <1>2, SameRelay
<1>5. ServerTypeOK'
  <2>1. server' \in [Server -> Servers]
    <3>1. server \in [Server -> Servers]
      BY DEF ServerIInv, ServerTypeOK, Servers
    <3>2. \A q \in Servers : [q EXCEPT !.relay = NoRelay] \in Servers
      BY ServerAssumption DEF Servers, NoRelay
    <3> QED BY <3>1, <3>2 DEF RelayCloses
  <2>2. relay' \in [Relays -> Sockets]
    BY SocketsStay DEF RelayCloses
  <2> QED BY <1>1, <2>1, <2>2 DEF ServerIInv, ServerTypeOK, Servers, Sockets, Relays
<1>6. RelaysInOrder'
  BY <1>2, <1>4 DEF ServerIInv, RelaysInOrder, Relays
<1>7. RoutesAreTrue'
  <2>1. RegistryIsTrue'
    BY <1>1, <1>3 DEF ServerIInv, ServerTypeOK, RoutesAreTrue, RegistryIsTrue
  <2> QED BY <1>1, <2>1 DEF ServerIInv, RoutesAreTrue, AnswersGoHome
<1>8. ASSUME NEW t \in Server PROVE ServerOf(t)'
  <2>1. ServerOf(t)
    BY DEF ServerIInv
  <2>2. server[t].relay # NoRelay => server[t].relay \in Relays
    BY DEF ServerIInv, ServerTypeOK, Relays, NoRelay
  <2> QED BY <1>1, <1>2, <1>3, <2>1, <2>2 DEF ServerOf, Relays
<1>9. ASSUME NEW r \in Ids PROVE RequestOf(r)'
  <2>1. RequestOf(r)
    BY DEF ServerIInv
  <2>2. request[r].via # NoRelay => request[r].via \in Relays
    BY DEF ServerIInv, ServerTypeOK, Relays, NoRelay
  <2> QED BY <1>1, <1>2, <2>1, <2>2 DEF RequestOf
<1> QED BY <1>5, <1>6, <1>7, <1>8, <1>9 DEF ServerIInv, Ids

-----------------------------------------------------------------------------
(* Requests: the other variables stay, and one request changes.             *)

(* What a request may become.                                               *)
MayBe(q) ==
  /\ q \in Requests /\ q.at # "none" /\ q.of \in Server
  /\ q.via # NoRelay => relay[q.via].of = q.of
  /\ q.answers > 0 => /\ q.at = "over" /\ q.answers = 1
                      /\ q.of \notin again.servers => q.to = q.via

OnlyRequest(r, q) ==
  /\ request' = [request EXCEPT ![r] = q]
  /\ UNCHANGED <<registry, server, relay, again>>

(* What a step that changes one request has to show.                        *)
LEMMA RequestStep ==
  ASSUME ServerIInv, NEW r \in Ids, NEW q, MayBe(q), OnlyRequest(r, q)
  PROVE  ServerIInv'
<1> USE DEF MayBe, OnlyRequest
<1>1. request'[r] = q /\ \A i \in Ids \ {r} : request'[i] = request[i]
  BY DEF ServerIInv, ServerTypeOK
<1>2. ServerTypeOK'
  BY DEF ServerIInv, ServerTypeOK, Requests
<1>3. RelaysInOrder'
  BY DEF ServerIInv, RelaysInOrder, NewRelay
<1>4. RoutesAreTrue'
  <2>1. RegistryIsTrue'
    BY DEF ServerIInv, RoutesAreTrue, RegistryIsTrue
  <2>2. AnswersGoHome'
    BY <1>1 DEF ServerIInv, RoutesAreTrue, AnswersGoHome, Ids
  <2> QED BY <2>1, <2>2 DEF RoutesAreTrue
<1>5. \A t \in Server : ServerOf(t)'
  BY DEF ServerIInv, ServerOf
<1>6. ASSUME NEW i \in Ids PROVE RequestOf(i)'
  <2>1. RequestOf(i)
    BY DEF ServerIInv
  <2> QED BY <1>1, <2>1 DEF RequestOf
<1> QED BY <1>2, <1>3, <1>4, <1>5, <1>6 DEF ServerIInv, Ids

(* A request that is answered came by the WebSocket its server still has,   *)
(* unless the server has listened again.                                    *)
LEMMA AnswerGoesHome ==
  ASSUME ServerIInv, NEW r \in Ids, request[r].at \in {"queued", "ended"}
  PROVE  LET a == Answered(request[r])
         IN  /\ [a EXCEPT !.at = "over"] \in Requests /\ a.of \in Server
             /\ a.via # NoRelay => relay[a.via].of = a.of
             /\ a.answers > 0 => /\ a.answers = 1
                                 /\ a.of \notin again.servers => a.to = a.via
<1> DEFINE q == request[r]
           a == Answered(q)
<1>1. q \in Requests
  BY DEF ServerIInv, ServerTypeOK, Requests
<1>2. /\ q.of \in Server /\ ~(q.answers > 0)
      /\ q.via # NoRelay => relay[q.via].of = q.of
  BY DEF ServerIInv, RequestOf
<1>3. q.answers = 0
  BY <1>1, <1>2 DEF Requests
<1>4. ServerTypeOK
  BY DEF ServerIInv
<1>5. /\ a \in Requests /\ a.of = q.of /\ a.via = q.via /\ a.answers \in {0, 1}
      /\ a.answers = 1 => /\ q.via # NoRelay /\ server[q.of].relay # NoRelay
                          /\ a.to = server[q.of].relay
  BY <1>1, <1>2, <1>3, <1>4, AnsweredParts
<1>6. server[q.of].relay # NoRelay => server[q.of].relay \in Relays
  BY <1>2, <1>4 DEF ServerTypeOK, Relays, NoRelay
<1>7. q.via # NoRelay => q.via \in Relays
  BY <1>1 DEF Requests, Relays, NoRelay
<1>8. ServerOf(q.of)
  BY <1>2 DEF ServerIInv
<1> HIDE DEF q, a
<1>9. a.answers = 1 /\ a.of \notin again.servers => a.to = a.via
  BY <1>2, <1>5, <1>6, <1>7, <1>8 DEF ServerOf
<1>10. [a EXCEPT !.at = "over"] \in Requests
  BY <1>5 DEF Requests
<1>11. a.answers > 0 => a.answers = 1
  BY <1>5
<1> QED BY <1>2, <1>5, <1>9, <1>10, <1>11 DEF q, a

LEMMA FromRelayKeepsIt ==
  ASSUME ServerIInv, NEW r \in Ids, NEW w \in Relays, FromRelay(r, w)
  PROVE  ServerIInv'
<1> DEFINE q == request[r]
           n == [[[q EXCEPT !.at = "queued"] EXCEPT !.of = relay[w].of] EXCEPT !.via = w]
<1>1. q \in Requests /\ relay[w].of \in Server \cup {NoServer} /\ w \in 0 .. MaxRelay
  BY DEF ServerIInv, ServerTypeOK, Requests, Relays
<1>2. relay[w].of \in Server
  BY <1>1 DEF FromRelay, ServerIInv, RelaysInOrder
<1>3. q.at = "none" /\ OnlyRequest(r, n)
  BY DEF FromRelay, New, OnlyRequest
<1>4. q.answers = 0
  BY <1>1, <1>3 DEF ServerIInv, RequestOf, Requests
<1>5. n \in Requests
  BY <1>1 DEF Requests
<1>6. n.at = "queued" /\ n.of = relay[w].of /\ n.via = w /\ n.answers = 0
  BY <1>1, <1>4 DEF Requests
<1> HIDE DEF n
<1>7. MayBe(n)
  BY <1>2, <1>5, <1>6 DEF MayBe
<1> QED BY <1>3, <1>7, RequestStep

LEMMA FromTcpKeepsIt ==
  ASSUME ServerIInv, NEW r \in Ids, NEW s \in Server, FromTcp(r, s)
  PROVE  ServerIInv'
<1> DEFINE q == request[r]
           n == [[q EXCEPT !.at = "open"] EXCEPT !.of = s]
<1>1. q \in Requests
  BY DEF ServerIInv, ServerTypeOK, Requests
<1>2. q.at = "none" /\ OnlyRequest(r, n)
  BY DEF FromTcp, New, OnlyRequest
<1>3. q.answers = 0 /\ q.via = NoRelay
  BY <1>1, <1>2 DEF ServerIInv, RequestOf, Requests
<1>4. n \in Requests /\ n.at = "open" /\ n.of = s /\ n.via = NoRelay /\ n.answers = 0
  BY <1>1, <1>3 DEF Requests
<1> HIDE DEF n
<1>5. MayBe(n)
  BY <1>4 DEF MayBe
<1> QED BY <1>2, <1>5, RequestStep

(* The request goes on, and nobody is answered yet.                         *)
LEMMA OnKeepsIt ==
  ASSUME ServerIInv, NEW r \in Ids, NEW n \in Requests, n.at # "none",
         request[r].at \in {"queued", "open"}, OnlyRequest(r, n),
         n.of = request[r].of, n.via = request[r].via, n.answers = request[r].answers
  PROVE  ServerIInv'
<1>1. request[r] \in Requests /\ RequestOf(r)
  BY DEF ServerIInv, ServerTypeOK, Requests
<1>2. request[r].answers = 0
  BY <1>1 DEF RequestOf, Requests
<1>3. MayBe(n)
  BY <1>1, <1>2 DEF RequestOf, MayBe
<1> QED BY <1>3, RequestStep

LEMMA OverKeepsIt ==
  ASSUME ServerIInv, NEW r \in Ids, request[r].at \in {"queued", "ended"},
         OnlyRequest(r, [Answered(request[r]) EXCEPT !.at = "over"])
  PROVE  ServerIInv'
<1> DEFINE a == Answered(request[r])
           n == [a EXCEPT !.at = "over"]
<1>1. /\ n \in Requests /\ a.of \in Server
      /\ a.via # NoRelay => relay[a.via].of = a.of
      /\ a.answers > 0 => /\ a.answers = 1
                          /\ a.of \notin again.servers => a.to = a.via
  BY AnswerGoesHome
<1>2. a \in Requests
  <2>1. request[r] \in Requests /\ RequestOf(r) /\ ServerTypeOK
    BY DEF ServerIInv, ServerTypeOK, Requests
  <2>2. request[r].of \in Server /\ request[r].answers = 0
    BY <2>1 DEF RequestOf, Requests
  <2> QED BY <2>1, <2>2, AnsweredParts
<1> HIDE DEF a
<1>3. /\ n.at = "over" /\ n.of = a.of /\ n.via = a.via /\ n.answers = a.answers
      /\ n.to = a.to
  BY <1>2 DEF Requests
<1>4. OnlyRequest(r, n)
  BY DEF a
<1> HIDE DEF n
<1>5. MayBe(n)
  BY <1>1, <1>3 DEF MayBe
<1> QED BY <1>4, <1>5, RequestStep

LEMMA HandleKeepsIt ==
  ASSUME ServerIInv, NEW r \in Ids, NEW throws \in BOOLEAN, Handle(r, throws)
  PROVE  ServerIInv'
<1>1. CASE throws
  BY <1>1, OverKeepsIt DEF Handle, Handled, OnlyRequest
<1>2. CASE ~throws
  <2> DEFINE n == [request[r] EXCEPT !.at = "open"]
  <2>1. request[r] \in Requests
    BY DEF ServerIInv, ServerTypeOK, Requests
  <2>2. /\ n \in Requests /\ n.at = "open" /\ n.of = request[r].of
        /\ n.via = request[r].via /\ n.answers = request[r].answers
    BY <2>1 DEF Requests
  <2>3. OnlyRequest(r, n) /\ request[r].at = "queued"
    BY <1>2 DEF Handle, Handled, OnlyRequest
  <2> HIDE DEF n
  <2> QED BY <2>2, <2>3, OnKeepsIt
<1> QED BY <1>1, <1>2

LEMMA WriteHeadKeepsIt ==
  ASSUME ServerIInv, NEW r \in Ids, WriteHead(r)
  PROVE  ServerIInv'
<1> DEFINE n == [request[r] EXCEPT !.headSent = TRUE]
<1>1. request[r] \in Requests /\ request[r].at = "open" /\ OnlyRequest(r, n)
  BY DEF ServerIInv, ServerTypeOK, Requests, WriteHead, OnlyRequest
<1>2. /\ n \in Requests /\ n.at = "open" /\ n.of = request[r].of
      /\ n.via = request[r].via /\ n.answers = request[r].answers
  BY <1>1 DEF Requests
<1> HIDE DEF n
<1> QED BY <1>1, <1>2, OnKeepsIt

LEMMA EndResponseKeepsIt ==
  ASSUME ServerIInv, NEW r \in Ids, EndResponse(r)
  PROVE  ServerIInv'
<1> DEFINE n == [[request[r] EXCEPT !.at = "ended"] EXCEPT !.headSent = TRUE]
<1>1. request[r] \in Requests /\ request[r].at = "open" /\ OnlyRequest(r, n)
  BY DEF ServerIInv, ServerTypeOK, Requests, EndResponse, OnlyRequest
<1>2. /\ n \in Requests /\ n.at = "ended" /\ n.of = request[r].of
      /\ n.via = request[r].via /\ n.answers = request[r].answers
  BY <1>1 DEF Requests
<1> HIDE DEF n
<1> QED BY <1>1, <1>2, OnKeepsIt

-----------------------------------------------------------------------------
LEMMA ServerStepIsFine == ServerIInv /\ [ServerNext]_serverVars => ServerIInv'
<1> SUFFICES ASSUME ServerIInv, [ServerNext]_serverVars PROVE ServerIInv'
  OBVIOUS
<1>1. CASE \E s \in Server : Close(s)
  BY <1>1, CloseKeepsIt
<1>2. CASE \E s \in Server, p \in Port, bridged, relayed \in BOOLEAN :
             Listen(s, p, bridged, relayed)
  BY <1>2, ListenKeepsIt
<1>3. CASE \E w \in 1 .. MaxRelay : RelayCloses(w)
  BY <1>3, RelayClosesKeepsIt DEF Relays
<1>4. CASE \E r \in Ids : WriteHead(r) \/ EndResponse(r)
  BY <1>4, WriteHeadKeepsIt, EndResponseKeepsIt
<1>5. CASE \E r \in Ids : Finish(r)
  BY <1>5, OverKeepsIt DEF Finish, OnlyRequest
<1>6. CASE \E r \in Ids, w \in 1 .. MaxRelay : FromRelay(r, w)
  BY <1>6, FromRelayKeepsIt DEF Relays
<1>7. CASE \E r \in Ids, s \in Server : FromTcp(r, s)
  BY <1>7, FromTcpKeepsIt
<1>8. CASE \E r \in Ids, throws \in BOOLEAN : Handle(r, throws)
  BY <1>8, HandleKeepsIt
<1>9. CASE UNCHANGED serverVars
  <2>1. UNCHANGED <<registry, server, relay, request, again>>
    BY <1>9 DEF serverVars
  <2>2. ServerTypeOK'
    BY <2>1 DEF ServerIInv, ServerTypeOK
  <2>3. RelaysInOrder'
    BY <2>1 DEF ServerIInv, RelaysInOrder, NewRelay
  <2>4. RoutesAreTrue'
    BY <2>1 DEF ServerIInv, RoutesAreTrue, RegistryIsTrue, AnswersGoHome
  <2>5. \A s \in Server : ServerOf(s)'
    BY <2>1 DEF ServerIInv, ServerOf
  <2>6. \A r \in Ids : RequestOf(r)'
    BY <2>1 DEF ServerIInv, RequestOf
  <2> QED BY <2>2, <2>3, <2>4, <2>5, <2>6 DEF ServerIInv, Ids
<1> QED BY <1>1, <1>2, <1>3, <1>4, <1>5, <1>6, <1>7, <1>8, <1>9 DEF ServerNext

LEMMA ServerIInvHolds == ServerSpec => []ServerIInv
BY ServerInitIsFine, ServerStepIsFine, PTL DEF ServerSpec

(* The state has its type: at most three answers of a request are counted,  *)
(* and there is at most one.                                                *)
THEOREM ServersAreTyped == ServerSpec => []ServerTypeOK
<1>1. ServerIInv => ServerTypeOK
  BY DEF ServerIInv
<1> QED BY <1>1, ServerIInvHolds, PTL

(* Redirects and answers find their way (FakeServer, _localHttpServers,     *)
(* _sendRelayHttpResponse): a server is found on the port it listens on,    *)
(* and a request is answered once, by the WebSocket it came by, with the    *)
(* exceptions RegistryIsTrue and AnswersGoHome name.                        *)
THEOREM RoutesStayTrue == ServerSpec => []RoutesAreTrue
<1>1. ServerIInv => RoutesAreTrue
  BY DEF ServerIInv
<1> QED BY <1>1, ServerIInvHolds, PTL

-----------------------------------------------------------------------------
(* TLS sockets: TlsSocket.                                                  *)

(* The stages in which a socket has neither a session nor a connection.     *)
Early == {"new", "loading"}

(* What is known of one socket: where it is,                                *)
StageOf(s) ==
  /\ stage[s] \in Early => session[s] = 0 /\ tcp[s] = "none"
  /\ tcp[s] = "connecting" => stage[s] = "tcp"
  /\ stage[s] = "new" => ~dead[s]
  /\ stage[s] = "loading" /\ dead[s] => early[s]
  /\ dead[s] /\ session[s] # 0 => failed[s] \/ early[s]

(* what it has read: the pieces in the ring buffer are those that are not   *)
(* in a record yet,                                                         *)
ReadOf(s) ==
  /\ ring[s] + 2 * Len(got[s]) = arrived[s]
  /\ \A i \in DOMAIN got[s] : got[s][i] = i

(* and what it has written: nothing before the handshake is over.           *)
WrittenOf(s) ==
  /\ stage[s] # "open" => sent[s] = << >> /\ "secureConnect" \notin micro[s]
  /\ write[s] = "parked" => sent[s] = << >>
  /\ write[s] = "parked" => asked[s] > 0
  /\ \A i \in DOMAIN sent[s] : sent[s][i] <= asked[s]
  /\ \A i, j \in DOMAIN sent[s] : i < j => sent[s][i] < sent[s][j]

TlsIInv ==
  /\ TlsTypeOK /\ SessionsAreApart
  /\ \A s \in Sock : StageOf(s) /\ ReadOf(s) /\ WrittenOf(s)

-----------------------------------------------------------------------------
(* What a step leaves alone.                                                *)

Same(t) ==
  /\ stage'[t] = stage[t] /\ session'[t] = session[t] /\ dead'[t] = dead[t]
  /\ failed'[t] = failed[t] /\ early'[t] = early[t] /\ tcp'[t] = tcp[t]
  /\ ring'[t] = ring[t] /\ arrived'[t] = arrived[t] /\ got'[t] = got[t]
  /\ write'[t] = write[t] /\ sent'[t] = sent[t] /\ asked'[t] = asked[t]
  /\ micro'[t] = micro[t]

(* A step of one socket has to be looked at for that socket only.           *)
LEMMA OneSocket ==
  ASSUME TlsIInv, NEW s \in Sock, TlsTypeOK', SessionsAreApart',
         StageOf(s)', ReadOf(s)', WrittenOf(s)', \A t \in Sock \ {s} : Same(t)
  PROVE  TlsIInv'
<1>1. ASSUME NEW t \in Sock PROVE StageOf(t)' /\ ReadOf(t)' /\ WrittenOf(t)'
  <2>1. CASE t = s
    BY <2>1
  <2>2. CASE t # s
    <3>1. StageOf(t) /\ ReadOf(t) /\ WrittenOf(t)
      BY DEF TlsIInv
    <3>2. Same(t)
      BY <2>2
    <3>3. StageOf(t)'
      BY <3>1, <3>2 DEF StageOf, Same
    <3>4. ReadOf(t)'
      BY <3>1, <3>2 DEF ReadOf, Same
    <3>5. WrittenOf(t)'
      BY <3>1, <3>2 DEF WrittenOf, Same
    <3> QED BY <3>3, <3>4, <3>5
  <2> QED BY <2>1, <2>2
<1> QED BY <1>1 DEF TlsIInv

(* Most steps leave what was read and what was written alone.               *)
LEMMA ReadStays ==
  ASSUME TlsIInv, NEW s \in Sock, UNCHANGED dataVars
  PROVE  ReadOf(s)'
BY DEF TlsIInv, ReadOf, dataVars

LEMMA WrittenStays ==
  ASSUME TlsIInv, NEW s \in Sock, UNCHANGED writeVars,
         stage'[s] = stage[s] \/ stage'[s] = "open" \/ stage[s] # "open",
         micro'[s] \subseteq micro[s] \cup {"close"}
  PROVE  WrittenOf(s)'
BY DEF TlsIInv, WrittenOf, writeVars

(* The parts of the state that have a type of their own.                    *)
DataOK ==
  /\ ring \in [Sock -> 0 .. 2 * MaxRecord]
  /\ arrived \in [Sock -> 0 .. 2 * MaxRecord]
  /\ got \in [Sock -> Seq(1 .. MaxRecord)]

WriteOK ==
  /\ write \in [Sock -> {"none", "parked", "told"}]
  /\ sent \in [Sock -> Seq(1 .. MaxRecord)]
  /\ asked \in [Sock -> 0 .. MaxRecord]
  /\ ended \in [Sock -> BOOLEAN]

SocketOK ==
  /\ slots \in [Slot -> Sock \cup {NoSock}]
  /\ stage \in [Sock -> {"new", "loading", "tcp", "handshake", "open"}]
  /\ session \in [Sock -> 0 .. MaxSession]
  /\ dead \in [Sock -> BOOLEAN] /\ failed \in [Sock -> BOOLEAN]
  /\ early \in [Sock -> BOOLEAN]
  /\ tcp \in [Sock -> {"none", "connecting", "open", "closed"}]
  /\ micro \in [Sock -> SUBSET {"secureConnect", "close"}]

LEMMA TypeParts == TlsTypeOK <=> SocketOK /\ DataOK /\ WriteOK
BY DEF TlsTypeOK, SocketOK, DataOK, WriteOK

LEMMA DataTypeStays ==
  ASSUME TlsIInv, UNCHANGED dataVars
  PROVE  DataOK'
BY DEF TlsIInv, TlsTypeOK, DataOK, dataVars

LEMMA WriteTypeStays ==
  ASSUME TlsIInv, UNCHANGED writeVars
  PROVE  WriteOK'
BY DEF TlsIInv, TlsTypeOK, WriteOK, writeVars

LEMMA TypeStays ==
  ASSUME SocketOK', DataOK', WriteOK'
  PROVE  TlsTypeOK'
BY DEF TlsTypeOK, SocketOK, DataOK, WriteOK

LEMMA SessionsStay ==
  ASSUME TlsIInv, UNCHANGED <<slots, session>>
  PROVE  SessionsAreApart'
BY DEF TlsIInv, SessionsAreApart

-----------------------------------------------------------------------------
(* The initial states.                                                      *)

LEMMA TlsInitIsFine == TlsInit => TlsIInv
<1> SUFFICES ASSUME TlsInit PROVE TlsIInv
  OBVIOUS
<1>1. TlsTypeOK
  BY SocketAssumption DEF TlsInit, TlsTypeOK
<1>2. SessionsAreApart
  BY DEF TlsInit, SessionsAreApart
<1>3. ASSUME NEW s \in Sock PROVE StageOf(s) /\ ReadOf(s) /\ WrittenOf(s)
  <2>1. StageOf(s)
    BY DEF TlsInit, StageOf
  <2>2. ReadOf(s)
    BY DEF TlsInit, ReadOf
  <2>3. WrittenOf(s)
    BY DEF TlsInit, WrittenOf
  <2> QED BY <2>1, <2>2, <2>3
<1> QED BY <1>1, <1>2, <1>3 DEF TlsIInv

-----------------------------------------------------------------------------
(* The steps that leave the data and the sessions alone.                    *)

(* What such a step of the socket s has to show.                            *)
LEMMA QuietStep ==
  ASSUME TlsIInv, NEW s \in Sock, UNCHANGED <<slots, session, dataVars, writeVars>>,
         SocketOK', StageOf(s)',
         stage'[s] = stage[s] \/ stage'[s] = "open" \/ stage[s] # "open",
         micro'[s] \subseteq micro[s] \cup {"close"},
         \A t \in Sock \ {s} :
           /\ stage'[t] = stage[t] /\ dead'[t] = dead[t] /\ failed'[t] = failed[t]
           /\ early'[t] = early[t] /\ tcp'[t] = tcp[t] /\ micro'[t] = micro[t]
  PROVE  TlsIInv'
<1>1. TlsTypeOK'
  BY DataTypeStays, WriteTypeStays, TypeStays
<1>2. SessionsAreApart'
  BY SessionsStay
<1>3. ReadOf(s)' /\ WrittenOf(s)'
  BY ReadStays, WrittenStays
<1>4. \A t \in Sock \ {s} : Same(t)
  BY DEF Same, dataVars, writeVars
<1> QED BY <1>1, <1>2, <1>3, <1>4, OneSocket

LEMMA ConnectKeepsIt ==
  ASSUME TlsIInv, NEW s \in Sock, Connect(s)
  PROVE  TlsIInv'
<1> USE DEF Connect, EmitError
<1>1. SocketOK /\ StageOf(s)
  BY TypeParts DEF TlsIInv
<1>2. UNCHANGED <<slots, session, dataVars, writeVars>>
  BY DEF socketVars
<1>3. SocketOK'
  BY <1>1 DEF SocketOK, socketVars
<1>4. StageOf(s)'
  BY <1>1 DEF SocketOK, StageOf, Early, socketVars
<1>5. /\ stage'[s] = stage[s] \/ stage[s] # "open"
      /\ micro'[s] \subseteq micro[s] \cup {"close"}
  BY <1>1 DEF SocketOK, StageOf, socketVars
<1>6. \A t \in Sock \ {s} :
        /\ stage'[t] = stage[t] /\ dead'[t] = dead[t] /\ failed'[t] = failed[t]
        /\ early'[t] = early[t] /\ tcp'[t] = tcp[t] /\ micro'[t] = micro[t]
  BY <1>1 DEF SocketOK, socketVars
<1> QED BY <1>2, <1>3, <1>4, <1>5, <1>6, QuietStep

LEMMA TcpConnectsKeepsIt ==
  ASSUME TlsIInv, NEW s \in Sock, TcpConnects(s)
  PROVE  TlsIInv'
<1> USE DEF TcpConnects, EmitError
<1>1. SocketOK /\ StageOf(s)
  BY TypeParts DEF TlsIInv
<1>2. UNCHANGED <<slots, session, dataVars, writeVars>>
  BY DEF socketVars
<1>3. SocketOK'
  BY <1>1 DEF SocketOK, socketVars
<1>4. StageOf(s)'
  BY <1>1 DEF SocketOK, StageOf, Early, socketVars
<1>5. /\ stage'[s] = stage[s] \/ stage[s] # "open"
      /\ micro'[s] \subseteq micro[s] \cup {"close"}
  BY <1>1 DEF SocketOK, StageOf, socketVars
<1>6. \A t \in Sock \ {s} :
        /\ stage'[t] = stage[t] /\ dead'[t] = dead[t] /\ failed'[t] = failed[t]
        /\ early'[t] = early[t] /\ tcp'[t] = tcp[t] /\ micro'[t] = micro[t]
  BY <1>1 DEF SocketOK, socketVars
<1> QED BY <1>2, <1>3, <1>4, <1>5, <1>6, QuietStep

LEMMA TlsFailsKeepsIt ==
  ASSUME TlsIInv, NEW s \in Sock, TlsFails(s)
  PROVE  TlsIInv'
<1> USE DEF TlsFails, EmitError
<1>1. SocketOK /\ StageOf(s)
  BY TypeParts DEF TlsIInv
<1>2. UNCHANGED <<slots, session, dataVars, writeVars>>
  BY DEF socketVars
<1>3. SocketOK'
  BY <1>1 DEF SocketOK, socketVars
<1>4. StageOf(s)'
  BY <1>1 DEF SocketOK, StageOf, Early, socketVars
<1>5. /\ stage'[s] = stage[s] \/ stage[s] # "open"
      /\ micro'[s] \subseteq micro[s] \cup {"close"}
  BY <1>1 DEF SocketOK, StageOf, socketVars
<1>6. \A t \in Sock \ {s} :
        /\ stage'[t] = stage[t] /\ dead'[t] = dead[t] /\ failed'[t] = failed[t]
        /\ early'[t] = early[t] /\ tcp'[t] = tcp[t] /\ micro'[t] = micro[t]
  BY <1>1 DEF SocketOK, socketVars
<1> QED BY <1>2, <1>3, <1>4, <1>5, <1>6, QuietStep

LEMMA TcpFailsKeepsIt ==
  ASSUME TlsIInv, NEW s \in Sock, TcpFails(s)
  PROVE  TlsIInv'
<1> USE DEF TcpFails, EmitError
<1>1. SocketOK /\ StageOf(s)
  BY TypeParts DEF TlsIInv
<1>2. UNCHANGED <<slots, session, dataVars, writeVars>>
  BY DEF socketVars
<1>3. SocketOK'
  <2>1. tcp' \in [Sock -> {"none", "connecting", "open", "closed"}]
    BY <1>1 DEF SocketOK
  <2>2. /\ dead' \in [Sock -> BOOLEAN] /\ failed' \in [Sock -> BOOLEAN]
        /\ micro' \in [Sock -> SUBSET {"secureConnect", "close"}]
    <3>1. CASE UNCHANGED <<dead, failed, micro>>
      BY <1>1, <3>1 DEF SocketOK
    <3>2. CASE EmitError(s)
      BY <1>1, <3>2 DEF SocketOK
    <3> QED BY <3>1, <3>2
  <2> QED BY <1>1, <2>1, <2>2 DEF SocketOK
<1>4. StageOf(s)'
  BY <1>1 DEF SocketOK, StageOf, Early, socketVars
<1>5. /\ stage'[s] = stage[s] \/ stage[s] # "open"
      /\ micro'[s] \subseteq micro[s] \cup {"close"}
  BY <1>1 DEF SocketOK, StageOf, socketVars
<1>6. \A t \in Sock \ {s} :
        /\ stage'[t] = stage[t] /\ dead'[t] = dead[t] /\ failed'[t] = failed[t]
        /\ early'[t] = early[t] /\ tcp'[t] = tcp[t] /\ micro'[t] = micro[t]
  BY <1>1 DEF SocketOK, socketVars
<1> QED BY <1>2, <1>3, <1>4, <1>5, <1>6, QuietStep

LEMMA TcpClosesKeepsIt ==
  ASSUME TlsIInv, NEW s \in Sock, TcpCloses(s)
  PROVE  TlsIInv'
<1> USE DEF TcpCloses, EmitError
<1>1. SocketOK /\ StageOf(s)
  BY TypeParts DEF TlsIInv
<1>2. UNCHANGED <<slots, session, dataVars, writeVars>>
  BY DEF socketVars
<1>3. SocketOK'
  BY <1>1 DEF SocketOK, socketVars
<1>4. StageOf(s)'
  BY <1>1 DEF SocketOK, StageOf, Early, socketVars
<1>5. /\ stage'[s] = stage[s] \/ stage[s] # "open"
      /\ micro'[s] \subseteq micro[s] \cup {"close"}
  BY <1>1 DEF SocketOK, StageOf, socketVars
<1>6. \A t \in Sock \ {s} :
        /\ stage'[t] = stage[t] /\ dead'[t] = dead[t] /\ failed'[t] = failed[t]
        /\ early'[t] = early[t] /\ tcp'[t] = tcp[t] /\ micro'[t] = micro[t]
  BY <1>1 DEF SocketOK, socketVars
<1> QED BY <1>2, <1>3, <1>4, <1>5, <1>6, QuietStep

LEMMA CloseToldKeepsIt ==
  ASSUME TlsIInv, NEW s \in Sock, CloseTold(s)
  PROVE  TlsIInv'
<1> USE DEF CloseTold, EmitError
<1>1. SocketOK /\ StageOf(s)
  BY TypeParts DEF TlsIInv
<1>2. UNCHANGED <<slots, session, dataVars, writeVars>>
  BY DEF socketVars
<1>3. SocketOK'
  BY <1>1 DEF SocketOK, socketVars
<1>4. StageOf(s)'
  BY <1>1 DEF SocketOK, StageOf, Early, socketVars
<1>5. /\ stage'[s] = stage[s] \/ stage[s] # "open"
      /\ micro'[s] \subseteq micro[s] \cup {"close"}
  BY <1>1 DEF SocketOK, StageOf, socketVars
<1>6. \A t \in Sock \ {s} :
        /\ stage'[t] = stage[t] /\ dead'[t] = dead[t] /\ failed'[t] = failed[t]
        /\ early'[t] = early[t] /\ tcp'[t] = tcp[t] /\ micro'[t] = micro[t]
  BY <1>1 DEF SocketOK, socketVars
<1> QED BY <1>2, <1>3, <1>4, <1>5, <1>6, QuietStep

-----------------------------------------------------------------------------
(* The steps that take a session and give it back.                          *)

(* A set of numbers that is not empty has a least member.                   *)
LEMMA LeastMember ==
  ASSUME NEW T, T \subseteq Nat, T # {}
  PROVE  \E x \in T : \A y \in T : x <= y
<1> DEFINE Less == OpToRel(<, Nat)
<1>1. PICK x \in T : \A y \in T : ~(<<y, x>> \in Less)
  BY NatLessThanWellFounded, WFMin
<1>2. ASSUME NEW y \in T PROVE x <= y
  <2>1. x \in Nat /\ y \in Nat
    OBVIOUS
  <2>2. y < x => <<y, x>> \in Less
    BY <2>1 DEF OpToRel
  <2> HIDE DEF Less
  <2> QED BY <1>1, <2>1, <2>2
<1> QED BY <1>2

LEMMA StartKeepsIt ==
  ASSUME TlsIInv, NEW s \in Sock, Start(s)
  PROVE  TlsIInv'
<1> DEFINE free == {i \in Slot : slots[i] = NoSock}
           id == CHOOSE i \in free : \A j \in free : i <= j
<1>1. SocketOK /\ StageOf(s) /\ SessionsAreApart
  BY TypeParts DEF TlsIInv
<1>2. /\ stage[s] = "loading" /\ session[s] = 0 /\ tcp[s] = "none"
      /\ dead[s] => early[s]
  BY <1>1 DEF Start, StageOf, Early
<1>3. UNCHANGED <<dataVars, writeVars>>
  BY DEF Start
<1>4. CASE free = {}
  <2> USE DEF EmitError
  <2>1. /\ UNCHANGED <<slots, session, early, tcp>> /\ EmitError(s)
        /\ stage' = [stage EXCEPT ![s] = "tcp"]
    BY <1>4 DEF Start
  <2> HIDE DEF free
  <2>2. SocketOK'
    BY <1>1, <2>1 DEF SocketOK
  <2>3. StageOf(s)'
    BY <1>1, <1>2, <2>1 DEF SocketOK, StageOf, Early
  <2>4. micro'[s] \subseteq micro[s] \cup {"close"}
    BY <1>1, <2>1 DEF SocketOK
  <2>5. \A t \in Sock \ {s} :
          /\ stage'[t] = stage[t] /\ dead'[t] = dead[t] /\ failed'[t] = failed[t]
          /\ early'[t] = early[t] /\ tcp'[t] = tcp[t] /\ micro'[t] = micro[t]
    BY <1>1, <2>1 DEF SocketOK
  <2> QED BY <1>2, <1>3, <2>1, <2>2, <2>3, <2>4, <2>5, QuietStep
<1>5. CASE free # {}
  <2>1. free \subseteq Nat
    BY DEF Slot
  <2>2. id \in free
    BY <1>5, <2>1, LeastMember
  <2>3. /\ slots' = [slots EXCEPT ![id] = s]
        /\ session' = [session EXCEPT ![s] = id]
        /\ tcp' = [tcp EXCEPT ![s] = "connecting"]
        /\ stage' = [stage EXCEPT ![s] = "tcp"]
        /\ UNCHANGED <<dead, failed, early, micro>>
    BY <1>5 DEF Start
  <2> HIDE DEF id
  <2>4. id \in Slot /\ slots[id] = NoSock /\ id # 0 /\ id \in 0 .. MaxSession
    <3>1. id \in Slot /\ slots[id] = NoSock
      BY <2>2
    <3> QED BY <3>1, SocketAssumption DEF Slot
  <2> HIDE DEF free
  <2>5. SocketOK'
    BY <1>1, <2>3, <2>4 DEF SocketOK
  <2>6. TlsTypeOK'
    BY <1>3, <2>5, DataTypeStays, WriteTypeStays, TypeStays
  <2>7. SessionsAreApart'
    <3>1. ASSUME NEW t \in Sock, session'[t] # 0
          PROVE  slots'[session'[t]] = t
      <4>1. CASE t = s
        BY <1>1, <2>3, <2>4, <4>1 DEF SocketOK
      <4>2. CASE t # s
        <5>1. session'[t] = session[t] /\ slots[session[t]] = t
          BY <1>1, <2>3, <3>1, <4>2 DEF SocketOK, SessionsAreApart
        <5>2. session[t] # id
          BY <2>4, <5>1, SocketAssumption
        <5>3. session[t] \in Slot
          BY <1>1, <3>1, <5>1 DEF SocketOK, Slot
        <5> QED BY <1>1, <2>3, <5>1, <5>2, <5>3 DEF SocketOK
      <4> QED BY <4>1, <4>2
    <3>2. ASSUME NEW i \in Slot, slots'[i] # NoSock
          PROVE  session'[slots'[i]] = i
      <4>1. CASE i = id
        BY <1>1, <2>3, <4>1 DEF SocketOK
      <4>2. CASE i # id
        <5>1. slots'[i] = slots[i] /\ slots[i] \in Sock /\ session[slots[i]] = i
          BY <1>1, <2>3, <3>2, <4>2 DEF SocketOK, SessionsAreApart
        <5>2. slots[i] # s
          BY <1>2, <5>1 DEF Slot
        <5> QED BY <1>1, <2>3, <5>1, <5>2 DEF SocketOK
      <4> QED BY <4>1, <4>2
    <3> QED BY <3>1, <3>2 DEF SessionsAreApart
  <2>8. StageOf(s)'
    BY <1>1, <1>2, <2>3 DEF SocketOK, StageOf, Early
  <2>9. ReadOf(s)' /\ WrittenOf(s)'
    BY <1>2, <1>3, <2>3, ReadStays, WrittenStays
  <2>10. \A t \in Sock \ {s} : Same(t)
    BY <1>1, <1>3, <2>3 DEF SocketOK, Same, dataVars, writeVars
  <2> QED BY <2>6, <2>7, <2>8, <2>9, <2>10, OneSocket
<1> QED BY <1>4, <1>5

LEMMA DestroyKeepsIt ==
  ASSUME TlsIInv, NEW s \in Sock, Destroy(s)
  PROVE  TlsIInv'
<1>1. SocketOK /\ StageOf(s) /\ SessionsAreApart
  BY TypeParts DEF TlsIInv
<1>2. /\ UNCHANGED <<dataVars, writeVars, stage, failed>>
      /\ stage[s] # "new" /\ ~dead[s]
      /\ dead' = [dead EXCEPT ![s] = TRUE]
      /\ early' = [early EXCEPT ![s] = session[s] = 0]
      /\ tcp' = [tcp EXCEPT ![s] = IF @ = "none" THEN @ ELSE "closed"]
      /\ micro' = [micro EXCEPT ![s] = @ \cup {"close"}]
  BY DEF Destroy
<1>3. session' = [session EXCEPT ![s] = 0]
  BY <1>1 DEF Destroy, SocketOK
<1>4. slots' = IF session[s] = 0 THEN slots ELSE [slots EXCEPT ![session[s]] = NoSock]
  BY DEF Destroy
<1>5. SocketOK'
  <2>1. slots' \in [Slot -> Sock \cup {NoSock}]
    BY <1>1, <1>4 DEF SocketOK
  <2>2. session' \in [Sock -> 0 .. MaxSession]
    BY <1>1, <1>3, SocketAssumption DEF SocketOK
  <2>3. tcp[s] \in {"none", "connecting", "open", "closed"}
    BY <1>1 DEF SocketOK
  <2> QED BY <1>1, <1>2, <2>1, <2>2, <2>3 DEF SocketOK
<1>6. TlsTypeOK'
  BY <1>2, <1>5, DataTypeStays, WriteTypeStays, TypeStays
<1>7. SessionsAreApart'
  <2>1. ASSUME NEW t \in Sock, session'[t] # 0
        PROVE  slots'[session'[t]] = t
    <3>1. t # s /\ session'[t] = session[t]
      BY <1>1, <1>3, <2>1 DEF SocketOK
    <3>2. slots[session[t]] = t /\ session[t] \in Slot
      BY <1>1, <2>1, <3>1 DEF SocketOK, SessionsAreApart, Slot
    <3>3. session[s] # 0 => session[s] # session[t]
      BY <1>1, <3>1, <3>2 DEF SessionsAreApart
    <3> QED BY <1>1, <1>4, <3>1, <3>2, <3>3 DEF SocketOK
  <2>2. ASSUME NEW i \in Slot, slots'[i] # NoSock
        PROVE  session'[slots'[i]] = i
    <3>1. slots'[i] = slots[i] /\ (session[s] # 0 => i # session[s])
      BY <1>1, <1>4, <2>2 DEF SocketOK
    <3>2. slots[i] \in Sock /\ session[slots[i]] = i /\ i # 0
      <4>1. slots[i] \in Sock \cup {NoSock} /\ slots[i] # NoSock
        BY <1>1, <2>2, <3>1 DEF SocketOK
      <4>2. i # 0
        BY DEF Slot
      <4> QED BY <1>1, <4>1, <4>2 DEF SessionsAreApart
    <3>3. slots[i] # s
      BY <3>1, <3>2
    <3> QED BY <1>1, <1>3, <3>1, <3>2, <3>3 DEF SocketOK
  <2> QED BY <2>1, <2>2 DEF SessionsAreApart
<1>8. StageOf(s)'
  BY <1>1, <1>2, <1>3 DEF SocketOK, StageOf, Early
<1>9. ReadOf(s)' /\ WrittenOf(s)'
  <2>1. micro'[s] \subseteq micro[s] \cup {"close"}
    BY <1>1, <1>2 DEF SocketOK
  <2> QED BY <1>2, <2>1, ReadStays, WrittenStays
<1>10. \A t \in Sock \ {s} : Same(t)
  BY <1>1, <1>2, <1>3 DEF SocketOK, Same, dataVars, writeVars
<1> QED BY <1>6, <1>7, <1>8, <1>9, <1>10, OneSocket

-----------------------------------------------------------------------------
(* The steps that read.                                                     *)

(* Half of the pieces, rounded down.                                        *)
LEMMA ReadableParts ==
  ASSUME NEW n \in Nat
  PROVE  Readable(n) \in Nat /\ 2 * Readable(n) <= n /\ n <= 2 * Readable(n) + 1
BY DEF Readable

(* The records that are read follow on those that have been.                *)
LEMMA DrainParts ==
  ASSUME NEW g \in Seq(1 .. MaxRecord), \A i \in DOMAIN g : g[i] = i, NEW n \in Nat
  PROVE  LET h == g \o [i \in 1 .. n |-> Len(g) + i]
         IN  /\ h \in Seq(1 .. Len(g) + n) /\ Len(h) = Len(g) + n
             /\ \A i \in DOMAIN h : h[i] = i
<1> DEFINE m == [i \in 1 .. n |-> Len(g) + i]
           h == g \o m
<1>1. Len(g) \in Nat /\ m \in Seq(Nat) /\ Len(m) = n /\ g \in Seq(Nat)
  <2>1. Len(g) \in Nat /\ g \in [1 .. Len(g) -> 1 .. MaxRecord]
    BY LenProperties
  <2>2. g \in [1 .. Len(g) -> Nat]
    BY <2>1
  <2>3. g \in Seq(Nat)
    BY <2>1, <2>2, IsASeq
  <2>4. m \in [1 .. n -> Nat]
    BY <2>1
  <2> QED BY <2>1, <2>3, <2>4
<1>2. h \in Seq(Nat) /\ Len(h) = Len(g) + n
  BY <1>1, ConcatProperties
<1>3. \A i \in 1 .. Len(h) : h[i] = IF i <= Len(g) THEN g[i] ELSE m[i - Len(g)]
  BY <1>1, ConcatProperties
<1>4. ASSUME NEW i \in 1 .. Len(h) PROVE h[i] = i
  <2>1. CASE i <= Len(g)
    BY <1>1, <1>2, <1>3, <2>1
  <2>2. CASE ~(i <= Len(g))
    <3>1. i - Len(g) \in 1 .. n
      BY <1>1, <1>2, <2>2
    <3>2. m[i - Len(g)] = i
      BY <1>1, <3>1
    <3> HIDE DEF m, h
    <3> QED BY <1>3, <2>2, <3>2
  <2> QED BY <2>1, <2>2
<1>5. DOMAIN h = 1 .. Len(h)
  BY <1>2
<1> HIDE DEF h
<1>6. h \in Seq(1 .. Len(g) + n)
  BY <1>1, <1>2, <1>4
<1> QED BY <1>2, <1>4, <1>5, <1>6 DEF h

(* What is pushed is in the ring buffer or in a record.                     *)
LEMMA PieceCount ==
  ASSUME NEW r \in Nat, NEW p \in Nat, NEW k \in Nat, NEW l \in Nat, NEW a \in Nat,
         NEW m \in Nat, r + 2 * l = a, a + p <= 2 * m, 2 * k <= r + p
  PROVE  /\ ((r + p) - 2 * k) + 2 * (l + k) = a + p
         /\ (r + p) - 2 * k \in 0 .. 2 * m /\ a + p \in 0 .. 2 * m
         /\ (IF 2 * k > r + p THEN 0 ELSE (r + p) - 2 * k) = (r + p) - 2 * k
         /\ l + k <= m
OBVIOUS

LEMMA TcpDataKeepsIt ==
  ASSUME TlsIInv, NEW s \in Sock, NEW pieces \in 1 .. 3, TcpData(s, pieces)
  PROVE  TlsIInv'
<1>1. SocketOK /\ DataOK /\ StageOf(s) /\ ReadOf(s) /\ WrittenOf(s)
  BY TypeParts DEF TlsIInv
<1>2. UNCHANGED <<slots, session, dead, failed, early, tcp, writeVars>>
  BY DEF TcpData
<1>3. SessionsAreApart'
  BY <1>2, SessionsStay
<1>4. CASE dead[s] \/ session[s] = 0
  <2>1. UNCHANGED <<stage, dataVars, micro>>
    BY <1>4 DEF TcpData
  <2>2. SocketOK' /\ StageOf(s)'
    BY <1>1, <1>2, <2>1 DEF SocketOK, StageOf
  <2> QED BY <1>2, <2>1, <2>2, QuietStep
<1>5. CASE ~(dead[s] \/ session[s] = 0)
  <2> DEFINE n == ring[s] + pieces
             k == Readable(n)
             more == [i \in 1 .. k |-> Len(got[s]) + i]
  <2>1. /\ arrived[s] + pieces <= 2 * MaxRecord
        /\ arrived' = [arrived EXCEPT ![s] = @ + pieces]
        /\ stage' = [stage EXCEPT ![s] = "open"]
        /\ got' = [got EXCEPT ![s] = @ \o more]
        /\ ring' = [ring EXCEPT ![s] = IF 2 * k > n THEN 0 ELSE n - 2 * k]
        /\ micro' = IF stage[s] = "handshake"
                    THEN [micro EXCEPT ![s] = @ \cup {"secureConnect"}] ELSE micro
        /\ tcp[s] = "open"
    BY <1>5 DEF TcpData, Drain
  <2>2. /\ n \in Nat /\ arrived[s] \in Nat /\ ring[s] \in Nat
        /\ got[s] \in Seq(1 .. MaxRecord) /\ Len(got[s]) \in Nat
    BY <1>1 DEF DataOK
  <2>3. k \in Nat /\ 2 * k <= n /\ n <= 2 * k + 1
    BY <2>2, ReadableParts
  <2>4. \A i \in DOMAIN got[s] : got[s][i] = i
    BY <1>1 DEF ReadOf
  <2>5. /\ got[s] \o more \in Seq(1 .. Len(got[s]) + k)
        /\ Len(got[s] \o more) = Len(got[s]) + k
        /\ \A i \in DOMAIN (got[s] \o more) : (got[s] \o more)[i] = i
    BY <2>2, <2>3, <2>4, DrainParts
  <2>6. ring[s] + 2 * Len(got[s]) = arrived[s] /\ n = ring[s] + pieces /\ pieces \in Nat
    BY <1>1 DEF ReadOf
  <2> HIDE DEF more, k
  <2>7.  /\ (n - 2 * k) + 2 * (Len(got[s]) + k) = arrived[s] + pieces
         /\ n - 2 * k \in 0 .. 2 * MaxRecord
         /\ arrived[s] + pieces \in 0 .. 2 * MaxRecord
         /\ (IF 2 * k > n THEN 0 ELSE n - 2 * k) = n - 2 * k
         /\ Len(got[s]) + k <= MaxRecord
    <3> DEFINE r == ring[s]
               l == Len(got[s])
               a == arrived[s]
    <3>1. /\ r \in Nat /\ pieces \in Nat /\ k \in Nat /\ l \in Nat /\ a \in Nat
          /\ MaxRecord \in Nat /\ r + 2 * l = a /\ a + pieces <= 2 * MaxRecord
          /\ 2 * k <= r + pieces
      BY <2>1, <2>2, <2>3, <2>6, SocketAssumption
    <3> HIDE DEF r, l, a
    <3>2. /\ ((r + pieces) - 2 * k) + 2 * (l + k) = a + pieces
          /\ (r + pieces) - 2 * k \in 0 .. 2 * MaxRecord
          /\ a + pieces \in 0 .. 2 * MaxRecord
          /\ (IF 2 * k > r + pieces THEN 0 ELSE (r + pieces) - 2 * k)
               = (r + pieces) - 2 * k
          /\ l + k <= MaxRecord
      BY <3>1, PieceCount
    <3> QED BY <3>2 DEF r, l, a
  <2>8. Len(got[s]) + k <= MaxRecord
    BY <2>7
  <2>9. got[s] \o more \in Seq(1 .. MaxRecord)
    BY <2>2, <2>3, <2>5, <2>8, SocketAssumption
  <2>10. ring'[s] = n - 2 * k /\ arrived'[s] = arrived[s] + pieces /\ got'[s] = got[s] \o more
    <3>1. (IF 2 * k > n THEN 0 ELSE n - 2 * k) = n - 2 * k
      BY <2>7
    <3>2. /\ s \in DOMAIN ring /\ s \in DOMAIN arrived /\ s \in DOMAIN got
      BY <1>1 DEF DataOK
    <3> HIDE DEF n
    <3> QED BY <2>1, <3>1, <3>2
  <2>11. DataOK'
    <3>1. n - 2 * k \in 0 .. 2 * MaxRecord /\ arrived[s] + pieces \in 0 .. 2 * MaxRecord
      BY <2>7
    <3>2. (IF 2 * k > n THEN 0 ELSE n - 2 * k) = n - 2 * k
      BY <2>7
    <3> HIDE DEF n
    <3> QED BY <1>1, <2>1, <2>9, <3>1, <3>2 DEF DataOK
  <2>12. SocketOK'
    BY <1>1, <1>2, <2>1 DEF SocketOK
  <2>13. TlsTypeOK'
    BY <1>2, <2>11, <2>12, WriteTypeStays, TypeStays
  <2>14. StageOf(s)'
    BY <1>1, <1>2, <2>1 DEF SocketOK, StageOf, Early
  <2>15. ReadOf(s)'
    <3>1. (n - 2 * k) + 2 * (Len(got[s]) + k) = arrived[s] + pieces
      BY <2>7
    <3> HIDE DEF n
    <3> QED BY <2>5, <2>10, <3>1 DEF ReadOf
  <2>16. stage'[s] = "open"
    BY <1>1, <2>1 DEF SocketOK
  <2>17. WrittenOf(s)'
    BY <1>1, <1>2, <2>16 DEF WrittenOf, writeVars
  <2>18. \A t \in Sock \ {s} : Same(t)
    BY <1>1, <1>2, <2>1 DEF SocketOK, DataOK, Same, writeVars
  <2> QED BY <1>3, <2>13, <2>14, <2>15, <2>17, <2>18, OneSocket
<1> QED BY <1>4, <1>5

-----------------------------------------------------------------------------
(* The steps that write.                                                    *)

(* What such a step of the socket s has to show.                            *)
LEMMA WriteStep ==
  ASSUME TlsIInv, NEW s \in Sock, UNCHANGED <<slots, socketVars, dataVars>>,
         micro'[s] \subseteq micro[s], micro' \in [Sock -> SUBSET {"secureConnect", "close"}],
         WriteOK', WrittenOf(s)',
         \A t \in Sock \ {s} : /\ write'[t] = write[t] /\ sent'[t] = sent[t]
                               /\ asked'[t] = asked[t] /\ micro'[t] = micro[t]
  PROVE  TlsIInv'
<1>1. SocketOK'
  BY TypeParts DEF TlsIInv, SocketOK, socketVars
<1>2. TlsTypeOK'
  BY <1>1, DataTypeStays, TypeStays
<1>3. SessionsAreApart'
  BY SessionsStay DEF socketVars
<1>4. StageOf(s)'
  BY DEF TlsIInv, StageOf, socketVars
<1>5. ReadOf(s)'
  BY ReadStays
<1>6. \A t \in Sock \ {s} : Same(t)
  BY DEF Same, socketVars, dataVars
<1> QED BY <1>2, <1>3, <1>4, <1>5, <1>6, OneSocket

(* A record that is sent comes after those that were.                       *)
LEMMA SendParts ==
  ASSUME NEW q \in Seq(1 .. MaxRecord), NEW a \in 1 .. MaxRecord,
         \A i \in DOMAIN q : q[i] < a,
         \A i, j \in DOMAIN q : i < j => q[i] < q[j]
  PROVE  LET r == Append(q, a)
         IN  /\ r \in Seq(1 .. MaxRecord) /\ \A i \in DOMAIN r : r[i] <= a
             /\ \A i, j \in DOMAIN r : i < j => r[i] < r[j]
<1> DEFINE r == Append(q, a)
<1>1. r \in Seq(1 .. MaxRecord) /\ Len(r) = Len(q) + 1 /\ Len(q) \in Nat
  OBVIOUS
<1>2. \A i \in 1 .. Len(q) : r[i] = q[i] /\ q[i] \in Nat /\ i \in DOMAIN q
  <2>1. \A i \in 1 .. Len(q) : r[i] = q[i]
    BY AppendProperties
  <2>2. \A i \in 1 .. Len(q) : q[i] \in 1 .. MaxRecord /\ i \in DOMAIN q
    BY ElementOfSeq, LenProperties
  <2> QED BY <2>1, <2>2
<1>3. r[Len(q) + 1] = a
  OBVIOUS
<1>4. DOMAIN r = 1 .. Len(q) + 1
  BY <1>1
<1> HIDE DEF r
<1>5. ASSUME NEW i \in DOMAIN r PROVE r[i] <= a
  <2>1. i \in 1 .. Len(q) \/ i = Len(q) + 1
    BY <1>1, <1>4
  <2> QED BY <1>2, <1>3, <2>1
<1>6. ASSUME NEW i \in DOMAIN r, NEW j \in DOMAIN r, i < j PROVE r[i] < r[j]
  <2>1. i \in 1 .. Len(q)
    BY <1>1, <1>4, <1>6
  <2>2. j \in 1 .. Len(q) \/ j = Len(q) + 1
    BY <1>1, <1>4
  <2> QED BY <1>2, <1>3, <1>6, <2>1, <2>2
<1> QED BY <1>1, <1>5, <1>6 DEF r

LEMMA WriteKeepsIt ==
  ASSUME TlsIInv, NEW s \in Sock, Write(s)
  PROVE  TlsIInv'
<1> DEFINE a == asked[s] + 1
<1>1. SocketOK /\ WriteOK /\ WrittenOf(s)
  BY TypeParts DEF TlsIInv
<1>2. /\ stage[s] # "new" /\ write[s] # "parked" /\ asked[s] < MaxRecord
      /\ asked' = [asked EXCEPT ![s] = @ + 1]
      /\ UNCHANGED <<slots, socketVars, dataVars, micro, ended>>
  BY DEF Write
<1>3. /\ a \in 1 .. MaxRecord /\ asked'[s] = a /\ asked' \in [Sock -> 0 .. MaxRecord]
      /\ asked[s] \in Nat /\ sent[s] \in Seq(1 .. MaxRecord)
  BY <1>1, <1>2, SocketAssumption DEF WriteOK
<1>4. ASSUME NEW i \in DOMAIN sent[s] PROVE sent[s][i] < a /\ sent[s][i] <= a
  <2>1. sent[s][i] \in 1 .. MaxRecord
    BY <1>3, LenProperties, ElementOfSeq
  <2>2. sent[s][i] <= asked[s]
    BY <1>1 DEF WrittenOf
  <2> QED BY <1>3, <2>1, <2>2
<1> HIDE DEF a
<1>5. CASE sent' = sent /\ write' = [write EXCEPT ![s] = "told"]
  <2>1. WriteOK'
    BY <1>1, <1>2, <1>3, <1>5 DEF WriteOK
  <2>2. WrittenOf(s)'
    BY <1>1, <1>2, <1>3, <1>4, <1>5 DEF WriteOK, WrittenOf, socketVars
  <2>3. \A t \in Sock \ {s} : /\ write'[t] = write[t] /\ sent'[t] = sent[t]
                              /\ asked'[t] = asked[t] /\ micro'[t] = micro[t]
    BY <1>1, <1>2, <1>5 DEF WriteOK
  <2> QED BY <1>1, <1>2, <2>1, <2>2, <2>3, WriteStep DEF SocketOK
<1>6. CASE sent' = sent /\ write' = [write EXCEPT ![s] = "parked"] /\ stage[s] # "open"
  <2>1. WriteOK'
    BY <1>1, <1>2, <1>3, <1>6 DEF WriteOK
  <2>2. WrittenOf(s)'
    BY <1>1, <1>2, <1>3, <1>4, <1>6 DEF WriteOK, WrittenOf, socketVars
  <2>3. \A t \in Sock \ {s} : /\ write'[t] = write[t] /\ sent'[t] = sent[t]
                              /\ asked'[t] = asked[t] /\ micro'[t] = micro[t]
    BY <1>1, <1>2, <1>6 DEF WriteOK
  <2> QED BY <1>1, <1>2, <2>1, <2>2, <2>3, WriteStep DEF SocketOK
<1>7. CASE /\ sent' = [sent EXCEPT ![s] = Append(@, asked'[s])]
           /\ write' = [write EXCEPT ![s] = "none"] /\ stage[s] = "open"
  <2>1. /\ sent'[s] = Append(sent[s], a) /\ sent'[s] \in Seq(1 .. MaxRecord)
        /\ \A i \in DOMAIN sent'[s] : sent'[s][i] <= a
        /\ \A i, j \in DOMAIN sent'[s] : i < j => sent'[s][i] < sent'[s][j]
    <3>1. sent'[s] = Append(sent[s], a)
      BY <1>1, <1>3, <1>7 DEF WriteOK
    <3> QED BY <1>1, <1>3, <1>4, <3>1, SendParts DEF WrittenOf
  <2>2. WriteOK'
    BY <1>1, <1>2, <1>3, <1>7, <2>1 DEF WriteOK
  <2>3. write'[s] = "none"
    BY <1>1, <1>7 DEF WriteOK
  <2>4. WrittenOf(s)'
    BY <1>2, <1>3, <1>7, <2>1, <2>3 DEF WrittenOf, socketVars
  <2>5. \A t \in Sock \ {s} : /\ write'[t] = write[t] /\ sent'[t] = sent[t]
                              /\ asked'[t] = asked[t] /\ micro'[t] = micro[t]
    BY <1>1, <1>2, <1>7 DEF WriteOK
  <2> QED BY <1>1, <1>2, <2>2, <2>4, <2>5, WriteStep DEF SocketOK
<1> QED BY <1>5, <1>6, <1>7 DEF Write, Encrypt

(* The write that waited for the handshake is the first that is sent.       *)
LEMMA SecureConnectKeepsIt ==
  ASSUME TlsIInv, NEW s \in Sock, SecureConnect(s)
  PROVE  TlsIInv'
<1>1. SocketOK /\ WriteOK /\ WrittenOf(s)
  BY TypeParts DEF TlsIInv
<1>2. /\ "secureConnect" \in micro[s] /\ asked' = asked
      /\ micro' = [micro EXCEPT ![s] = @ \ {"secureConnect"}]
      /\ UNCHANGED <<slots, socketVars, dataVars, ended>>
  BY DEF SecureConnect
<1>3. /\ micro'[s] \subseteq micro[s] /\ "secureConnect" \notin micro'[s]
      /\ micro' \in [Sock -> SUBSET {"secureConnect", "close"}]
      /\ \A t \in Sock \ {s} : micro'[t] = micro[t]
  BY <1>1, <1>2 DEF SocketOK
<1>4. stage[s] = "open"
  BY <1>1, <1>2 DEF WrittenOf
<1>5. CASE sent' = sent /\ (write' = write \/ write' = [write EXCEPT ![s] = "told"])
  <2>1. WriteOK'
    BY <1>1, <1>2, <1>5 DEF WriteOK
  <2>2. write'[s] \in {write[s], "told"}
    BY <1>1, <1>5 DEF WriteOK
  <2>3. WrittenOf(s)'
    BY <1>1, <1>2, <1>3, <1>4, <1>5, <2>2 DEF WrittenOf, socketVars
  <2>4. \A t \in Sock \ {s} : /\ write'[t] = write[t] /\ sent'[t] = sent[t]
                              /\ asked'[t] = asked[t] /\ micro'[t] = micro[t]
    BY <1>1, <1>2, <1>3, <1>5 DEF WriteOK
  <2> QED BY <1>2, <1>3, <2>1, <2>3, <2>4, WriteStep
<1>6. CASE /\ sent' = [sent EXCEPT ![s] = Append(@, asked'[s])]
           /\ write' = [write EXCEPT ![s] = "none"] /\ write[s] = "parked"
  <2>1. /\ sent[s] = << >> /\ asked[s] \in 1 .. MaxRecord
        /\ sent'[s] = Append(sent[s], asked[s])
    BY <1>1, <1>2, <1>6 DEF WriteOK, WrittenOf
  <2>2. sent'[s] = <<asked[s]>>
    BY <2>1
  <2>3. WriteOK'
    BY <1>1, <1>2, <1>6, <2>1 DEF WriteOK
  <2>4. write'[s] = "none" /\ asked'[s] = asked[s]
    BY <1>1, <1>2, <1>6 DEF WriteOK
  <2>5. WrittenOf(s)'
    BY <1>2, <1>4, <2>1, <2>2, <2>4 DEF WrittenOf, socketVars
  <2>6. \A t \in Sock \ {s} : /\ write'[t] = write[t] /\ sent'[t] = sent[t]
                              /\ asked'[t] = asked[t] /\ micro'[t] = micro[t]
    BY <1>1, <1>2, <1>3, <1>6 DEF WriteOK
  <2> QED BY <1>2, <1>3, <2>3, <2>5, <2>6, WriteStep
<1> QED BY <1>5, <1>6 DEF SecureConnect, Encrypt

LEMMA FinalKeepsIt ==
  ASSUME TlsIInv, NEW s \in Sock, Final(s)
  PROVE  TlsIInv'
<1>1. SocketOK /\ WriteOK /\ WrittenOf(s)
  BY TypeParts DEF TlsIInv
<1>2. /\ ended' = [ended EXCEPT ![s] = TRUE]
      /\ UNCHANGED <<slots, socketVars, dataVars, write, sent, asked, micro>>
  BY DEF Final
<1>3. WriteOK'
  BY <1>1, <1>2 DEF WriteOK
<1>4. WrittenOf(s)'
  BY <1>1, <1>2 DEF WrittenOf, socketVars
<1>5. micro' \in [Sock -> SUBSET {"secureConnect", "close"}]
  BY <1>1, <1>2 DEF SocketOK
<1> QED BY <1>2, <1>3, <1>4, <1>5, WriteStep

-----------------------------------------------------------------------------
LEMMA StutterKeepsIt ==
  ASSUME TlsIInv, UNCHANGED tlsVars
  PROVE  TlsIInv'
<1>1. UNCHANGED <<slots, socketVars, dataVars, writeVars, micro>>
  BY DEF tlsVars
<1>2. TlsTypeOK'
  BY <1>1 DEF TlsIInv, TlsTypeOK, socketVars, dataVars, writeVars
<1>3. SessionsAreApart'
  BY <1>1, SessionsStay DEF socketVars
<1>4. ASSUME NEW s \in Sock PROVE StageOf(s)' /\ ReadOf(s)' /\ WrittenOf(s)'
  <2>1. StageOf(s)'
    BY <1>1 DEF TlsIInv, StageOf, socketVars
  <2>2. WrittenOf(s)'
    BY <1>1 DEF TlsIInv, WrittenOf, socketVars, writeVars
  <2> QED BY <1>1, <2>1, <2>2, ReadStays
<1> QED BY <1>2, <1>3, <1>4 DEF TlsIInv

LEMMA TlsStepIsFine == TlsIInv /\ [TlsNext]_tlsVars => TlsIInv'
<1> SUFFICES ASSUME TlsIInv, [TlsNext]_tlsVars PROVE TlsIInv'
  OBVIOUS
<1>1. ASSUME TlsNext PROVE TlsIInv'
  <2>1. PICK s \in Sock :
          \/ Connect(s) \/ Start(s) \/ TcpConnects(s) \/ TlsFails(s) \/ TcpFails(s)
          \/ TcpCloses(s) \/ Destroy(s) \/ Write(s) \/ SecureConnect(s) \/ CloseTold(s)
          \/ Final(s)
          \/ \E pieces \in 1 .. 3 : TcpData(s, pieces)
    BY <1>1 DEF TlsNext
  <2> QED BY <2>1, ConnectKeepsIt, StartKeepsIt, TcpConnectsKeepsIt, TlsFailsKeepsIt,
             TcpFailsKeepsIt, TcpClosesKeepsIt, DestroyKeepsIt, WriteKeepsIt,
             SecureConnectKeepsIt, CloseToldKeepsIt, FinalKeepsIt, TcpDataKeepsIt
<1> QED BY <1>1, StutterKeepsIt

LEMMA TlsIInvHolds == TlsSpec => []TlsIInv
BY TlsInitIsFine, TlsStepIsFine, PTL DEF TlsSpec

(* What is known of each socket says what is promised of all.               *)
LEMMA TlsIInvSuffices == TlsIInv => SocketsAreKept
<1> SUFFICES ASSUME TlsIInv PROVE SocketsAreKept
  OBVIOUS
<1>1. SessionsComeBack
  BY DEF TlsIInv, StageOf, SessionsComeBack
<1>2. ASSUME NEW s \in Sock
      PROVE  /\ Len(got[s]) <= arrived[s] \div 2
             /\ \A i \in DOMAIN got[s] : got[s][i] = i
             /\ \A i, j \in DOMAIN sent[s] : i < j => sent[s][i] < sent[s][j]
             /\ (write[s] = "parked" /\ ~dead[s]) => sent[s] = << >>
  <2>1. ring[s] \in Nat /\ arrived[s] \in Nat /\ Len(got[s]) \in Nat
    BY TypeParts DEF TlsIInv, DataOK
  <2>2. ring[s] + 2 * Len(got[s]) = arrived[s]
    BY DEF TlsIInv, ReadOf
  <2>3. Len(got[s]) <= arrived[s] \div 2
    BY <2>1, <2>2
  <2> QED BY <2>3 DEF TlsIInv, ReadOf, WrittenOf
<1>3. RecordsInOrder
  BY <1>2 DEF RecordsInOrder
<1> QED BY <1>1, <1>3 DEF TlsIInv, SocketsAreKept

(* The state has its type.                                                  *)
THEOREM SocketsAreTyped == TlsSpec => []TlsTypeOK
<1>1. TlsIInv => TlsTypeOK
  BY DEF TlsIInv
<1> QED BY <1>1, TlsIInvHolds, PTL

(* wolfSSL's sessions are never shared and come back, with the exceptions   *)
(* SessionsComeBack names; records are read and written whole, in order     *)
(* (TLSSocket's _start, destroy, _driveRead, _write).                       *)
THEOREM SocketsStayKept == TlsSpec => []SocketsAreKept
BY TlsIInvHolds, TlsIInvSuffices, PTL

-----------------------------------------------------------------------------
(* The requests of the page: HttpClient.                                    *)

(* A run of chunks: those that follow chunk a, in their order.              *)
Run(s, a) == \A i \in 1 .. Len(s) : s[i] = a + i

Reqs == [body : Chunks, buffer : Chunks, deferred : BOOLEAN, started : BOOLEAN,
         ended : BOOLEAN, destroyed : BOOLEAN, timer : BOOLEAN]
Uploads == [queue : Chunks, closed : BOOLEAN]
Nets == [at : {"idle", "opening", "sent", "head", "over"},
         via : {"none", "gvisor", "wisp", "native", "proxy", "fallback"},
         body : Chunks, whole : BOOLEAN, pieces : 0 .. MaxPiece]
Seens == [written : Chunks, lost : BOOLEAN, read : 0 .. MaxPiece,
          answer : {"none", "response", "error"}, complete : BOOLEAN,
          timedOut : BOOLEAN]

(* Where a request is: nothing is sent before its body is complete or a     *)
(* stream, and only a stream has a queue.                                   *)
PhaseInv ==
  /\ upload.closed => req.ended
  /\ net.at = "idle" => ~req.started /\ ~net.whole /\ net.via = "none"
  /\ ~req.ended /\ ~req.started => net.at = "idle" /\ ~seen.lost
  /\ req.started => net.at # "opening"
  /\ seen.read = net.pieces
  /\ ~req.started => /\ req.buffer = << >> /\ ~req.deferred
                     /\ upload.queue = << >> /\ ~upload.closed
                     /\ (~net.whole => net.body = << >>)

Adds(a, b, d, k) == a + b + d = k

(* A body that streams is, in the order of its chunks, what the peer has,   *)
(* what the stream holds and what waits in the Writable.                    *)
Streamed(r, u, n, k) ==
  /\ r.body = << >>
  /\ Run(n.body, 0) /\ Run(u.queue, Len(n.body))
  /\ Run(r.buffer, Len(n.body) + Len(u.queue))
  /\ Adds(Len(n.body), Len(u.queue), Len(r.buffer), k)
  /\ r.deferred \/ r.buffer = << >>
  /\ u.closed => r.buffer = << >>
  /\ n.whole => u.queue = << >> /\ u.closed

(* A body that does not is kept whole.                                      *)
Collected(r, n, k) ==
  Run(r.body, 0) /\ Len(r.body) = k /\ (n.whole => n.body = r.body)

BodyInv ==
  /\ Run(seen.written, 0)
  /\ host.post /\ ~seen.lost =>
       IF req.started THEN Streamed(req, upload, net, Len(seen.written))
       ELSE Collected(req, net, Len(seen.written))

ClientIInv == ClientTypeOK /\ PhaseInv /\ BodyInv

-----------------------------------------------------------------------------
(* Runs.                                                                    *)

LEMMA HeadAndTail ==
  ASSUME NEW S, NEW s \in Seq(S), s # << >>
  PROVE  /\ Len(s) \in Nat /\ Len(s) >= 1 /\ Head(s) = s[1] /\ Head(s) \in S
         /\ Tail(s) \in Seq(S) /\ Len(Tail(s)) = Len(s) - 1
         /\ \A i \in 1 .. Len(Tail(s)) : Tail(s)[i] = s[i + 1]
<1>1. Len(s) \in Nat /\ Len(s) >= 1 BY LenProperties, EmptySeq
<1>2. Head(s) = s[1] /\ Head(s) \in S BY HeadTailProperties
<1>3. /\ Tail(s) \in Seq(S) /\ Len(Tail(s)) = Len(s) - 1
      /\ \A i \in 1 .. Len(Tail(s)) : Tail(s)[i] = s[i + 1]
  BY HeadTailProperties
<1> QED BY <1>1, <1>2, <1>3

LEMMA TwoPieces ==
  ASSUME NEW S, NEW s \in Seq(S), NEW n \in 0 .. Len(s)
  PROVE  /\ SubSeq(s, 1, n) \in Seq(S) /\ Len(SubSeq(s, 1, n)) = n
         /\ \A i \in 1 .. n : SubSeq(s, 1, n)[i] = s[i]
         /\ SubSeq(s, n + 1, Len(s)) \in Seq(S)
         /\ Len(SubSeq(s, n + 1, Len(s))) = Len(s) - n
         /\ \A i \in 1 .. Len(s) - n : SubSeq(s, n + 1, Len(s))[i] = s[n + i]
<1>0. Len(s) \in Nat /\ n \in Nat BY LenProperties
<1>1. \A i \in 1 .. Len(s) : s[i] \in S BY ElementOfSeq
<1>2. /\ SubSeq(s, 1, n) \in Seq(S) /\ Len(SubSeq(s, 1, n)) = n
      /\ \A i \in 1 .. n : SubSeq(s, 1, n)[i] = s[i]
  <2>1. \A i \in 1 .. n : s[i] \in S BY <1>0, <1>1
  <2>2. SubSeq(s, 1, n) \in Seq(S) BY <1>0, <2>1, SubSeqProperties
  <2>3. Len(SubSeq(s, 1, n)) = IF 1 <= n THEN n - 1 + 1 ELSE 0
    BY <1>0, <2>1, SubSeqProperties
  <2>4. \A i \in 1 .. n - 1 + 1 : SubSeq(s, 1, n)[i] = s[1 + i - 1]
    BY <1>0, <2>1, SubSeqProperties
  <2> QED BY <1>0, <2>2, <2>3, <2>4
<1>3. /\ SubSeq(s, n + 1, Len(s)) \in Seq(S)
      /\ Len(SubSeq(s, n + 1, Len(s))) = Len(s) - n
      /\ \A i \in 1 .. Len(s) - n : SubSeq(s, n + 1, Len(s))[i] = s[n + i]
  <2> DEFINE m == n + 1
             k == Len(s)
  <2>0. m \in Int /\ k \in Int BY <1>0
  <2>1. \A i \in m .. k : s[i] \in S BY <1>0, <1>1
  <2> HIDE DEF m, k
  <2>2. SubSeq(s, m, k) \in Seq(S) BY <2>0, <2>1, SubSeqProperties
  <2>3. Len(SubSeq(s, m, k)) = IF m <= k THEN k - m + 1 ELSE 0
    BY <2>0, <2>1, SubSeqProperties
  <2>4. \A i \in 1 .. k - m + 1 : SubSeq(s, m, k)[i] = s[m + i - 1]
    BY <2>0, <2>1, SubSeqProperties
  <2> QED BY <1>0, <2>2, <2>3, <2>4 DEF m, k
<1> QED BY <1>2, <1>3

LEMMA RunGrows ==
  ASSUME NEW s \in Chunks, NEW a \in Nat, Run(s, a), NEW c \in 1 .. MaxChunk,
         c = a + Len(s) + 1
  PROVE  /\ Append(s, c) \in Chunks /\ Run(Append(s, c), a)
         /\ Len(Append(s, c)) = Len(s) + 1
<1>1. Len(s) \in Nat /\ Append(s, c) \in Chunks /\ Len(Append(s, c)) = Len(s) + 1
  BY AppendProperties, LenProperties DEF Chunks
<1>2. \A i \in 1 .. Len(s) + 1 : Append(s, c)[i] = a + i
  BY <1>1, AppendProperties DEF Chunks, Run
<1> QED BY <1>1, <1>2 DEF Run

LEMMA RunShrinks ==
  ASSUME NEW s \in Chunks, s # << >>, NEW a \in Nat, Run(s, a)
  PROVE  /\ Head(s) = a + 1 /\ Head(s) \in 1 .. MaxChunk
         /\ Tail(s) \in Chunks /\ Run(Tail(s), a + 1) /\ Len(Tail(s)) = Len(s) - 1
<1>1. /\ Len(s) \in Nat /\ Len(s) >= 1 /\ Head(s) = s[1] /\ Head(s) \in 1 .. MaxChunk
      /\ Tail(s) \in Chunks /\ Len(Tail(s)) = Len(s) - 1
      /\ \A i \in 1 .. Len(Tail(s)) : Tail(s)[i] = s[i + 1]
  BY HeadAndTail DEF Chunks
<1>2. \A i \in 1 .. Len(Tail(s)) : Tail(s)[i] = (a + 1) + i
  BY <1>1 DEF Run
<1> QED BY <1>1, <1>2 DEF Run

LEMMA RunsJoin ==
  ASSUME NEW s \in Chunks, NEW t \in Chunks, NEW a \in Nat, Run(s, a),
         Run(t, a + Len(s))
  PROVE  s \o t \in Chunks /\ Run(s \o t, a) /\ Len(s \o t) = Len(s) + Len(t)
<1>1. /\ Len(s) \in Nat /\ Len(t) \in Nat
      /\ s \o t \in Chunks /\ Len(s \o t) = Len(s) + Len(t)
      /\ \A i \in 1 .. Len(s) + Len(t) :
           (s \o t)[i] = IF i <= Len(s) THEN s[i] ELSE t[i - Len(s)]
  BY ConcatProperties, LenProperties DEF Chunks
<1>2. \A i \in 1 .. Len(s) + Len(t) : (s \o t)[i] = a + i
  BY <1>1 DEF Run
<1> QED BY <1>1, <1>2 DEF Run

LEMMA RunSplits ==
  ASSUME NEW s \in Chunks, NEW a \in Nat, Run(s, a), NEW n \in 0 .. Len(s)
  PROVE  /\ SubSeq(s, 1, n) \in Chunks /\ Run(SubSeq(s, 1, n), a)
         /\ Len(SubSeq(s, 1, n)) = n
         /\ SubSeq(s, n + 1, Len(s)) \in Chunks
         /\ Run(SubSeq(s, n + 1, Len(s)), a + n)
         /\ Len(SubSeq(s, n + 1, Len(s))) = Len(s) - n
<1>0. Len(s) \in Nat BY LenProperties DEF Chunks
<1>c. s \in Seq(1 .. MaxChunk) /\ \A t : t \in Seq(1 .. MaxChunk) <=> t \in Chunks
  BY DEF Chunks
<1>s. /\ SubSeq(s, 1, n) \in Seq(1 .. MaxChunk) /\ Len(SubSeq(s, 1, n)) = n
      /\ \A i \in 1 .. n : SubSeq(s, 1, n)[i] = s[i]
      /\ SubSeq(s, n + 1, Len(s)) \in Seq(1 .. MaxChunk)
      /\ Len(SubSeq(s, n + 1, Len(s))) = Len(s) - n
      /\ \A i \in 1 .. Len(s) - n : SubSeq(s, n + 1, Len(s))[i] = s[n + i]
  <2> DEFINE S == 1 .. MaxChunk
  <2>1. s \in Seq(S) BY <1>c
  <2> HIDE DEF S
  <2>2. /\ SubSeq(s, 1, n) \in Seq(S) /\ Len(SubSeq(s, 1, n)) = n
        /\ \A i \in 1 .. n : SubSeq(s, 1, n)[i] = s[i]
        /\ SubSeq(s, n + 1, Len(s)) \in Seq(S)
        /\ Len(SubSeq(s, n + 1, Len(s))) = Len(s) - n
        /\ \A i \in 1 .. Len(s) - n : SubSeq(s, n + 1, Len(s))[i] = s[n + i]
    BY <2>1, TwoPieces, Zenon
  <2> QED BY <2>2 DEF S
<1>1. /\ SubSeq(s, 1, n) \in Chunks /\ Len(SubSeq(s, 1, n)) = n
      /\ \A i \in 1 .. n : SubSeq(s, 1, n)[i] = s[i]
  BY <1>s, <1>c
<1>2. /\ SubSeq(s, n + 1, Len(s)) \in Chunks
      /\ Len(SubSeq(s, n + 1, Len(s))) = Len(s) - n
      /\ \A i \in 1 .. Len(s) - n : SubSeq(s, n + 1, Len(s))[i] = s[n + i]
  BY <1>s, <1>c
<1>3. \A i \in 1 .. n : SubSeq(s, 1, n)[i] = a + i
  BY <1>0, <1>1 DEF Run
<1>4. \A i \in 1 .. Len(s) - n : SubSeq(s, n + 1, Len(s))[i] = (a + n) + i
  BY <1>0, <1>2 DEF Run
<1> QED BY <1>1, <1>2, <1>3, <1>4 DEF Run

LEMMA RunIsPrefix ==
  ASSUME NEW s \in Chunks, NEW t \in Chunks, Run(s, 0), Run(t, 0), Len(s) <= Len(t)
  PROVE  s = SubSeq(t, 1, Len(s)) /\ (Len(s) = Len(t) => s = t)
<1>0. Len(s) \in Nat /\ Len(t) \in Nat BY LenProperties DEF Chunks
<1>1. Len(s) \in 0 .. Len(t) BY <1>0
<1>2. /\ SubSeq(t, 1, Len(s)) \in Chunks /\ Run(SubSeq(t, 1, Len(s)), 0)
      /\ Len(SubSeq(t, 1, Len(s))) = Len(s)
  BY <1>1, RunSplits
<1>3. \A u, v \in Chunks : Run(u, 0) /\ Run(v, 0) /\ Len(u) = Len(v) => u = v
  BY SeqEqual, LenProperties DEF Run, Chunks
<1> QED BY <1>2, <1>3

-----------------------------------------------------------------------------
(* The steps of the body's way.                                             *)

SameCall(r, s) ==
  /\ s.body = r.body /\ s.started = r.started /\ s.ended = r.ended

(* A chunk that is written goes to the end of the stream.                   *)
LEMMA WrittenToStream ==
  ASSUME NEW r \in Reqs, NEW u \in Uploads, NEW c \in 1 .. MaxChunk, r.started
  PROVE  LET now == Written(r, u, c)
         IN /\ now.req \in Reqs /\ now.upload \in Uploads /\ SameCall(r, now.req)
            /\ now.req.buffer = r.buffer
            /\ now.upload.queue = Append(u.queue, c)
            /\ now.upload.closed = u.closed
<1> DEFINE q == Append(u.queue, c)
           x == Len(q) >= StreamMark
           p == [r EXCEPT !.deferred = x]
           v == [u EXCEPT !.queue = q]
<1>1. q \in Chunks BY AppendProperties DEF Uploads, Chunks
<1>2. x \in BOOLEAN OBVIOUS
<1>3. Written(r, u, c) = [req |-> p, upload |-> v] BY DEF Written
<1> HIDE DEF q, x
<1>4. p \in Reqs BY <1>2 DEF Reqs
<1>5. SameCall(r, p) /\ p.buffer = r.buffer
  <2>1. p.body = r.body /\ p.started = r.started /\ p.ended = r.ended BY DEF Reqs
  <2>2. p.buffer = r.buffer BY DEF Reqs
  <2> QED BY <2>1, <2>2 DEF SameCall
<1>6. v \in Uploads BY <1>1 DEF Uploads
<1>7. v.queue = q /\ v.closed = u.closed BY DEF Uploads
<1> HIDE DEF p, v
<1>8. Written(r, u, c).req = p /\ Written(r, u, c).upload = v BY <1>3
<1> QED BY <1>4, <1>5, <1>6, <1>7, <1>8 DEF q

(* Room in the stream is filled with what waits, in order: the Writable     *)
(* holds nothing any more, or the stream is full again.                     *)
LEMMA RefilledInOrder ==
  ASSUME NEW r \in Reqs, NEW u \in Uploads, NEW a \in Nat,
         Run(u.queue, a), Run(r.buffer, a + Len(u.queue)),
         r.deferred \/ r.buffer = << >>
  PROVE  LET now == Refilled(r, u)
         IN /\ now.req \in Reqs /\ now.upload \in Uploads /\ SameCall(r, now.req)
            /\ now.upload.closed = u.closed
            /\ Run(now.upload.queue, a)
            /\ Run(now.req.buffer, a + Len(now.upload.queue))
            /\ Len(now.upload.queue) + Len(now.req.buffer)
                 = Len(u.queue) + Len(r.buffer)
            /\ now.req.deferred \/ now.req.buffer = << >>
<1> DEFINE room == StreamMark - Len(u.queue)
           n == IF room < Len(r.buffer) THEN room ELSE Len(r.buffer)
           front == SubSeq(r.buffer, 1, n)
           rest == SubSeq(r.buffer, n + 1, Len(r.buffer))
           q == u.queue \o front
           x == Len(q) >= StreamMark
           p == [r EXCEPT !.buffer = rest, !.deferred = x]
           v == [u EXCEPT !.queue = q]
<1>0. u.queue \in Chunks /\ r.buffer \in Chunks BY DEF Reqs, Uploads
<1>l. Len(u.queue) \in Nat /\ Len(r.buffer) \in Nat BY <1>0, LenProperties DEF Chunks
<1>1. CASE ~(r.deferred /\ room > 0)
  <2>1. Refilled(r, u) = [req |-> r, upload |-> u] BY <1>1 DEF Refilled
  <2>2. Refilled(r, u).req = r /\ Refilled(r, u).upload = u BY <2>1
  <2> QED BY <2>2 DEF SameCall
<1>2. CASE r.deferred /\ room > 0
  <2>1. Refilled(r, u) = [req |-> p, upload |-> v] BY <1>2 DEF Refilled
  <2>2. n \in 0 .. Len(r.buffer) /\ (n = Len(r.buffer) \/ n = room)
    <3> DEFINE k == Len(u.queue)
               l == Len(r.buffer)
    <3>1. k \in Nat /\ l \in Nat /\ StreamMark \in Nat /\ StreamMark - k > 0
      BY <1>2, <1>l, ClientAssumption
    <3> HIDE DEF k, l
    <3>2. \A m : m = (IF StreamMark - k < l THEN StreamMark - k ELSE l) =>
            m \in 0 .. l /\ (m = l \/ m = StreamMark - k)
      BY <3>1
    <3>3. n = (IF StreamMark - k < l THEN StreamMark - k ELSE l) BY DEF k, l
    <3> QED BY <3>2, <3>3 DEF k, l
  <2> HIDE DEF n
  <2>3. /\ front \in Chunks /\ Run(front, a + Len(u.queue)) /\ Len(front) = n
        /\ rest \in Chunks /\ Run(rest, (a + Len(u.queue)) + n)
        /\ Len(rest) = Len(r.buffer) - n
    <3>1. a + Len(u.queue) \in Nat BY <1>l
    <3> QED BY <1>0, <2>2, <3>1, RunSplits
  <2> HIDE DEF front, rest
  <2>4. q \in Chunks /\ Run(q, a) /\ Len(q) = Len(u.queue) + n
    <3>1. q \in Chunks /\ Run(q, a) /\ Len(q) = Len(u.queue) + Len(front)
      BY <1>0, <2>3, RunsJoin
    <3> QED BY <2>3, <3>1
  <2> HIDE DEF q
  <2>5. x \in BOOLEAN /\ (x \/ rest = << >>)
    <3>1. n = Len(r.buffer) => Len(rest) = 0 BY <1>l, <2>3
    <3>2. Len(rest) = 0 => rest = << >> BY <2>3, EmptySeq DEF Chunks
    <3>3. n = room => x BY <1>l, <2>4, ClientAssumption
    <3> QED BY <2>2, <3>1, <3>2, <3>3
  <2> HIDE DEF x, room
  <2>6. p \in Reqs /\ SameCall(r, p) /\ p.buffer = rest /\ p.deferred = x
    BY <2>3, <2>5 DEF Reqs, SameCall
  <2>7. v \in Uploads /\ v.queue = q /\ v.closed = u.closed
    BY <2>4 DEF Uploads
  <2> HIDE DEF p, v
  <2>8. Refilled(r, u).req = p /\ Refilled(r, u).upload = v BY <2>1
  <2>9. a + Len(q) = (a + Len(u.queue)) + n /\ Len(q) + Len(rest) = Len(u.queue) + Len(r.buffer)
    <3> DEFINE k == Len(u.queue)
               l == Len(r.buffer)
    <3>1. n \in Nat /\ k \in Nat /\ l \in Nat BY <1>l, <2>2
    <3>2. Len(q) = k + n /\ Len(rest) = l - n BY <2>3, <2>4
    <3> HIDE DEF k, l
    <3>3. a + (k + n) = (a + k) + n /\ (k + n) + (l - n) = k + l BY <3>1
    <3> QED BY <3>2, <3>3 DEF k, l
  <2> QED BY <2>3, <2>4, <2>5, <2>6, <2>7, <2>8, <2>9
<1> QED BY <1>1, <1>2

-----------------------------------------------------------------------------
(* The steps.                                                               *)

Hosts == [tier : Tiers, streams : BOOLEAN, post : BOOLEAN, secure : BOOLEAN]
Typed(h, r, u, n, s) ==
  h \in Hosts /\ r \in Reqs /\ u \in Uploads /\ n \in Nets /\ s \in Seens

LEMMA TypesAre == ClientTypeOK <=> Typed(host, req, upload, net, seen)
  BY DEF ClientTypeOK, Typed, Hosts, Reqs, Uploads, Nets, Seens

LEMMA NextTypesAre == ClientTypeOK' <=> Typed(host', req', upload', net', seen')
  BY DEF ClientTypeOK, Typed, Hosts, Reqs, Uploads, Nets, Seens

LEMMA NothingWritten == << >> \in Chunks /\ Len(<< >>) = 0 /\ \A a \in Nat : Run(<< >>, a)
<1>1. << >> \in Chunks /\ Len(<< >>) = 0 BY EmptySeq DEF Chunks
<1> QED BY <1>1 DEF Run

LEMMA ClientStarts == ClientInit => ClientIInv
<1> SUFFICES ASSUME ClientInit PROVE ClientIInv OBVIOUS
<1>1. ClientTypeOK
  BY NothingWritten, ClientAssumption DEF ClientInit, ClientTypeOK
<1>2. PhaseInv BY DEF ClientInit, PhaseInv
<1>3. BodyInv
  BY NothingWritten DEF ClientInit, BodyInv, Collected
<1> QED BY <1>1, <1>2, <1>3 DEF ClientIInv

(* What a step keeps that leaves the body alone.                            *)
SameBody(r, s, n, m) ==
  /\ s.body = r.body /\ s.buffer = r.buffer /\ s.deferred = r.deferred
  /\ s.started = r.started /\ s.ended = r.ended
  /\ m.body = n.body /\ m.whole = n.whole

LEMMA BodyIsLeft ==
  ASSUME BodyInv, UNCHANGED <<host, upload>>, SameBody(req, req', net, net'),
         seen'.written = seen.written, seen'.lost = seen.lost
  PROVE  BodyInv'
<1>1. ASSUME Streamed(req, upload, net, Len(seen.written))
      PROVE  Streamed(req, upload, net, Len(seen.written))'
  BY <1>1 DEF Streamed, SameBody
<1>2. ASSUME Collected(req, net, Len(seen.written))
      PROVE  Collected(req, net, Len(seen.written))'
  BY <1>2 DEF Collected, SameBody
<1> QED BY <1>1, <1>2 DEF BodyInv, SameBody

LEMMA PhaseIsLeft ==
  ASSUME PhaseInv, UNCHANGED upload, SameBody(req, req', net, net'),
         seen'.lost = seen.lost, seen'.read = net'.pieces,
         \/ net'.at = net.at /\ net'.via = net.via
         \/ net.at # "idle" /\ net'.at \in {"sent", "head", "over"}
  PROVE  PhaseInv'
BY DEF PhaseInv, SameBody

(* A step that leaves the body alone.                                       *)
LEMMA BodyQuiet ==
  ASSUME ClientIInv, UNCHANGED <<host, upload>>,
         req' \in Reqs, net' \in Nets, seen' \in Seens,
         SameBody(req, req', net, net'),
         seen'.written = seen.written, seen'.lost = seen.lost,
         seen'.read = net'.pieces,
         \/ net'.at = net.at /\ net'.via = net.via
         \/ net.at # "idle" /\ net'.at \in {"sent", "head", "over"}
  PROVE  ClientIInv'
<1>1. ClientTypeOK' BY TypesAre, NextTypesAre DEF ClientIInv, Typed
<1>2. PhaseInv' BY PhaseIsLeft DEF ClientIInv
<1>3. BodyInv' BY BodyIsLeft DEF ClientIInv
<1> QED BY <1>1, <1>2, <1>3 DEF ClientIInv

LEMMA QuietParts ==
  ASSUME ClientTypeOK
  PROVE  /\ req \in Reqs /\ net \in Nets /\ seen \in Seens /\ upload \in Uploads
         /\ host \in Hosts
         /\ Over \in Nets /\ SameBody(req, req, net, Over) /\ Over.at = "over"
         /\ Over.pieces = net.pieces /\ [net EXCEPT !.at = "head"].pieces = net.pieces
         /\ [req EXCEPT !.timer = FALSE] \in Reqs
         /\ SameBody(req, [req EXCEPT !.timer = FALSE], net, net)
         /\ SameBody(req, [req EXCEPT !.timer = FALSE], net, Over)
         /\ SameBody(req, [req EXCEPT !.timer = FALSE], net, [net EXCEPT !.at = "head"])
         /\ [net EXCEPT !.at = "head"] \in Nets /\ [net EXCEPT !.at = "head"].at = "head"
         /\ [req EXCEPT !.destroyed = TRUE, !.timer = FALSE] \in Reqs
         /\ SameBody(req, [req EXCEPT !.destroyed = TRUE, !.timer = FALSE], net, net)
         /\ SameBody(req, [req EXCEPT !.destroyed = TRUE, !.timer = FALSE], net, Over)
         /\ [req EXCEPT !.timer = TRUE] \in Reqs
         /\ SameBody(req, [req EXCEPT !.timer = TRUE], net, net)
         /\ Reported \in Seens /\ Reported.written = seen.written
         /\ Reported.lost = seen.lost /\ Reported.read = seen.read
<1>1. req \in Reqs /\ net \in Nets /\ seen \in Seens /\ upload \in Uploads /\ host \in Hosts
  BY TypesAre DEF Typed
<1>2. /\ Over \in Nets /\ SameBody(req, req, net, Over) /\ Over.at = "over"
      /\ Over.pieces = net.pieces /\ [net EXCEPT !.at = "head"].pieces = net.pieces
      /\ [net EXCEPT !.at = "head"] \in Nets /\ [net EXCEPT !.at = "head"].at = "head"
  BY <1>1 DEF Over, Nets, SameBody
<1>3. /\ [req EXCEPT !.timer = FALSE] \in Reqs
      /\ SameBody(req, [req EXCEPT !.timer = FALSE], net, net)
      /\ SameBody(req, [req EXCEPT !.timer = FALSE], net, Over)
      /\ SameBody(req, [req EXCEPT !.timer = FALSE], net, [net EXCEPT !.at = "head"])
  BY <1>1 DEF Over, Nets, Reqs, SameBody
<1>4. /\ [req EXCEPT !.destroyed = TRUE, !.timer = FALSE] \in Reqs
      /\ SameBody(req, [req EXCEPT !.destroyed = TRUE, !.timer = FALSE], net, net)
      /\ SameBody(req, [req EXCEPT !.destroyed = TRUE, !.timer = FALSE], net, Over)
  BY <1>1 DEF Over, Nets, Reqs, SameBody
<1>5. /\ [req EXCEPT !.timer = TRUE] \in Reqs
      /\ SameBody(req, [req EXCEPT !.timer = TRUE], net, net)
  BY <1>1 DEF Reqs, SameBody
<1>6. /\ Reported \in Seens /\ Reported.written = seen.written
      /\ Reported.lost = seen.lost /\ Reported.read = seen.read
  BY <1>1 DEF Reported, Seens
<1> QED BY <1>1, <1>2, <1>3, <1>4, <1>5, <1>6

(* The steps of the transports and of the timers.                           *)
LEMMA QuietSteps ==
  ASSUME ClientIInv,
         \/ CancelUpload \/ FetchAnswers \/ HeadArrives \/ PieceArrives
         \/ ResponseEnds \/ SocketFails \/ DestroyRequest \/ SetTimeout \/ TimerFires
  PROVE  ClientIInv'
<1>t. ClientTypeOK /\ PhaseInv BY DEF ClientIInv
<1>h. req \in Reqs /\ net \in Nets /\ seen \in Seens BY <1>t, QuietParts
<1>0. SameBody(req, req, net, net) /\ seen.read = net.pieces BY <1>t DEF SameBody, PhaseInv
<1>1. CASE CancelUpload
  <2>1. /\ req' = [req EXCEPT !.destroyed = TRUE, !.timer = FALSE] /\ net' = Over
        /\ UNCHANGED <<host, upload, seen>> /\ net.at # "idle"
    BY <1>1 DEF CancelUpload, Over
  <2> QED BY <1>t, <1>h, <2>1, <1>0, QuietParts, BodyQuiet
<1>2. CASE FetchAnswers
  <2> DEFINE s == [seen EXCEPT !.answer = "response"]
  <2>1. /\ req' = [req EXCEPT !.timer = FALSE] /\ net' = [net EXCEPT !.at = "head"]
        /\ UNCHANGED <<host, upload>> /\ net.at # "idle" /\ seen' = s
    BY <1>2 DEF FetchAnswers
  <2>2. s \in Seens /\ s.written = seen.written /\ s.lost = seen.lost /\ s.read = seen.read BY <1>h DEF Seens
  <2> HIDE DEF s
  <2> QED BY <1>t, <2>1, <2>2, <1>0, QuietParts, BodyQuiet
<1>3. CASE HeadArrives
  <2> DEFINE s == [seen EXCEPT !.answer = "response"]
  <2>1. /\ req' = [req EXCEPT !.timer = FALSE] /\ net' = [net EXCEPT !.at = "head"]
        /\ UNCHANGED <<host, upload>> /\ net.at # "idle" /\ seen' = s
    BY <1>3 DEF HeadArrives
  <2>2. s \in Seens /\ s.written = seen.written /\ s.lost = seen.lost /\ s.read = seen.read BY <1>h DEF Seens
  <2> HIDE DEF s
  <2> QED BY <1>t, <2>1, <2>2, <1>0, QuietParts, BodyQuiet
<1>5. CASE ResponseEnds
  <2> DEFINE x == net.at = "head"
             s == [seen EXCEPT !.complete = x]
  <2>1. net' = Over /\ UNCHANGED <<host, req, upload>> /\ net.at # "idle" /\ seen' = s
    BY <1>5 DEF ResponseEnds
  <2>2. s \in Seens /\ s.written = seen.written /\ s.lost = seen.lost /\ s.read = seen.read
    <3>1. x \in BOOLEAN OBVIOUS
    <3> HIDE DEF x
    <3> QED BY <1>h, <3>1 DEF Seens
  <2> HIDE DEF s
  <2> QED BY <1>t, <2>1, <2>2, <1>0, QuietParts, BodyQuiet
<1>6. CASE SocketFails
  <2> DEFINE x == net.at = "head"
             s == [Reported EXCEPT !.complete = x]
  <2>1. /\ net' = Over /\ UNCHANGED <<host, upload>> /\ net.at # "idle" /\ seen' = s
        /\ req' = [req EXCEPT !.timer = FALSE]
    BY <1>6 DEF SocketFails
  <2>2. s \in Seens /\ s.written = seen.written /\ s.lost = seen.lost /\ s.read = seen.read
    <3>1. x \in BOOLEAN OBVIOUS
    <3>2. Reported \in Seens /\ Reported.written = seen.written /\ Reported.lost = seen.lost
         /\ Reported.read = seen.read
      BY <1>t, QuietParts
    <3> HIDE DEF x
    <3> QED BY <3>1, <3>2 DEF Seens
  <2> HIDE DEF s
  <2> QED BY <1>t, <2>1, <2>2, <1>0, QuietParts, BodyQuiet
<1>4. CASE PieceArrives
  <2> DEFINE s == [seen EXCEPT !.read = @ + 1]
             n == [net EXCEPT !.pieces = @ + 1]
  <2>1. net' = n /\ seen' = s /\ UNCHANGED <<host, req, upload>> /\ net.pieces < MaxPiece
    BY <1>4 DEF PieceArrives
  <2>2. n \in Nets /\ SameBody(req, req, net, n) /\ n.at = net.at /\ n.via = net.via
        /\ n.pieces = net.pieces + 1 /\ net.pieces + 1 \in 0 .. MaxPiece
    BY <1>h, <2>1, ClientAssumption DEF Nets, SameBody
  <2> HIDE DEF n
  <2>3. s \in Seens /\ s.written = seen.written /\ s.lost = seen.lost /\ s.read = n.pieces
    BY <1>h, <1>t, <2>2 DEF Seens, PhaseInv
  <2> HIDE DEF s
  <2> QED BY <1>t, <1>h, <2>1, <2>2, <2>3, <1>0, QuietParts, BodyQuiet
<1>7. CASE DestroyRequest
  <2>1. /\ req' = [req EXCEPT !.destroyed = TRUE, !.timer = FALSE]
        /\ UNCHANGED <<host, upload, seen>>
        /\ \/ net' = Over /\ net.at # "idle"
           \/ net' = net
    BY <1>7, <1>t DEF DestroyRequest, Over, PhaseInv
  <2> QED BY <1>t, <1>h, <2>1, <1>0, QuietParts, BodyQuiet
<1>8. CASE SetTimeout
  <2>1. req' = [req EXCEPT !.timer = TRUE] /\ UNCHANGED <<host, upload, net, seen>>
    BY <1>8 DEF SetTimeout
  <2> QED BY <1>t, <1>h, <2>1, <1>0, QuietParts, BodyQuiet
<1>9. CASE TimerFires
  <2> DEFINE s == [seen EXCEPT !.timedOut = TRUE]
  <2>1. req' = [req EXCEPT !.timer = FALSE] /\ seen' = s /\ UNCHANGED <<host, upload, net>>
    BY <1>9 DEF TimerFires
  <2>2. s \in Seens /\ s.written = seen.written /\ s.lost = seen.lost /\ s.read = seen.read BY <1>h DEF Seens
  <2> HIDE DEF s
  <2> QED BY <1>t, <1>h, <2>1, <2>2, <1>0, QuietParts, BodyQuiet
<1> QED BY <1>1, <1>2, <1>3, <1>4, <1>5, <1>6, <1>7, <1>8, <1>9

LEMMA Parts ==
  ASSUME ClientIInv
  PROVE  /\ host \in Hosts /\ req \in Reqs /\ net \in Nets /\ seen \in Seens
         /\ upload \in Uploads /\ PhaseInv /\ BodyInv
         /\ req.body \in Chunks /\ req.buffer \in Chunks /\ upload.queue \in Chunks
         /\ net.body \in Chunks /\ seen.written \in Chunks
         /\ Len(req.body) \in Nat /\ Len(req.buffer) \in Nat
         /\ Len(upload.queue) \in Nat /\ Len(net.body) \in Nat
         /\ Len(seen.written) \in Nat
<1>1. /\ host \in Hosts /\ req \in Reqs /\ net \in Nets /\ seen \in Seens
      /\ upload \in Uploads /\ PhaseInv /\ BodyInv
  BY TypesAre DEF ClientIInv, Typed
<1>2. /\ req.body \in Chunks /\ req.buffer \in Chunks /\ upload.queue \in Chunks
      /\ net.body \in Chunks /\ seen.written \in Chunks
  BY <1>1 DEF Reqs, Uploads, Nets, Seens
<1>3. \A s \in Chunks : Len(s) \in Nat BY LenProperties DEF Chunks
<1> QED BY <1>1, <1>2, <1>3

LEMMA BodyIsNext ==
  ASSUME Typed(host', req', upload', net', seen'), PhaseInv', BodyInv'
  PROVE  ClientIInv'
BY NextTypesAre DEF ClientIInv

(* A body of the next chunk.                                                *)
LEMMA CollectedGrows ==
  ASSUME NEW r \in Reqs, NEW k \in Nat, k < MaxChunk, Run(r.body, 0), Len(r.body) = k
  PROVE  LET b == Append(r.body, k + 1)
         IN b \in Chunks /\ Run(b, 0) /\ Len(b) = k + 1
<1>1. r.body \in Chunks BY DEF Reqs
<1>2. k + 1 \in 1 .. MaxChunk /\ k + 1 = 0 + Len(r.body) + 1
  BY ClientAssumption
<1> HIDE DEF Run
<1>3. /\ Append(r.body, k + 1) \in Chunks /\ Run(Append(r.body, k + 1), 0)
      /\ Len(Append(r.body, k + 1)) = Len(r.body) + 1
  BY <1>1, <1>2, RunGrows
<1> QED BY <1>3

LEMMA SumIsNat == \A a, b \in Nat : a + b \in Nat
OBVIOUS

LEMMA AllBuffered == \A k \in Nat : Adds(0, k, 0, k) /\ 0 + k = k
BY DEF Adds

(* The next chunk goes to the end of what waits, or of what the stream      *)
(* holds when nothing waits.                                                *)
LEMMA BufferGrows ==
  ASSUME NEW a \in Nat, NEW b \in Nat, NEW s \in Chunks, NEW k \in Nat,
         Adds(a, b, Len(s), k), Run(s, a + b), k + 1 \in 1 .. MaxChunk
  PROVE  LET t == Append(s, k + 1)
         IN t \in Chunks /\ Run(t, a + b) /\ Adds(a, b, Len(t), k + 1)
<1> DEFINE x == a + b
           c == k + 1
           l == Len(s)
<1>1. l \in Nat BY LenProperties DEF Chunks
<1> HIDE DEF l
<1>2. x \in Nat /\ c = x + l + 1 BY <1>1 DEF Adds, l
<1>3. c \in 1 .. MaxChunk /\ Run(s, x) OBVIOUS
<1> HIDE DEF x, c
<1>4. /\ Append(s, c) \in Chunks /\ Run(Append(s, c), x) /\ Len(Append(s, c)) = l + 1
  BY <1>2, <1>3, RunGrows DEF l
<1> DEFINE m == Len(Append(s, c))
<1>5. m = l + 1 BY <1>4
<1> HIDE DEF m
<1>6. Adds(a, b, m, k + 1) BY <1>1, <1>5 DEF Adds, l
<1> QED BY <1>4, <1>6 DEF m, x, c

LEMMA QueueGrows ==
  ASSUME NEW a \in Nat, NEW s \in Chunks, NEW k \in Nat, Adds(a, Len(s), 0, k),
         Run(s, a), k + 1 \in 1 .. MaxChunk
  PROVE  LET t == Append(s, k + 1)
         IN t \in Chunks /\ Run(t, a) /\ Adds(a, Len(t), 0, k + 1)
<1>1. Len(s) \in Nat BY LenProperties DEF Chunks
<1>2. a + 0 = a /\ Adds(a, 0, Len(s), k) BY <1>1 DEF Adds
<1>3. LET t == Append(s, k + 1)
      IN t \in Chunks /\ Run(t, a) /\ Adds(a, 0, Len(t), k + 1)
  BY <1>2, BufferGrows
<1>4. Len(Append(s, k + 1)) \in Nat BY <1>3, LenProperties DEF Chunks
<1>5. \A m \in Nat : Adds(a, 0, m, k + 1) => Adds(a, m, 0, k + 1) BY DEF Adds
<1> QED BY <1>3, <1>4, <1>5

LEMMA WriteBodyStep == ClientIInv /\ WriteBody => ClientIInv'
<1> SUFFICES ASSUME ClientIInv, WriteBody PROVE ClientIInv' OBVIOUS
<1> DEFINE k == Len(seen.written)
           c == k + 1
           now == Written(req, upload, c)
           s == [seen EXCEPT !.written = Append(@, c)]
<1>p. /\ host \in Hosts /\ req \in Reqs /\ net \in Nets /\ seen \in Seens
      /\ upload \in Uploads /\ PhaseInv /\ BodyInv
      /\ req.body \in Chunks /\ req.buffer \in Chunks /\ upload.queue \in Chunks
      /\ net.body \in Chunks /\ seen.written \in Chunks
      /\ Len(req.body) \in Nat /\ Len(req.buffer) \in Nat
      /\ Len(upload.queue) \in Nat /\ Len(net.body) \in Nat /\ k \in Nat
  BY Parts
<1>l. /\ Len(req.buffer) \in Nat /\ Len(upload.queue) \in Nat
      /\ Len(net.body) \in Nat /\ k \in Nat
  BY <1>p
<1>w. /\ ~req.ended /\ k < MaxChunk /\ seen' = s /\ UNCHANGED host
      /\ IF req.deferred
         THEN req' = [req EXCEPT !.buffer = Append(@, c)] /\ UNCHANGED <<upload, net>>
         ELSE req' = now.req /\ upload' = now.upload /\ net' = Opened(req, now.req)
  BY DEF WriteBody
<1>c. c \in 1 .. MaxChunk BY <1>p, <1>w, ClientAssumption
<1>s. /\ s \in Seens /\ s.written = Append(seen.written, c) /\ s.lost = seen.lost
      /\ s.read = seen.read /\ Run(s.written, 0) /\ Len(s.written) = k + 1
  <2> DEFINE t == Append(seen.written, c)
  <2>1. t \in Chunks /\ Run(t, 0) /\ Len(t) = k + 1
    <3>1. c = 0 + Len(seen.written) + 1 BY <1>p
    <3>2. Run(seen.written, 0) BY <1>p DEF BodyInv
    <3> HIDE DEF c
    <3> QED BY <1>p, <1>c, <3>1, <3>2, RunGrows
  <2> HIDE DEF t
  <2>2. s = [seen EXCEPT !.written = t] BY DEF t
  <2> HIDE DEF s
  <2> QED BY <1>p, <2>1, <2>2 DEF Seens, t
<1>a. net.whole /\ req.started /\ host.post /\ ~seen.lost => FALSE
  BY <1>p, <1>w DEF BodyInv, PhaseInv, Streamed
<1>b. ~upload.closed BY <1>p, <1>w DEF PhaseInv
<1> HIDE DEF s
<1>1. CASE req.deferred
  <2> DEFINE b == Append(req.buffer, c)
             r == [req EXCEPT !.buffer = b]
  <2>1. b \in Chunks BY <1>p, <1>c, AppendProperties DEF Chunks
  <2>2. req' = r /\ UNCHANGED <<host, upload, net>> BY <1>w, <1>1
  <2> HIDE DEF b
  <2>3. /\ r \in Reqs /\ r.buffer = b /\ r.body = req.body /\ r.deferred = req.deferred
        /\ r.started = req.started /\ r.ended = req.ended
    BY <1>p, <2>1 DEF Reqs
  <2> HIDE DEF r
  <2>4. req.started BY <1>1, <1>p DEF PhaseInv
  <2>5. Typed(host', req', upload', net', seen') BY <1>p, <1>w, <1>s, <2>2, <2>3 DEF Typed
  <2>6. PhaseInv' BY <1>p, <1>w, <1>s, <2>2, <2>3, <2>4 DEF PhaseInv
  <2>7. ASSUME host.post, ~seen.lost PROVE Streamed(r, upload, net, k + 1)
    <3>1. Streamed(req, upload, net, k) BY <1>p, <2>4, <2>7 DEF BodyInv
    <3>s. Adds(Len(net.body), Len(upload.queue), Len(req.buffer), k)
      BY <3>1 DEF Streamed
    <3>3. Run(b, Len(net.body) + Len(upload.queue))
          /\ Adds(Len(net.body), Len(upload.queue), Len(b), k + 1)
      <4>1. Run(req.buffer, Len(net.body) + Len(upload.queue)) BY <3>1 DEF Streamed
      <4>2. k + 1 \in 1 .. MaxChunk BY <1>c
      <4> HIDE DEF k
      <4> QED BY <1>p, <3>s, <4>1, <4>2, BufferGrows DEF b
    <3> QED BY <1>1, <1>b, <1>a, <2>3, <2>4, <2>7, <3>1, <3>3 DEF Streamed
  <2>8. BodyInv' BY <1>w, <1>s, <2>2, <2>3, <2>4, <2>7 DEF BodyInv
  <2> QED BY <2>5, <2>6, <2>8, BodyIsNext
<1>2. CASE ~req.deferred /\ req.started
  <2>1. /\ now.req \in Reqs /\ now.upload \in Uploads /\ SameCall(req, now.req)
        /\ now.req.buffer = req.buffer
        /\ now.upload.queue = Append(upload.queue, c)
        /\ now.upload.closed = upload.closed
    <3> HIDE DEF c
    <3> QED BY <1>p, <1>c, <1>2, WrittenToStream
  <2>2. req' = now.req /\ upload' = now.upload /\ UNCHANGED <<host, net>>
    BY <1>w, <1>2, <2>1 DEF Opened
  <2> HIDE DEF now
  <2>5. Typed(host', req', upload', net', seen') BY <1>p, <1>w, <1>s, <2>2, <2>1 DEF Typed
  <2>6. PhaseInv' BY <1>p, <1>w, <1>s, <1>2, <2>1, <2>2 DEF PhaseInv, SameCall
  <2>7. ASSUME host.post, ~seen.lost PROVE Streamed(now.req, now.upload, net, k + 1)
    <3>1. Streamed(req, upload, net, k) BY <1>p, <1>2, <2>7 DEF BodyInv
    <3>s. Adds(Len(net.body), Len(upload.queue), Len(req.buffer), k)
      BY <3>1 DEF Streamed
    <3>2. req.buffer = << >> /\ Len(req.buffer) = 0
      BY <1>2, <3>1, EmptySeq DEF Streamed
    <3>4. /\ now.upload.queue \in Chunks /\ Run(now.upload.queue, Len(net.body))
          /\ Adds(Len(net.body), Len(now.upload.queue), 0, k + 1)
      <4>1. Run(upload.queue, Len(net.body)) BY <3>1 DEF Streamed
      <4>2. k + 1 \in 1 .. MaxChunk BY <1>c
      <4>3. Adds(Len(net.body), Len(upload.queue), 0, k) BY <3>s, <3>2
      <4>4. now.upload.queue = Append(upload.queue, k + 1) BY <2>1
      <4> HIDE DEF k
      <4> QED BY <1>p, <4>1, <4>2, <4>3, <4>4, QueueGrows
    <3>5. Adds(Len(net.body), Len(now.upload.queue), Len(now.req.buffer), k + 1)
      BY <2>1, <3>2, <3>4
    <3>6. Len(net.body) + Len(now.upload.queue) \in Nat
      <4>1. Len(now.upload.queue) \in Nat BY <3>4, LenProperties DEF Chunks
      <4> QED BY <1>l, <4>1, SumIsNat
    <3> QED
      BY <1>b, <1>a, <1>2, <2>1, <2>7, <3>1, <3>2, <3>4, <3>5, <3>6, NothingWritten
      DEF Streamed, SameCall
  <2>8. BodyInv' BY <1>w, <1>s, <1>2, <2>1, <2>2, <2>7 DEF BodyInv, SameCall
  <2> QED BY <2>5, <2>6, <2>8, BodyIsNext
<1>3. CASE ~req.deferred /\ ~req.started
  <2> DEFINE b == Append(req.body, c)
             grown == [req EXCEPT !.body = b]
  <2>0. req.buffer = << >> /\ upload.queue = << >> /\ net.at = "idle"
        /\ net.body = << >> /\ ~net.whole /\ ~seen.lost
    BY <1>p, <1>w, <1>3 DEF PhaseInv
  <2>1. b \in Chunks BY <1>p, <1>c, AppendProperties DEF Chunks
  <2>2. host.post => Run(b, 0) /\ Len(b) = k + 1
    <3>1. host.post => Run(req.body, 0) /\ Len(req.body) = k
      BY <1>p, <1>3, <2>0 DEF BodyInv, Collected
    <3> QED BY <1>p, <1>w, <3>1, CollectedGrows
  <2> HIDE DEF b
  <2>3. /\ grown \in Reqs /\ grown.body = b /\ grown.buffer = << >> /\ ~grown.deferred
        /\ ~grown.started /\ ~grown.ended
    BY <1>p, <1>w, <1>3, <2>0, <2>1 DEF Reqs
  <2>4. CASE Len(b) > WriteMark /\ CanStream
    <3> DEFINE v == [upload EXCEPT !.queue = @ \o b]
               r == Streaming(grown)
    <3>1. now = [req |-> r, upload |-> v] BY <1>3, <2>4 DEF Written, b
    <3>2. upload.queue \o b = b BY <2>0, <2>1, ConcatEmptySeq DEF Chunks
    <3>3. v \in Uploads /\ v.queue = b /\ v.closed = upload.closed
      BY <1>p, <2>1, <3>2 DEF Uploads
    <3> HIDE DEF v, grown
    <3>4. /\ r \in Reqs /\ r.body = << >> /\ r.buffer = << >> /\ ~r.deferred
          /\ r.started /\ ~r.ended
      BY <2>3, NothingWritten DEF Streaming, Reqs
    <3> HIDE DEF r
    <3>5. now.req = r /\ now.upload = v BY <3>1
    <3> HIDE DEF now
    <3>6. req' = r /\ upload' = v /\ net' = Fetching /\ UNCHANGED host
      BY <1>w, <1>3, <3>4, <3>5 DEF Opened
    <3>7. /\ Fetching \in Nets /\ Fetching.at = "sent" /\ Fetching.body = << >>
          /\ ~Fetching.whole /\ Fetching.pieces = net.pieces
      BY <1>p, <2>0 DEF Fetching, Nets
    <3>8. Typed(host', req', upload', net', seen')
      BY <1>p, <1>w, <1>s, <3>3, <3>4, <3>6, <3>7 DEF Typed
    <3>9. PhaseInv'
      BY <1>p, <1>w, <1>s, <1>b, <3>3, <3>4, <3>6, <3>7 DEF PhaseInv
    <3>10. ASSUME host.post PROVE Streamed(r, v, Fetching, k + 1)
      <4>1. Len(b) = k + 1 /\ Run(b, 0) /\ 0 + Len(b) \in Nat
        BY <1>p, <2>2, <3>10
      <4>2. Len(<< >>) = 0 /\ Run(<< >>, 0 + Len(b)) /\ Run(<< >>, 0)
        BY <4>1, NothingWritten
      <4>3. Len(<< >>) + Len(b) = Len(b) /\ Adds(Len(<< >>), Len(b), Len(<< >>), k + 1)
        <5>1. k + 1 \in Nat BY <1>p
        <5> HIDE DEF k
        <5> QED BY <4>1, <4>2, <5>1, AllBuffered
      <4> QED BY <1>p, <1>b, <3>3, <3>4, <3>7, <4>1, <4>2, <4>3 DEF Streamed
    <3>11. BodyInv' BY <1>w, <1>s, <2>0, <3>4, <3>6, <3>10 DEF BodyInv
    <3> QED BY <3>8, <3>9, <3>11, BodyIsNext
  <2>5. CASE ~(Len(b) > WriteMark /\ CanStream)
    <3>1. now = [req |-> grown, upload |-> upload] BY <1>3, <2>5 DEF Written, b
    <3> HIDE DEF grown
    <3>2. now.req = grown /\ now.upload = upload BY <3>1
    <3> HIDE DEF now
    <3>3. req' = grown /\ UNCHANGED <<host, upload, net>>
      BY <1>w, <1>3, <2>3, <3>2 DEF Opened
    <3>4. Typed(host', req', upload', net', seen')
      BY <1>p, <1>w, <1>s, <2>3, <3>3 DEF Typed
    <3>5. PhaseInv'
      BY <1>p, <1>w, <1>s, <1>3, <1>b, <2>0, <2>3, <3>3 DEF PhaseInv
    <3>6. BodyInv'
      BY <1>w, <1>s, <2>0, <2>2, <2>3, <3>3 DEF BodyInv, Collected
    <3> QED BY <3>4, <3>5, <3>6, BodyIsNext
  <2> QED BY <2>4, <2>5
<1> QED BY <1>1, <1>2, <1>3

(* The request is sent before its body is complete.                         *)
LEMMA FlushHeadersStep == ClientIInv /\ FlushHeaders => ClientIInv'
<1> SUFFICES ASSUME ClientIInv, FlushHeaders PROVE ClientIInv' OBVIOUS
<1> DEFINE r == [req EXCEPT !.started = TRUE]
           x == req.body # << >>
           s == [seen EXCEPT !.lost = x]
<1>p. /\ host \in Hosts /\ req \in Reqs /\ net \in Nets /\ seen \in Seens
      /\ upload \in Uploads /\ PhaseInv /\ BodyInv
  BY Parts
<1>w. /\ ~req.started /\ host.post /\ ~req.ended
      /\ req' = r /\ net' = Fetching /\ seen' = s /\ UNCHANGED <<host, upload>>
  BY DEF FlushHeaders, CanStream
<1>0. req.buffer = << >> /\ upload.queue = << >> /\ net.at = "idle" /\ ~upload.closed
      /\ net.body = << >> /\ ~net.whole /\ ~seen.lost
  BY <1>p, <1>w DEF PhaseInv
<1>1. /\ r \in Reqs /\ r.started /\ r.body = req.body /\ r.buffer = << >> /\ ~r.ended
  BY <1>p, <1>w, <1>0 DEF Reqs
<1>2. s \in Seens /\ s.written = seen.written /\ s.read = seen.read /\ (s.lost <=> x)
  <2>1. x \in BOOLEAN OBVIOUS
  <2> HIDE DEF x
  <2> QED BY <1>p, <2>1 DEF Seens
<1>3. /\ Fetching \in Nets /\ Fetching.at = "sent" /\ Fetching.body = << >>
      /\ ~Fetching.whole /\ Fetching.pieces = net.pieces
  BY <1>p, <1>0 DEF Fetching, Nets
<1> HIDE DEF r, s
<1>4. Typed(host', req', upload', net', seen')
  BY <1>p, <1>w, <1>1, <1>2, <1>3 DEF Typed
<1>5. PhaseInv' BY <1>p, <1>w, <1>0, <1>1, <1>2, <1>3 DEF PhaseInv
<1>6. ASSUME ~x PROVE Streamed(r, upload, Fetching, Len(seen.written))
  <2>1. Len(seen.written) = 0
    BY <1>p, <1>w, <1>0, <1>6, NothingWritten DEF BodyInv, Collected
  <2>2. Adds(0, 0, 0, 0) /\ 0 + 0 \in Nat BY DEF Adds
  <2> QED BY <1>0, <1>1, <1>3, <1>6, <2>1, <2>2, NothingWritten DEF Streamed
<1>7. BodyInv' BY <1>p, <1>w, <1>1, <1>2, <1>6 DEF BodyInv
<1> QED BY <1>4, <1>5, <1>7, BodyIsNext

(* What end() adds: the next chunk, or nothing.                             *)
LEMMA LastChunk ==
  ASSUME NEW s \in Chunks, NEW c \in 1 .. MaxChunk
  PROVE  s \o <<c>> = Append(s, c) /\ s \o << >> = s
<1>1. s \in Seq(1 .. MaxChunk) BY DEF Chunks
<1>2. s \o <<c>> = Append(s, c) BY <1>1, AppendIsConcat
<1>3. s \o << >> = s BY <1>1, ConcatEmptySeq
<1> QED BY <1>2, <1>3

LEMMA EndStep == ClientIInv /\ (\E last \in BOOLEAN : End(last)) => ClientIInv'
<1> SUFFICES ASSUME ClientIInv, NEW last \in BOOLEAN, End(last) PROVE ClientIInv' OBVIOUS
<1> DEFINE k == Len(seen.written)
           c == IF last THEN <<k + 1>> ELSE << >>
           m == IF last THEN k + 1 ELSE k
           x == seen.lost \/ req.deferred
           s == [seen EXCEPT !.written = @ \o c, !.lost = @ \/ req.deferred]
<1>p. /\ host \in Hosts /\ req \in Reqs /\ net \in Nets /\ seen \in Seens
      /\ upload \in Uploads /\ PhaseInv /\ BodyInv
      /\ req.body \in Chunks /\ req.buffer \in Chunks /\ upload.queue \in Chunks
      /\ net.body \in Chunks /\ seen.written \in Chunks
      /\ Len(req.body) \in Nat /\ Len(req.buffer) \in Nat
      /\ Len(upload.queue) \in Nat /\ Len(net.body) \in Nat /\ k \in Nat
  BY Parts
<1>w. /\ ~req.ended /\ (last => k < MaxChunk) /\ seen' = s /\ UNCHANGED host
      /\ IF req.started
         THEN /\ req' = [req EXCEPT !.ended = TRUE]
              /\ upload' = [queue |-> upload.queue \o c, closed |-> TRUE]
              /\ UNCHANGED net
         ELSE /\ req' = [req EXCEPT !.ended = TRUE, !.body = @ \o c]
              /\ net' = [net EXCEPT !.at = "opening", !.via = Routed]
              /\ UNCHANGED upload
  BY DEF End
<1>c. last => k + 1 \in 1 .. MaxChunk BY <1>p, <1>w, ClientAssumption
<1>m. /\ m \in Nat
      /\ \A q \in Chunks : q \o c = (IF last THEN Append(q, k + 1) ELSE q) /\ q \o c \in Chunks
  <2>0. m \in Nat BY <1>p
  <2>1. CASE last
    <3> DEFINE d == k + 1
    <3>1. d \in 1 .. MaxChunk BY <1>c, <2>1
    <3>2. c = <<d>> BY <2>1
    <3> HIDE DEF d, c
    <3>3. \A q \in Chunks : q \o c = Append(q, d) /\ Append(q, d) \in Chunks
      BY <3>1, <3>2, LastChunk, AppendProperties DEF Chunks
    <3> QED BY <2>0, <2>1, <3>3 DEF d
  <2>2. CASE ~last
    <3>1. \A q \in Chunks : q \o << >> = q BY ConcatEmptySeq DEF Chunks
    <3> QED BY <2>0, <2>2, <3>1
  <2> QED BY <2>1, <2>2
<1>b. ASSUME NEW q \in Chunks, Run(q, 0), Len(q) = k
      PROVE  q \o c \in Chunks /\ Run(q \o c, 0) /\ Len(q \o c) = m
  <2>1. CASE ~last BY <1>b, <1>m, <2>1
  <2>2. CASE last
    <3>1. k + 1 \in 1 .. MaxChunk /\ k + 1 = 0 + Len(q) + 1 BY <1>p, <1>c, <1>b, <2>2
    <3>2. /\ Append(q, k + 1) \in Chunks /\ Run(Append(q, k + 1), 0)
          /\ Len(Append(q, k + 1)) = Len(q) + 1
      <4> DEFINE d == k + 1
      <4>1. d \in 1 .. MaxChunk /\ d = 0 + Len(q) + 1 BY <3>1
      <4> HIDE DEF d
      <4>2. /\ Append(q, d) \in Chunks /\ Run(Append(q, d), 0)
            /\ Len(Append(q, d)) = Len(q) + 1
        BY <1>b, <4>1, RunGrows
      <4> QED BY <4>2 DEF d
    <3> QED BY <1>m, <1>b, <2>2, <3>2
  <2> QED BY <2>1, <2>2
<1>s. /\ s \in Seens /\ (s.lost <=> x) /\ s.read = seen.read
      /\ Run(s.written, 0) /\ Len(s.written) = m
  <2> DEFINE t == seen.written \o c
  <2>1. t \in Chunks /\ Run(t, 0) /\ Len(t) = m BY <1>p, <1>b DEF BodyInv
  <2>2. x \in BOOLEAN BY <1>p DEF Seens, Reqs
  <2>3. s = [seen EXCEPT !.written = t, !.lost = x] BY <1>p DEF t, x
  <2> HIDE DEF t, x, s, m
  <2> QED BY <1>p, <2>1, <2>2, <2>3 DEF Seens
<1> HIDE DEF s
<1>1. CASE req.started
  <2> DEFINE r == [req EXCEPT !.ended = TRUE]
             q == upload.queue \o c
             u == [queue |-> q, closed |-> TRUE]
  <2>1. req' = r /\ upload' = u /\ UNCHANGED <<host, net>> BY <1>w, <1>1
  <2>2. q \in Chunks BY <1>p, <1>m
  <2>3. /\ r \in Reqs /\ r.body = req.body /\ r.buffer = req.buffer
        /\ r.deferred = req.deferred /\ r.started /\ r.ended
    BY <1>p, <1>1 DEF Reqs
  <2> HIDE DEF r
  <2>4. u \in Uploads /\ u.queue = q /\ u.closed
    <3> HIDE DEF q
    <3> QED BY <2>2 DEF Uploads
  <2>5. ASSUME host.post, ~x PROVE Streamed(r, u, net, m)
    <3>1. /\ Streamed(req, upload, net, k) /\ ~req.deferred /\ ~upload.closed
      BY <1>p, <1>w, <1>1, <2>5 DEF BodyInv, PhaseInv
    <3>2. req.buffer = << >> /\ Len(req.buffer) = 0 /\ ~net.whole /\ req.body = << >>
          /\ Run(net.body, 0) /\ Run(upload.queue, Len(net.body))
          /\ Adds(Len(net.body), Len(upload.queue), Len(req.buffer), k)
      BY <3>1, NothingWritten DEF Streamed
    <3>3. Run(q, Len(net.body)) /\ Adds(Len(net.body), Len(q), 0, m)
      <4>1. CASE ~last BY <1>p, <1>m, <3>2, <4>1
      <4>2. CASE last
        <5>1. k + 1 \in 1 .. MaxChunk /\ q = Append(upload.queue, k + 1) /\ m = k + 1
          BY <1>p, <1>m, <1>c, <4>2
        <5>2. Adds(Len(net.body), Len(upload.queue), 0, k) BY <3>2
        <5> HIDE DEF q, m, k
        <5> QED BY <1>p, <3>2, <5>1, <5>2, QueueGrows
      <4> QED BY <4>1, <4>2
    <3>4. Len(net.body) + Len(q) \in Nat
      BY <1>p, <2>2, SumIsNat, LenProperties DEF Chunks
    <3> HIDE DEF q, u, m
    <3> QED BY <2>3, <2>4, <3>1, <3>2, <3>3, <3>4, NothingWritten DEF Streamed
  <2> HIDE DEF u
  <2>6. Typed(host', req', upload', net', seen')
    BY <1>p, <1>w, <1>s, <2>1, <2>3, <2>4 DEF Typed
  <2>7. PhaseInv' BY <1>p, <1>w, <1>s, <2>1, <2>3, <2>4 DEF PhaseInv
  <2>8. BodyInv' BY <1>p, <1>w, <1>s, <2>1, <2>3, <2>5 DEF BodyInv
  <2> QED BY <2>6, <2>7, <2>8, BodyIsNext
<1>2. CASE ~req.started
  <2> DEFINE b == req.body \o c
             r == [req EXCEPT !.ended = TRUE, !.body = b]
             n == [net EXCEPT !.at = "opening", !.via = Routed]
  <2>0. /\ req.buffer = << >> /\ ~req.deferred /\ upload.queue = << >> /\ ~upload.closed
        /\ net.at = "idle" /\ net.body = << >> /\ ~net.whole
    BY <1>p, <1>w, <1>2 DEF PhaseInv
  <2>1. req' = r /\ net' = n /\ UNCHANGED <<host, upload>> BY <1>w, <1>2
  <2>2. b \in Chunks BY <1>p, <1>m
  <2>3. host.post /\ ~x => Run(b, 0) /\ Len(b) = m
    <3>1. host.post /\ ~x => Run(req.body, 0) /\ Len(req.body) = k
      BY <1>p, <1>2 DEF BodyInv, Collected
    <3> QED BY <1>p, <1>b, <3>1
  <2> HIDE DEF b
  <2>4. /\ r \in Reqs /\ r.body = b /\ r.buffer = << >> /\ ~r.deferred
        /\ ~r.started /\ r.ended
    BY <1>p, <1>2, <2>0, <2>2 DEF Reqs
  <2> HIDE DEF r
  <2>5. Routed \in {"gvisor", "wisp", "native"} BY <1>p DEF Routed, Hosts, Tiers
  <2>6. /\ n \in Nets /\ n.at = "opening" /\ n.body = << >> /\ ~n.whole
        /\ n.pieces = net.pieces
    BY <1>p, <2>0, <2>5 DEF Nets
  <2> HIDE DEF n
  <2>7. Typed(host', req', upload', net', seen')
    BY <1>p, <1>w, <1>s, <2>1, <2>4, <2>6 DEF Typed
  <2>8. PhaseInv' BY <1>p, <1>w, <1>s, <2>0, <2>1, <2>4, <2>6 DEF PhaseInv
  <2>9. BodyInv'
    <3>1. (~s.lost => ~x) /\ Run(s.written, 0) /\ Len(s.written) = m BY <1>s
    <3> HIDE DEF x, m
    <3> QED BY <1>w, <2>1, <2>3, <2>4, <2>6, <3>1 DEF BodyInv, Collected
  <2> QED BY <2>7, <2>8, <2>9, BodyIsNext
<1> QED BY <1>1, <1>2

(* What refilling leaves alone, whatever waits.                             *)
LEMMA RefilledKeeps ==
  ASSUME NEW r \in Reqs, NEW u \in Uploads
  PROVE  LET now == Refilled(r, u)
         IN /\ now.req \in Reqs /\ now.upload \in Uploads /\ SameCall(r, now.req)
            /\ now.upload.closed = u.closed
<1> DEFINE room == StreamMark - Len(u.queue)
           n == IF room < Len(r.buffer) THEN room ELSE Len(r.buffer)
           front == SubSeq(r.buffer, 1, n)
           rest == SubSeq(r.buffer, n + 1, Len(r.buffer))
           q == u.queue \o front
           x == Len(q) >= StreamMark
           p == [r EXCEPT !.buffer = rest, !.deferred = x]
           v == [u EXCEPT !.queue = q]
<1>0. u.queue \in Chunks /\ r.buffer \in Chunks BY DEF Reqs, Uploads
<1>l. Len(u.queue) \in Nat /\ Len(r.buffer) \in Nat BY <1>0, LenProperties DEF Chunks
<1>1. CASE ~(r.deferred /\ room > 0)
  <2>1. Refilled(r, u) = [req |-> r, upload |-> u] BY <1>1 DEF Refilled
  <2>2. Refilled(r, u).req = r /\ Refilled(r, u).upload = u BY <2>1
  <2> QED BY <2>2 DEF SameCall
<1>2. CASE r.deferred /\ room > 0
  <2>1. Refilled(r, u) = [req |-> p, upload |-> v] BY <1>2 DEF Refilled
  <2>2. n \in 0 .. Len(r.buffer)
    <3> DEFINE k == Len(u.queue)
               l == Len(r.buffer)
    <3>1. k \in Nat /\ l \in Nat /\ StreamMark \in Nat /\ StreamMark - k > 0
      BY <1>2, <1>l, ClientAssumption
    <3> HIDE DEF k, l
    <3>2. \A m : m = (IF StreamMark - k < l THEN StreamMark - k ELSE l) => m \in 0 .. l
      BY <3>1
    <3>3. n = (IF StreamMark - k < l THEN StreamMark - k ELSE l) BY DEF k, l
    <3> QED BY <3>2, <3>3 DEF k, l
  <2> HIDE DEF n
  <2>3. front \in Chunks /\ rest \in Chunks BY <1>0, <2>2, TwoPieces DEF Chunks
  <2> HIDE DEF front, rest
  <2>4. q \in Chunks BY <1>0, <2>3, ConcatProperties DEF Chunks
  <2>5. x \in BOOLEAN OBVIOUS
  <2> HIDE DEF q, x, room
  <2>6. p \in Reqs /\ SameCall(r, p) BY <2>3, <2>5 DEF Reqs, SameCall
  <2>7. v \in Uploads /\ v.closed = u.closed BY <2>4 DEF Uploads
  <2> HIDE DEF p, v
  <2>8. Refilled(r, u).req = p /\ Refilled(r, u).upload = v BY <2>1
  <2> QED BY <2>6, <2>7, <2>8
<1> QED BY <1>1, <1>2

(* A chunk that is taken leaves the queue, and what waits fills it.         *)
LEMMA TakenInOrder ==
  ASSUME ClientIInv, upload.queue # << >>, req.started, ~net.whole,
         Streamed(req, upload, net, Len(seen.written)),
         NEW n \in Nets, n.body = Append(net.body, Head(upload.queue)), ~n.whole
  PROVE  LET now == Pulled([upload EXCEPT !.queue = Tail(@)])
         IN  Streamed(now.req, now.upload, n, Len(seen.written))
<1> DEFINE k == Len(seen.written)
           u == [upload EXCEPT !.queue = Tail(@)]
           now == Pulled(u)
           a == Len(net.body)
           b == Len(upload.queue)
           d == Len(req.buffer)
<1> SUFFICES Streamed(now.req, now.upload, n, k) OBVIOUS
<1>p. /\ req \in Reqs /\ upload \in Uploads /\ net.body \in Chunks
      /\ upload.queue \in Chunks /\ req.buffer \in Chunks
      /\ a \in Nat /\ b \in Nat /\ d \in Nat /\ k \in Nat
  BY Parts
<1>1. /\ req.body = << >> /\ Run(net.body, 0) /\ Run(upload.queue, a)
      /\ Run(req.buffer, a + b) /\ Adds(a, b, d, k)
      /\ req.deferred \/ req.buffer = << >>
      /\ upload.closed => req.buffer = << >>
  BY DEF Streamed
<1>2. /\ Head(upload.queue) = a + 1 /\ Head(upload.queue) \in 1 .. MaxChunk
      /\ Tail(upload.queue) \in Chunks /\ Run(Tail(upload.queue), a + 1)
      /\ Len(Tail(upload.queue)) = b - 1
  <2> HIDE DEF a, b
  <2> QED BY <1>p, <1>1, RunShrinks DEF b
<1>3. n.body \in Chunks /\ Run(n.body, 0) /\ Len(n.body) = a + 1
  <2>1. Head(upload.queue) = 0 + Len(net.body) + 1 BY <1>p, <1>2
  <2> QED BY <1>p, <1>1, <1>2, <2>1, RunGrows
<1>4. u \in Uploads /\ u.queue = Tail(upload.queue) /\ u.closed = upload.closed
  <2> DEFINE q == Tail(upload.queue)
  <2>1. q \in Chunks /\ u = [upload EXCEPT !.queue = q] BY <1>2
  <2> HIDE DEF q, u
  <2> QED BY <1>p, <2>1 DEF Uploads, q
<1> DEFINE e == Len(n.body)
           f == Len(u.queue)
<1>5. /\ e \in Nat /\ f \in Nat /\ Run(u.queue, e) /\ Run(req.buffer, e + f)
      /\ Adds(e, f, d, k)
  <2>1. e = a + 1 /\ f = b - 1 /\ f \in Nat
    BY <1>2, <1>3, <1>4, LenProperties DEF Chunks
  <2>2. Run(u.queue, a + 1) BY <1>2, <1>4
  <2> HIDE DEF a, b, d, e, f, k
  <2>3. e \in Nat /\ e + f = a + b /\ Adds(e, f, d, k) BY <1>p, <1>1, <2>1 DEF Adds
  <2> QED BY <1>1, <2>1, <2>2, <2>3
<1> HIDE DEF u
<1>6. CASE upload.closed
  <2>1. now = [req |-> req, upload |-> u] BY <1>4, <1>6 DEF Pulled
  <2> HIDE DEF now, k
  <2>2. now.req = req /\ now.upload = u BY <2>1
  <2> QED BY <1>1, <1>3, <1>4, <1>5, <1>6, <2>2 DEF Streamed
<1>7. CASE ~upload.closed
  <2>1. now = Refilled(req, u) BY <1>4, <1>7 DEF Pulled
  <2> HIDE DEF now, a, b
  <2>2. /\ SameCall(req, now.req)
        /\ now.upload.closed = u.closed
        /\ Run(now.upload.queue, e)
        /\ Run(now.req.buffer, e + Len(now.upload.queue))
        /\ Len(now.upload.queue) + Len(now.req.buffer) = f + d
        /\ now.req.deferred \/ now.req.buffer = << >>
        /\ now.req \in Reqs /\ now.upload \in Uploads
    <3>1. Run(u.queue, e) /\ Run(req.buffer, e + Len(u.queue)) BY <1>5
    <3> HIDE DEF e
    <3>2. e \in Nat BY <1>5
    <3> QED BY <1>p, <1>1, <1>4, <2>1, <3>1, <3>2, RefilledInOrder
  <2>3. Adds(e, Len(now.upload.queue), Len(now.req.buffer), k)
    <3> DEFINE g == Len(now.upload.queue)
               h == Len(now.req.buffer)
    <3>1. g \in Nat /\ h \in Nat BY <2>2, LenProperties DEF Reqs, Uploads, Chunks
    <3>2. g + h = f + d BY <2>2
    <3> HIDE DEF d, e, f, g, h, k
    <3>3. Adds(e, g, h, k) BY <1>p, <1>5, <3>1, <3>2 DEF Adds
    <3> QED BY <3>3 DEF g, h
  <2> HIDE DEF d, f, k
  <2> QED BY <1>1, <1>3, <1>4, <1>7, <2>2, <2>3 DEF Streamed, SameCall
<1> QED BY <1>6, <1>7

LEMMA TakeStep == ClientIInv /\ Take => ClientIInv'
<1> SUFFICES ASSUME ClientIInv, Take PROVE ClientIInv' OBVIOUS
<1>p. /\ host \in Hosts /\ req \in Reqs /\ net \in Nets /\ seen \in Seens
      /\ upload \in Uploads /\ PhaseInv /\ BodyInv
      /\ upload.queue \in Chunks /\ net.body \in Chunks
  BY Parts
<1>w. req.started /\ net.at = "sent" /\ ~net.whole /\ UNCHANGED <<host, seen>>
  BY DEF Take
<1>1. CASE upload.queue = << >>
  <2> DEFINE n == [net EXCEPT !.whole = TRUE]
  <2>1. upload.closed /\ net' = n /\ UNCHANGED <<req, upload>> BY <1>1 DEF Take
  <2>2. /\ n \in Nets /\ n.body = net.body /\ n.at = net.at /\ n.pieces = net.pieces
    BY <1>p DEF Nets
  <2> HIDE DEF n
  <2>3. Typed(host', req', upload', net', seen') BY <1>p, <1>w, <2>1, <2>2 DEF Typed
  <2>4. PhaseInv' BY <1>p, <1>w, <2>1, <2>2 DEF PhaseInv
  <2>5. BodyInv' BY <1>p, <1>w, <1>1, <2>1, <2>2 DEF BodyInv, Streamed
  <2> QED BY <2>3, <2>4, <2>5, BodyIsNext
<1>2. CASE upload.queue # << >>
  <2> DEFINE u == [upload EXCEPT !.queue = Tail(@)]
             now == Pulled(u)
             b == Append(net.body, Head(upload.queue))
             n == [net EXCEPT !.body = b]
  <2>1. net' = n /\ req' = now.req /\ upload' = now.upload BY <1>2 DEF Take
  <2>2. b \in Chunks /\ Tail(upload.queue) \in Chunks
    BY <1>p, <1>2, HeadAndTail, AppendProperties DEF Chunks
  <2> HIDE DEF b
  <2>3. /\ n \in Nets /\ n.body = b /\ n.at = net.at /\ n.via = net.via
        /\ n.pieces = net.pieces /\ ~n.whole
    BY <1>p, <1>w, <2>2 DEF Nets
  <2> HIDE DEF n
  <2>4. u \in Uploads /\ u.closed = upload.closed
    <3> DEFINE q == Tail(upload.queue)
    <3>1. u = [upload EXCEPT !.queue = q] BY DEF q
    <3> HIDE DEF q, u
    <3> QED BY <1>p, <2>2, <3>1 DEF Uploads, q
  <2>5. ASSUME Streamed(req, upload, net, Len(seen.written))
        PROVE  Streamed(now.req, now.upload, n, Len(seen.written))
    BY <1>2, <1>w, <2>3, <2>5, TakenInOrder DEF b
  <2> HIDE DEF u
  <2>6. /\ now.req \in Reqs /\ now.upload \in Uploads /\ SameCall(req, now.req)
        /\ now.upload.closed = u.closed
    <3>1. CASE u.closed
      <4>1. now = [req |-> req, upload |-> u] BY <3>1 DEF Pulled
      <4> HIDE DEF now
      <4>2. now.req = req /\ now.upload = u BY <4>1
      <4> QED BY <1>p, <2>4, <4>2 DEF SameCall
    <3>2. CASE ~u.closed
      <4>1. now = Refilled(req, u) BY <3>2 DEF Pulled
      <4> HIDE DEF now
      <4> QED BY <1>p, <2>4, <4>1, RefilledKeeps
    <3> QED BY <3>1, <3>2
  <2> HIDE DEF now
  <2>7. Typed(host', req', upload', net', seen') BY <1>p, <1>w, <2>1, <2>3, <2>6 DEF Typed
  <2>8. PhaseInv' BY <1>p, <1>w, <2>1, <2>3, <2>4, <2>6 DEF PhaseInv, SameCall
  <2>9. BodyInv' BY <1>p, <1>w, <2>1, <2>5, <2>6 DEF BodyInv, SameCall
  <2> QED BY <2>7, <2>8, <2>9, BodyIsNext
<1> QED BY <1>1, <1>2

(* The connection is there: a body that is complete is sent whole.          *)
LEMMA ConnectedStep == ClientIInv /\ Connected => ClientIInv'
<1> SUFFICES ASSUME ClientIInv, Connected PROVE ClientIInv' OBVIOUS
<1>p. /\ host \in Hosts /\ req \in Reqs /\ net \in Nets /\ seen \in Seens
      /\ upload \in Uploads /\ PhaseInv /\ BodyInv /\ req.body \in Chunks
  BY Parts
<1>w. net.at = "opening" /\ UNCHANGED <<host, req, upload, seen>> BY DEF Connected
<1>1. CASE net' = Over
  <2>1. ClientTypeOK /\ seen.read = net.pieces /\ net.at # "idle"
    BY <1>p, <1>w DEF ClientIInv, PhaseInv
  <2> QED BY <1>p, <1>w, <1>1, <2>1, QuietParts, BodyQuiet
<1>2. CASE net' = [net EXCEPT !.at = "sent", !.body = Body, !.whole = TRUE]
  <2> DEFINE n == [net EXCEPT !.at = "sent", !.body = Body, !.whole = TRUE]
  <2>0. ~req.started /\ req.ended BY <1>p, <1>w DEF PhaseInv
  <2>1. Body \in Chunks /\ (host.post => Body = req.body) BY <1>p, NothingWritten DEF Body
  <2>2. n \in Nets /\ n.at = "sent" /\ n.body = Body /\ n.whole /\ n.pieces = net.pieces
    BY <1>p, <2>1 DEF Nets
  <2> HIDE DEF n
  <2>3. net' = n BY <1>2 DEF n
  <2>4. Typed(host', req', upload', net', seen') BY <1>p, <1>w, <2>2, <2>3 DEF Typed
  <2>5. PhaseInv' BY <1>p, <1>w, <2>0, <2>2, <2>3 DEF PhaseInv
  <2>6. BodyInv' BY <1>p, <1>w, <2>0, <2>1, <2>2, <2>3 DEF BodyInv, Collected
  <2> QED BY <2>4, <2>5, <2>6, BodyIsNext
<1> QED BY <1>1, <1>2 DEF Connected, Over

(* A fetch that fails is made again, and nothing of its body has been sent. *)
LEMMA FetchFailsStep == ClientIInv /\ FetchFails => ClientIInv'
<1> SUFFICES ASSUME ClientIInv, FetchFails PROVE ClientIInv' OBVIOUS
<1>p. /\ host \in Hosts /\ req \in Reqs /\ net \in Nets /\ seen \in Seens
      /\ upload \in Uploads /\ PhaseInv /\ BodyInv /\ ClientTypeOK
  BY Parts DEF ClientIInv
<1>w. net.at \in {"opening", "sent"} /\ UNCHANGED <<host, upload>> BY DEF FetchFails
<1>1. ASSUME NEW via \in {"proxy", "fallback"}, Replayable, net' = Again(via),
             UNCHANGED <<req, seen>>
      PROVE  ClientIInv'
  <2>0. ~req.started /\ req.ended BY <1>p, <1>w, <1>1 DEF PhaseInv, Replayable
  <2>1. /\ Again(via) \in Nets /\ Again(via).at = "opening" /\ Again(via).body = << >>
        /\ ~Again(via).whole /\ Again(via).pieces = net.pieces
    BY <1>p, NothingWritten DEF Again, Nets
  <2>2. Typed(host', req', upload', net', seen') BY <1>p, <1>w, <1>1, <2>1 DEF Typed
  <2>3. PhaseInv' BY <1>p, <1>w, <1>1, <2>0, <2>1 DEF PhaseInv
  <2>4. BodyInv' BY <1>p, <1>w, <1>1, <2>0, <2>1 DEF BodyInv, Collected
  <2> QED BY <2>2, <2>3, <2>4, BodyIsNext
<1>2. ASSUME net' = Over, seen' = Reported, req' = [req EXCEPT !.timer = FALSE]
      PROVE  ClientIInv'
  <2>1. seen.read = net.pieces /\ net.at # "idle" BY <1>p, <1>w DEF PhaseInv
  <2> QED BY <1>p, <1>w, <1>2, <2>1, QuietParts, BodyQuiet
<1> QED BY <1>1, <1>2 DEF FetchFails

LEMMA ClientIsKept == ClientIInv /\ [ClientNext]_clientVars => ClientIInv'
<1> SUFFICES ASSUME ClientIInv, [ClientNext]_clientVars PROVE ClientIInv' OBVIOUS
<1>1. CASE UNCHANGED clientVars
  <2>1. UNCHANGED <<host, req, upload, net, seen>> BY <1>1 DEF clientVars
  <2>2. ClientTypeOK' BY <2>1 DEF ClientIInv, ClientTypeOK
  <2>3. PhaseInv' BY <2>1 DEF ClientIInv, PhaseInv
  <2>4. BodyInv' BY <2>1 DEF ClientIInv, BodyInv, Streamed, Collected
  <2> QED BY <2>2, <2>3, <2>4 DEF ClientIInv
<1>2. CASE ClientNext
  BY <1>2, WriteBodyStep, FlushHeadersStep, TakeStep, ConnectedStep, FetchFailsStep,
     EndStep, QuietSteps DEF ClientNext
<1> QED BY <1>1, <1>2

LEMMA ClientImplies == ClientIInv => BodyIsExact
<1> SUFFICES ASSUME ClientIInv, host.post, ~seen.lost
             PROVE  /\ net.body = SubSeq(seen.written, 1, Len(net.body))
                    /\ net.whole => net.body = seen.written
  BY DEF BodyIsExact
<1> DEFINE k == Len(seen.written)
<1>p. /\ PhaseInv /\ BodyInv /\ net.body \in Chunks /\ seen.written \in Chunks
      /\ Len(net.body) \in Nat /\ k \in Nat /\ Len(upload.queue) \in Nat
      /\ Len(req.buffer) \in Nat /\ req.body \in Chunks
  BY Parts
<1>1. Run(net.body, 0) /\ Len(net.body) <= k /\ (net.whole => Len(net.body) = k)
  <2>1. CASE req.started
    <3>1. Streamed(req, upload, net, k) BY <1>p, <2>1 DEF BodyInv
    <3>2. /\ Run(net.body, 0) /\ Adds(Len(net.body), Len(upload.queue), Len(req.buffer), k)
          /\ net.whole => upload.queue = << >> /\ req.buffer = << >>
      BY <3>1 DEF Streamed
    <3>3. net.whole => Len(upload.queue) = 0 /\ Len(req.buffer) = 0
      BY <3>2, NothingWritten
    <3>4. \A a, b, d, e \in Nat :
            Adds(a, b, d, e) => a <= e /\ (b = 0 /\ d = 0 => a = e)
      BY DEF Adds
    <3> HIDE DEF k
    <3> QED BY <1>p, <3>2, <3>3, <3>4
  <2>2. CASE ~req.started
    <3>1. Run(req.body, 0) /\ Len(req.body) = k /\ (net.whole => net.body = req.body)
      BY <1>p, <2>2 DEF BodyInv, Collected
    <3>2. ~net.whole => net.body = << >> BY <1>p, <2>2 DEF PhaseInv
    <3> QED BY <1>p, <3>1, <3>2, NothingWritten
  <2> QED BY <2>1, <2>2
<1> QED BY <1>p, <1>1, RunIsPrefix DEF BodyInv

(* A request's states are of the shape the modules that use it rely on.     *)
THEOREM ClientsAreTyped == ClientSpec => []ClientTypeOK
<1>1. ClientIInv => ClientTypeOK BY DEF ClientIInv
<1> QED BY ClientStarts, ClientIsKept, <1>1, PTL DEF ClientSpec

(* The peer is given the body's chunks in their order, and all of them when *)
(* the body is complete, on every way it may take (http.js).                *)
THEOREM BodiesAreExact == ClientSpec => []BodyIsExact
BY ClientStarts, ClientIsKept, ClientImplies, PTL DEF ClientSpec

-----------------------------------------------------------------------------
(* The TCP stack: GvisorTcp.                                                *)

OpenStates == {"SYN_SENT", "SYN_RCVD", "ESTABLISHED", "FIN_WAIT1", "FIN_WAIT2",
               "CLOSING", "TIME_WAIT", "CLOSE_WAIT", "LAST_ACK"}

ConnectionOf ==
  [state : {"NONE", "CLOSED"} \cup OpenStates, port : PortNumber, sendNxt : Nat,
   recvNxt : Nat, sendBuf : Nat, rtx : Seq(Segment), count : 0 .. MaxRtx,
   timeWait : {"no", "runs", "over", "stray"}]

SocketOf ==
  [phase : {"none", "resolving", "made"}, connecting : BOOLEAN, destroyed : BOOLEAN,
   eof : BOOLEAN, half : BOOLEAN, ended : BOOLEAN, written : Nat, got : Seq(Nat)]

PeerOf ==
  [state : {"closed", "synSent", "synHeard", "synRcvd", "acking", "open"},
   n : 0 .. MaxConn, nxt : Nat, rcv : Nat, fin : BOOLEAN, gotFin : BOOLEAN,
   sent : 0 .. MaxSegment, last : Seq(Segment), again : 0 .. MaxAgain,
   owes : {"nothing", "ack", "rst"}]

TcpStates == [c : [Id -> ConnectionOf], s : [Id -> SocketOf],
              table : [PortNumber -> Id \cup {None}], p : [PortNumber -> PeerOf]]

(* c is open, and the timer of TIME_WAIT runs in no other state.            *)
Lively(t, c) ==
  /\ t.c[c].state \in OpenStates /\ t.s[c].phase # "resolving"
  /\ t.c[c].timeWait \in {"no", "runs"}
  /\ t.c[c].timeWait = "runs" => t.c[c].state = "TIME_WAIT"

(* From t to u nothing but c changes, which stays open on its port.         *)
Lives(t, u, c) ==
  /\ u \in TcpStates /\ Lively(u, c)
  /\ u.table = t.table /\ u.c[c].port = t.c[c].port
  /\ \A e \in Id \ {c} : u.c[e] = t.c[e] /\ u.s[e] = t.s[e]

Keeps(t, u, c) == Lives(t, u, c) /\ u.c[c].state = t.c[c].state

LEMMA LeastOfSet ==
  ASSUME NEW T, T \subseteq Nat, T # {}
  PROVE  \E x \in T : \A y \in T : x <= y
<1> DEFINE Less == OpToRel(<, Nat)
<1>1. PICK x \in T : \A y \in T : ~(<<y, x>> \in Less)
  BY NatLessThanWellFounded, WFMin
<1>2. ASSUME NEW y \in T PROVE x <= y
  <2>1. x \in Nat /\ y \in Nat
    OBVIOUS
  <2>2. y < x => <<y, x>> \in Less
    BY <2>1 DEF OpToRel
  <2> HIDE DEF Less
  <2> QED BY <1>1, <2>1, <2>2
<1> QED BY <1>2

LEMMA TcpConstants ==
  /\ MaxConn \in Nat /\ MaxPort \in Nat /\ MaxRtx \in Nat /\ MaxAgain \in Nat
  /\ None \notin Id /\ \A c \in Id : c \in Nat /\ c # None /\ Iss(c) \in Nat
  /\ \A k \in Nat : Iss(k) \in Nat
BY TcpAssumption DEF Id, None, Iss, Stride

LEMMA SegIsTyped ==
  ASSUME NEW x \in ConnectionOf, NEW flags \in SUBSET {"SYN", "ACK", "FIN", "RST"},
         NEW len \in 0 .. 1
  PROVE  Seg(x, flags, len) \in Segment
BY DEF Seg, Segment, ConnectionOf

LEMMA OneSegment ==
  ASSUME NEW S, NEW g \in S
  PROVE  << g >> \in Seq(S) /\ << >> \in Seq(S) /\ << g >> # << >>
OBVIOUS

LEMMA PeerHearsTyped ==
  ASSUME NEW x \in PeerOf, NEW g \in Segment
  PROVE  PeerHears(x, g) \in PeerOf
<1>1. << >> \in Seq(Segment) BY EmptySeq
<1>s. g.seq + 1 \in Nat BY DEF Segment
<1>x. /\ x.n \in 0 .. MaxConn /\ x.rcv \in Nat /\ x.rcv + 1 \in Nat
      /\ (x.n < MaxConn => x.n \in Nat /\ x.n + 1 \in 0 .. MaxConn)
  <2>1. x.n \in 0 .. MaxConn /\ x.rcv \in Nat BY DEF PeerOf
  <2> QED BY <2>1, TcpConstants
<1>2. PeerGone(x) \in PeerOf BY <1>1 DEF PeerGone, PeerOf
<1>3. ASSUME x.n < MaxConn
      PROVE  PeerNew(x, "synHeard", g.seq + 1) \in PeerOf
  <2>1. Iss(x.n) \in Nat BY <1>3, <1>x, TcpConstants
  <2>2. g.seq + 1 \in Nat BY <1>s
  <2>3. x.n + 1 \in 0 .. MaxConn BY <1>3, <1>x
  <2>4. 0 \in 0 .. MaxSegment /\ 0 \in 0 .. MaxAgain BY TcpAssumption
  <2> HIDE DEF Iss
  <2> QED BY <2>1, <2>2, <2>3, <2>4 DEF PeerNew, PeerOf
<1>4. PeerTakes(x, g) \in PeerOf
  <2> DEFINE y == [x EXCEPT !.state = "open", !.last = IF g.ack = x.nxt THEN << >> ELSE @]
             z == [y EXCEPT !.rcv = @ + 1, !.gotFin = Has(g, "FIN"), !.owes = "ack"]
  <2>1. y \in PeerOf BY <1>1 DEF PeerOf
  <2>2. z \in PeerOf
    <3>1. y.rcv + 1 \in Nat /\ Has(g, "FIN") \in BOOLEAN BY <1>x DEF Has
    <3> HIDE DEF y
    <3> QED BY <2>1, <3>1 DEF PeerOf
  <2>3. PeerGone(y) \in PeerOf /\ PeerGone(z) \in PeerOf
    <3> HIDE DEF y, z
    <3> QED BY <1>1, <2>1, <2>2 DEF PeerGone, PeerOf
  <2>4. PeerTakes(x, g) \in {y, z, PeerGone(y), PeerGone(z)}
    BY DEF PeerTakes
  <2> HIDE DEF y, z
  <2> QED BY <2>1, <2>2, <2>3, <2>4
<1>5. [PeerGone(x) EXCEPT !.owes = "nothing"] \in PeerOf BY <1>2 DEF PeerOf
<1>6. [x EXCEPT !.state = "acking", !.rcv = g.seq + 1, !.last = << >>, !.owes = "ack"]
        \in PeerOf
  BY <1>1, <1>s DEF PeerOf
<1>7. [x EXCEPT !.owes = "rst"] \in PeerOf BY DEF PeerOf
<1>8. \/ PeerHears(x, g) \in {x, [PeerGone(x) EXCEPT !.owes = "nothing"], PeerTakes(x, g),
           [x EXCEPT !.state = "acking", !.rcv = g.seq + 1, !.last = << >>, !.owes = "ack"],
           [x EXCEPT !.owes = "rst"]}
      \/ x.n < MaxConn /\ PeerHears(x, g) = PeerNew(x, "synHeard", g.seq + 1)
  BY DEF PeerHears
<1> QED BY <1>3, <1>4, <1>5, <1>6, <1>7, <1>8

(* What is sent changes the peer only.                                      *)
LEMMA SendFrameIs ==
  ASSUME NEW t \in TcpStates, NEW g \in Segment
  PROVE  /\ SendFrame(t, g) \in TcpStates /\ SendFrame(t, g).c = t.c
         /\ SendFrame(t, g).s = t.s /\ SendFrame(t, g).table = t.table
<1>1. g.port \in PortNumber BY DEF Segment
<1>2. PeerHears(t.p[g.port], g) \in PeerOf BY <1>1, PeerHearsTyped DEF TcpStates
<1> QED BY <1>1, <1>2 DEF SendFrame, TcpStates

LEMMA TcpStateHas ==
  ASSUME NEW t \in TcpStates, NEW c \in Id
  PROVE  /\ t.c[c] \in ConnectionOf /\ t.s[c] \in SocketOf
         /\ t.c[c].port \in PortNumber /\ t.table[t.c[c].port] \in Id \cup {None}
BY DEF TcpStates, ConnectionOf

LEMMA LivesOn ==
  ASSUME NEW t, NEW u, NEW v, NEW c \in Id, Lives(t, u, c), Lives(u, v, c)
  PROVE  Lives(t, v, c)
BY DEF Lives

LEMMA KeepsOn ==
  ASSUME NEW t, NEW u, NEW v, NEW c \in Id, Keeps(t, u, c), Keeps(u, v, c)
  PROVE  Keeps(t, v, c)
BY LivesOn DEF Keeps

LEMMA LivesStill ==
  ASSUME NEW t \in TcpStates, NEW c \in Id, Lively(t, c)
  PROVE  Keeps(t, t, c)
BY DEF Lives, Keeps

(* c is changed, but for its port: in t it may be in any state.             *)
LEMMA ChangedConn ==
  ASSUME NEW t \in TcpStates, NEW c \in Id, NEW x \in ConnectionOf,
         x.port = t.c[c].port, x.state \in OpenStates, t.s[c].phase # "resolving",
         x.timeWait \in {"no", "runs"}, x.timeWait = "runs" => x.state = "TIME_WAIT"
  PROVE  Lives(t, [t EXCEPT !.c[c] = x], c)
BY DEF Lives, Lively, TcpStates

LEMMA ChangedSock ==
  ASSUME NEW t \in TcpStates, NEW c \in Id, Lively(t, c), NEW y \in SocketOf,
         y.phase # "resolving"
  PROVE  Keeps(t, [t EXCEPT !.s[c] = y], c)
BY DEF Keeps, Lives, Lively, TcpStates

(* What is sent of c.                                                       *)
LEMMA SendKeeps ==
  ASSUME NEW t \in TcpStates, NEW c \in Id, Lively(t, c), NEW g \in Segment
  PROVE  Keeps(t, SendFrame(t, g), c)
BY SendFrameIs DEF Keeps, Lives, Lively

LEMMA AckKeeps ==
  ASSUME NEW t \in TcpStates, NEW c \in Id, Lively(t, c)
  PROVE  Keeps(t, TxAck(t, c), c)
<1>1. Seg(t.c[c], {"ACK"}, 0) \in Segment BY SegIsTyped, TcpStateHas
<1> QED BY <1>1, SendKeeps DEF TxAck

LEMMA TxTimedIs ==
  ASSUME NEW t \in TcpStates, NEW c \in Id,
         NEW flags \in SUBSET {"SYN", "ACK", "FIN", "RST"}
  PROVE  LET u == TxTimed(t, c, flags)
         IN /\ u \in TcpStates /\ u.table = t.table /\ u.s = t.s
            /\ \A e \in Id \ {c} : u.c[e] = t.c[e]
            /\ u.c[c].port = t.c[c].port /\ u.c[c].state = t.c[c].state
            /\ u.c[c].timeWait = t.c[c].timeWait
<1> DEFINE x == t.c[c]
           g == Seg(x, flags, 0)
           y == [x EXCEPT !.sendNxt = @ + 1, !.rtx = << g >>, !.count = 0]
           v == [t EXCEPT !.c[c] = y]
<1>1. x \in ConnectionOf BY TcpStateHas
<1>2. g \in Segment BY <1>1, SegIsTyped
<1>3. y \in ConnectionOf /\ y.port = x.port /\ y.state = x.state
      /\ y.timeWait = x.timeWait
  <2>1. << g >> \in Seq(Segment) BY <1>2, OneSegment
  <2>2. x.sendNxt + 1 \in Nat /\ 0 \in 0 .. MaxRtx BY <1>1, TcpAssumption DEF ConnectionOf
  <2> HIDE DEF x, g
  <2> QED BY <1>1, <2>1, <2>2 DEF ConnectionOf
<1>4. [t EXCEPT !.c[c].sendNxt = @ + 1, !.c[c].rtx = << g >>, !.c[c].count = 0] = v
  <2> HIDE DEF g
  <2> QED BY <1>1 DEF TcpStates, ConnectionOf
<1>5. /\ v \in TcpStates /\ v.table = t.table /\ v.s = t.s /\ v.c[c] = y
      /\ \A e \in Id \ {c} : v.c[e] = t.c[e]
  <2> HIDE DEF y
  <2> QED BY <1>3 DEF TcpStates
<1>6. TxTimed(t, c, flags) = SendFrame(v, g)
  <2> HIDE DEF v
  <2> QED BY <1>4 DEF TxTimed
<1> HIDE DEF v, g, y
<1> QED BY <1>2, <1>3, <1>5, <1>6, SendFrameIs

LEMMA TxDataKeeps ==
  ASSUME NEW t \in TcpStates, NEW c \in Id, Lively(t, c)
  PROVE  Keeps(t, TxData(t, c), c)
<1> DEFINE x == t.c[c]
           g == Seg(x, {"ACK"}, 1)
           y == [x EXCEPT !.sendNxt = @ + 1]
           v == [t EXCEPT !.c[c] = y]
<1>1. x \in ConnectionOf BY TcpStateHas
<1>2. g \in Segment BY <1>1, SegIsTyped
<1>3. y \in ConnectionOf /\ y.port = x.port /\ y.state = x.state
      /\ y.timeWait = x.timeWait
  BY <1>1 DEF ConnectionOf
<1>4. [t EXCEPT !.c[c].sendNxt = @ + 1] = v
  BY <1>1 DEF TcpStates, ConnectionOf
<1>5. Lives(t, v, c) /\ v.c[c] = y
  <2>1. v.c[c] = y BY <1>3 DEF TcpStates
  <2> HIDE DEF y
  <2> QED BY <1>3, <2>1, ChangedConn DEF Lively
<1>6. TxData(t, c) = SendFrame(v, g)
  <2> HIDE DEF v
  <2> QED BY <1>4 DEF TxData
<1> HIDE DEF v, g, y
<1>7. v \in TcpStates /\ Lively(v, c) /\ Keeps(t, v, c) BY <1>3, <1>5 DEF Lives, Keeps
<1>8. Keeps(v, SendFrame(v, g), c) BY <1>2, <1>7, SendKeeps
<1> QED BY <1>6, <1>7, <1>8, KeepsOn

LEMMA ClearRtxIs ==
  ASSUME NEW t \in TcpStates, NEW c \in Id
  PROVE  LET u == ClearRtx(t, c)
         IN /\ u \in TcpStates /\ u.table = t.table /\ u.s = t.s /\ u.p = t.p
            /\ u.c[c] = [t.c[c] EXCEPT !.rtx = << >>, !.count = 0]
            /\ u.c[c] \in ConnectionOf
            /\ \A e \in Id \ {c} : u.c[e] = t.c[e]
<1> DEFINE y == [t.c[c] EXCEPT !.rtx = << >>, !.count = 0]
<1>1. y \in ConnectionOf
  <2>1. << >> \in Seq(Segment) /\ 0 \in 0 .. MaxRtx BY TcpAssumption, EmptySeq
  <2> QED BY <2>1, TcpStateHas DEF ConnectionOf
<1>2. ClearRtx(t, c) = [t EXCEPT !.c[c] = y]
  BY TcpStateHas DEF ClearRtx, TcpStates, ConnectionOf
<1> HIDE DEF y
<1>3. LET u == [t EXCEPT !.c[c] = y]
      IN /\ u \in TcpStates /\ u.table = t.table /\ u.s = t.s /\ u.p = t.p
         /\ u.c[c] = y /\ \A e \in Id \ {c} : u.c[e] = t.c[e]
  BY <1>1 DEF TcpStates
<1> QED BY <1>1, <1>2, <1>3 DEF y

LEMMA ClearRtxKeeps ==
  ASSUME NEW t \in TcpStates, NEW c \in Id, Lively(t, c)
  PROVE  Keeps(t, ClearRtx(t, c), c)
<1> DEFINE u == ClearRtx(t, c)
<1>1. t.c[c] \in ConnectionOf BY TcpStateHas
<1>2. /\ u \in TcpStates /\ u.table = t.table /\ u.s = t.s
      /\ u.c[c] = [t.c[c] EXCEPT !.rtx = << >>, !.count = 0]
      /\ \A e \in Id \ {c} : u.c[e] = t.c[e]
  BY ClearRtxIs
<1> HIDE DEF u
<1>3. /\ u.c[c].state = t.c[c].state /\ u.c[c].port = t.c[c].port
      /\ u.c[c].timeWait = t.c[c].timeWait
  BY <1>1, <1>2 DEF ConnectionOf
<1>4. Keeps(t, u, c) BY <1>2, <1>3 DEF Keeps, Lives, Lively
<1> QED BY <1>4 DEF u

(* _cleanup: c is closed, and whoever is under its key is not any more.     *)
LEMMA ClosedIs ==
  ASSUME NEW t \in TcpStates, NEW c \in Id
  PROVE  LET u == Closed(t, c)
         IN /\ u \in TcpStates /\ u.s = t.s
            /\ u.table = [t.table EXCEPT ![t.c[c].port] = None]
            /\ u.c[c].state = "CLOSED" /\ u.c[c].port = t.c[c].port
            /\ u.c[c].timeWait = t.c[c].timeWait /\ u.c[c].rtx = << >>
            /\ \A e \in Id \ {c} : u.c[e] = t.c[e]
<1> DEFINE v == ClearRtx(t, c)
           y == [v.c[c] EXCEPT !.state = "CLOSED"]
           u == [v EXCEPT !.table[t.c[c].port] = None, !.c[c] = y]
<1>1. /\ v \in TcpStates /\ v.s = t.s /\ v.table = t.table /\ v.c[c] \in ConnectionOf
      /\ v.c[c] = [t.c[c] EXCEPT !.rtx = << >>, !.count = 0]
      /\ \A e \in Id \ {c} : v.c[e] = t.c[e]
  BY ClearRtxIs
<1>2. t.c[c] \in ConnectionOf /\ t.c[c].port \in PortNumber BY TcpStateHas
<1> HIDE DEF v
<1>3. y \in ConnectionOf /\ y.state = "CLOSED" /\ y.port = t.c[c].port
      /\ y.timeWait = t.c[c].timeWait /\ y.rtx = << >>
  BY <1>1, <1>2 DEF ConnectionOf
<1>4. Closed(t, c) = u
  BY <1>1, <1>2 DEF Closed, v, TcpStates, ConnectionOf
<1> HIDE DEF y
<1>5. /\ u \in TcpStates /\ u.s = v.s /\ u.c[c] = y
      /\ u.table = [v.table EXCEPT ![t.c[c].port] = None]
      /\ \A e \in Id \ {c} : u.c[e] = v.c[e]
  BY <1>1, <1>2, <1>3 DEF TcpStates
<1> HIDE DEF u
<1> QED BY <1>1, <1>3, <1>4, <1>5

LEMMA ConnCloseLives ==
  ASSUME NEW t \in TcpStates, NEW c \in Id, Lively(t, c)
  PROVE  /\ Lives(t, ConnClose(t, c), c)
         /\ t.c[c].state \notin {"ESTABLISHED", "CLOSE_WAIT"} => ConnClose(t, c) = t
<1> DEFINE u == TxTimed(t, c, {"FIN", "ACK"})
<1>1. /\ u \in TcpStates /\ u.table = t.table /\ u.s = t.s
      /\ \A e \in Id \ {c} : u.c[e] = t.c[e]
      /\ u.c[c].port = t.c[c].port /\ u.c[c].timeWait = t.c[c].timeWait
  BY TxTimedIs
<1>2. u.c[c] \in ConnectionOf BY <1>1, TcpStateHas
<1>3. ASSUME NEW x \in OpenStates, t.c[c].state # "TIME_WAIT"
      PROVE  Lives(t, [u EXCEPT !.c[c].state = x], c)
  <2> DEFINE y == [u.c[c] EXCEPT !.state = x]
  <2>1. y \in ConnectionOf /\ y.port = u.c[c].port /\ y.state = x
        /\ y.timeWait = t.c[c].timeWait
    BY <1>1, <1>2 DEF ConnectionOf
  <2>2. t.c[c].timeWait \in {"no", "runs"} /\ t.c[c].timeWait # "runs"
        /\ u.s[c].phase # "resolving"
    BY <1>1, <1>3 DEF Lively
  <2>3. [u EXCEPT !.c[c].state = x] = [u EXCEPT !.c[c] = y]
    BY <1>1, <1>2 DEF TcpStates, ConnectionOf
  <2> HIDE DEF u, y
  <2>4. Lives(u, [u EXCEPT !.c[c] = y], c)
    BY <1>1, <2>1, <2>2, ChangedConn
  <2> QED BY <1>1, <2>3, <2>4 DEF Lives
<1>4. Lives(t, t, c) BY LivesStill DEF Keeps
<1>5. "FIN_WAIT1" \in OpenStates /\ "LAST_ACK" \in OpenStates BY DEF OpenStates
<1> QED BY <1>3, <1>4, <1>5 DEF ConnClose

(* The callbacks of the socket.                                             *)
LEMMA OnConnectKeeps ==
  ASSUME NEW t \in TcpStates, NEW c \in Id, Lively(t, c)
  PROVE  Keeps(t, OnConnect(t, c), c)
<1> DEFINE y == [t.s[c] EXCEPT !.connecting = FALSE]
<1>1. t.s[c] \in SocketOf BY TcpStateHas
<1>2. y \in SocketOf /\ y.phase = t.s[c].phase BY <1>1 DEF SocketOf
<1>3. [t EXCEPT !.s[c].connecting = FALSE] = [t EXCEPT !.s[c] = y]
  BY <1>1 DEF TcpStates, SocketOf
<1>4. Keeps(t, [t EXCEPT !.s[c] = y], c)
  <2> HIDE DEF y
  <2> QED BY <1>2, ChangedSock DEF Lively
<1> QED BY <1>3, <1>4, LivesStill DEF OnConnect

LEMMA OnDataKeeps ==
  ASSUME NEW t \in TcpStates, NEW c \in Id, Lively(t, c), NEW g \in Segment
  PROVE  Keeps(t, OnData(t, c, g), c)
<1> DEFINE y == [t.s[c] EXCEPT !.got = Append(@, g.seq)]
<1>1. t.s[c] \in SocketOf BY TcpStateHas
<1>2. y \in SocketOf /\ y.phase = t.s[c].phase
  <2>1. t.s[c].got \in Seq(Nat) /\ g.seq \in Nat BY <1>1 DEF SocketOf, Segment
  <2>2. Append(t.s[c].got, g.seq) \in Seq(Nat) BY <2>1
  <2> QED BY <1>1, <2>2 DEF SocketOf
<1>3. [t EXCEPT !.s[c].got = Append(@, g.seq)] = [t EXCEPT !.s[c] = y]
  BY <1>1 DEF TcpStates, SocketOf
<1>4. Keeps(t, [t EXCEPT !.s[c] = y], c)
  <2> HIDE DEF y
  <2> QED BY <1>2, ChangedSock DEF Lively
<1> QED BY <1>3, <1>4, LivesStill DEF OnData

LEMMA OnErrorKeeps ==
  ASSUME NEW t \in TcpStates, NEW c \in Id
  PROVE  LET u == OnError(t, c)
         IN /\ u \in TcpStates /\ u.c = t.c /\ u.table = t.table /\ u.p = t.p
            /\ u.s[c].phase = t.s[c].phase
            /\ \A e \in Id \ {c} : u.s[e] = t.s[e]
            /\ Lively(t, c) => Keeps(t, u, c)
<1> DEFINE y == [t.s[c] EXCEPT !.destroyed = TRUE, !.connecting = FALSE]
<1>1. t.s[c] \in SocketOf BY TcpStateHas
<1>2. y \in SocketOf /\ y.phase = t.s[c].phase BY <1>1 DEF SocketOf
<1>3. [t EXCEPT !.s[c].destroyed = TRUE, !.s[c].connecting = FALSE]
        = [t EXCEPT !.s[c] = y]
  BY <1>1 DEF TcpStates, SocketOf
<1> HIDE DEF y
<1>4. LET u == [t EXCEPT !.s[c] = y]
      IN /\ u \in TcpStates /\ u.c = t.c /\ u.table = t.table /\ u.p = t.p
         /\ u.s[c].phase = t.s[c].phase
         /\ \A e \in Id \ {c} : u.s[e] = t.s[e]
  BY <1>2 DEF TcpStates
<1>5. Lively(t, c) => Keeps(t, [t EXCEPT !.s[c] = y], c)
  BY <1>2, ChangedSock DEF Lively
<1>6. OnError(t, c) \in {t, [t EXCEPT !.s[c] = y]} BY <1>3 DEF OnError
<1> QED BY <1>4, <1>5, <1>6, LivesStill

LEMMA OnEndLives ==
  ASSUME NEW t \in TcpStates, NEW c \in Id, Lively(t, c)
  PROVE  /\ Lives(t, OnEnd(t, c), c)
         /\ t.c[c].state \notin {"ESTABLISHED", "CLOSE_WAIT"} =>
              Keeps(t, OnEnd(t, c), c)
<1> DEFINE y == [t.s[c] EXCEPT !.eof = TRUE]
           u == [t EXCEPT !.s[c].eof = TRUE]
<1>1. t.s[c] \in SocketOf BY TcpStateHas
<1>2. y \in SocketOf /\ y.phase = t.s[c].phase BY <1>1 DEF SocketOf
<1>3. u = [t EXCEPT !.s[c] = y]
  BY <1>1 DEF TcpStates, SocketOf
<1>4. Keeps(t, u, c)
  <2> HIDE DEF y, u
  <2> QED BY <1>2, <1>3, ChangedSock DEF Lively
<1> HIDE DEF u
<1>5. u \in TcpStates /\ Lively(u, c) /\ u.c[c].state = t.c[c].state
  BY <1>4 DEF Keeps, Lives
<1>6. /\ Lives(t, ConnClose(u, c), c)
      /\ t.c[c].state \notin {"ESTABLISHED", "CLOSE_WAIT"} => ConnClose(u, c) = u
  BY <1>4, <1>5, ConnCloseLives, LivesOn DEF Keeps
<1>7. Keeps(t, t, c) BY LivesStill
<1>8. OnEnd(t, c) \in {t, u, ConnClose(u, c)} BY DEF OnEnd, u
<1> QED BY <1>4, <1>6, <1>7, <1>8 DEF Keeps

LEMMA RecvKeeps ==
  ASSUME NEW t \in TcpStates, NEW c \in Id, Lively(t, c), NEW n \in Nat
  PROVE  Keeps(t, [t EXCEPT !.c[c].recvNxt = n], c)
<1> DEFINE y == [t.c[c] EXCEPT !.recvNxt = n]
           u == [t EXCEPT !.c[c] = y]
<1>1. t.c[c] \in ConnectionOf BY TcpStateHas
<1>2. /\ y \in ConnectionOf /\ y.port = t.c[c].port /\ y.state = t.c[c].state
      /\ y.timeWait = t.c[c].timeWait
  BY <1>1 DEF ConnectionOf
<1>3. [t EXCEPT !.c[c].recvNxt = n] = u BY <1>1 DEF TcpStates, ConnectionOf
<1>4. u.c[c] = y BY <1>2 DEF TcpStates
<1> HIDE DEF y
<1>5. Lives(t, u, c) BY <1>2, ChangedConn DEF Lively
<1> QED BY <1>2, <1>3, <1>4, <1>5 DEF Keeps

(* Out of every open state but TIME_WAIT.                                   *)
LEMMA TurnLives ==
  ASSUME NEW t \in TcpStates, NEW c \in Id, Lively(t, c),
         t.c[c].state # "TIME_WAIT", NEW x \in OpenStates
  PROVE  /\ Lives(t, [t EXCEPT !.c[c].state = x], c)
         /\ [t EXCEPT !.c[c].state = x].c[c].state = x
<1> DEFINE y == [t.c[c] EXCEPT !.state = x]
           u == [t EXCEPT !.c[c] = y]
<1>1. t.c[c] \in ConnectionOf BY TcpStateHas
<1>2. /\ y \in ConnectionOf /\ y.port = t.c[c].port /\ y.state = x
      /\ y.timeWait = t.c[c].timeWait
  BY <1>1 DEF ConnectionOf
<1>3. [t EXCEPT !.c[c].state = x] = u BY <1>1 DEF TcpStates, ConnectionOf
<1>4. u.c[c] = y BY <1>2 DEF TcpStates
<1> HIDE DEF y
<1>5. Lives(t, u, c) BY <1>2, ChangedConn DEF Lively
<1> QED BY <1>2, <1>3, <1>4, <1>5

LEMMA TakenKeeps ==
  ASSUME NEW t \in TcpStates, NEW c \in Id, Lively(t, c), NEW g \in Segment
  PROVE  Keeps(t, Taken(t, c, g), c)
<1> DEFINE u == [t EXCEPT !.c[c].recvNxt = @ + 1]
           v == TxAck(u, c)
<1>1. t.c[c] \in ConnectionOf /\ t.c[c].recvNxt + 1 \in Nat
  <2>1. t.c[c] \in ConnectionOf BY TcpStateHas
  <2> QED BY <2>1 DEF ConnectionOf
<1>2. u = [t EXCEPT !.c[c].recvNxt = t.c[c].recvNxt + 1]
  BY <1>1 DEF TcpStates, ConnectionOf
<1> HIDE DEF u
<1>3. Keeps(t, u, c) BY <1>1, <1>2, RecvKeeps
<1>4. Keeps(u, v, c) BY <1>3, AckKeeps DEF Keeps, Lives
<1> HIDE DEF v
<1>5. Keeps(v, OnData(v, c, g), c) BY <1>4, OnDataKeeps DEF Keeps, Lives
<1>6. Keeps(t, OnData(v, c, g), c) BY <1>3, <1>4, <1>5, KeepsOn
<1>7. Taken(t, c, g) \in {t, OnData(v, c, g)} BY DEF Taken, u, v
<1> QED BY <1>6, <1>7, LivesStill

LEMMA FinTakenLives ==
  ASSUME NEW t \in TcpStates, NEW c \in Id, Lively(t, c),
         t.c[c].state # "TIME_WAIT",
         NEW next \in {"CLOSE_WAIT", "CLOSING", "TIME_WAIT"}
  PROVE  /\ Lives(t, FinTaken(t, c, next), c)
         /\ next # "CLOSE_WAIT" => FinTaken(t, c, next).c[c].state = next
<1> DEFINE k == t.c[c].recvNxt + 1
           u == [t EXCEPT !.c[c].recvNxt = k]
           v == [u EXCEPT !.c[c].state = next]
           w == TxAck(v, c)
<1>1. t.c[c] \in ConnectionOf /\ k \in Nat
  <2>1. t.c[c] \in ConnectionOf BY TcpStateHas
  <2> QED BY <2>1 DEF ConnectionOf
<1>2. [t EXCEPT !.c[c].recvNxt = @ + 1, !.c[c].state = next] = v
  BY <1>1 DEF TcpStates, ConnectionOf
<1> HIDE DEF k
<1>3. Keeps(t, u, c) BY <1>1, RecvKeeps
<1> HIDE DEF u
<1>4. Lives(u, v, c) /\ v.c[c].state = next
  <2>1. next \in OpenStates BY DEF OpenStates
  <2> QED BY <1>3, <2>1, TurnLives DEF Keeps, Lives
<1> HIDE DEF v
<1>5. Keeps(v, w, c) BY <1>4, AckKeeps DEF Lives
<1> HIDE DEF w
<1>6. w \in TcpStates /\ Lively(w, c) /\ w.c[c].state = next
  BY <1>4, <1>5 DEF Keeps, Lives
<1>7. /\ Lives(w, OnEnd(w, c), c)
      /\ next # "CLOSE_WAIT" => OnEnd(w, c).c[c].state = next
  <2>1. next # "CLOSE_WAIT" => next \notin {"ESTABLISHED", "CLOSE_WAIT"}
    OBVIOUS
  <2> QED BY <1>6, <2>1, OnEndLives DEF Keeps
<1>8. Lives(t, OnEnd(w, c), c) BY <1>3, <1>4, <1>5, <1>7, LivesOn DEF Keeps
<1>9. FinTaken(t, c, next) = OnEnd(w, c) BY <1>2 DEF FinTaken, w
<1> QED BY <1>7, <1>8, <1>9

LEMMA TimeWaitsKeeps ==
  ASSUME NEW t \in TcpStates, NEW c \in Id, Lively(t, c),
         t.c[c].state = "TIME_WAIT"
  PROVE  Keeps(t, TimeWaits(t, c), c)
<1> DEFINE y == [t.c[c] EXCEPT !.timeWait = "runs"]
           u == [t EXCEPT !.c[c] = y]
<1>1. t.c[c] \in ConnectionOf BY TcpStateHas
<1>2. /\ y \in ConnectionOf /\ y.port = t.c[c].port /\ y.state = t.c[c].state
      /\ y.timeWait = "runs"
  BY <1>1 DEF ConnectionOf
<1>3. TimeWaits(t, c) = u BY <1>1 DEF TimeWaits, TcpStates, ConnectionOf
<1>4. u.c[c] = y BY <1>2 DEF TcpStates
<1> HIDE DEF y
<1>5. Lives(t, u, c) BY <1>2, ChangedConn DEF Lively
<1> QED BY <1>2, <1>3, <1>4, <1>5 DEF Keeps

(* What was written before the connection was there is sent, one by one:    *)
(* by induction on how much it is.                                          *)
LEMMA FlushesExist ==
  ASSUME NEW t, NEW c, NEW n \in Nat
  PROVE  \E f : f = [k \in 0 .. n |-> IF k = 0 THEN t ELSE TxData(f[k - 1], c)]
<1> DEFINE Sends(f, m) == f = [k \in 0 .. m |-> IF k = 0 THEN t ELSE TxData(f[k - 1], c)]
           T == {m \in 0 .. n : ~\E f : Sends(f, m)}
<1>1. ASSUME T # {} PROVE FALSE
  <2>1. T \subseteq Nat
    OBVIOUS
  <2> HIDE DEF T
  <2>2. PICK m \in T : \A y \in T : m <= y
    BY <1>1, <2>1, LeastOfSet
  <2> USE DEF T
  <2>3. m \in 0 .. n /\ ~\E f : Sends(f, m)
    BY <2>2
  <2>4. CASE m = 0
    <3> DEFINE f == [k \in 0 .. 0 |-> t]
    <3>1. Sends(f, 0)
      OBVIOUS
    <3> QED BY <2>3, <2>4, <3>1
  <2>5. CASE m # 0
    <3>1. m - 1 \in 0 .. n /\ ~(m <= m - 1)
      BY <2>3, <2>5
    <3>2. m - 1 \notin T
      <4> HIDE DEF T
      <4> QED BY <2>2, <3>1
    <3>3. PICK g : Sends(g, m - 1)
      BY <3>1, <3>2
    <3> DEFINE f == [k \in 0 .. m |-> IF k = m THEN TxData(g[m - 1], c) ELSE g[k]]
    <3>4. ASSUME NEW k \in 0 .. m
          PROVE  f[k] = IF k = 0 THEN t ELSE TxData(f[k - 1], c)
      <4>1. CASE k = m
        <5>1. f[k] = TxData(g[m - 1], c) /\ k # 0 /\ k - 1 \in 0 .. m /\ k - 1 # m
          BY <2>3, <2>5, <4>1
        <5>2. f[k - 1] = g[m - 1]
          BY <4>1, <5>1
        <5> HIDE DEF f
        <5> QED BY <5>1, <5>2
      <4>2. CASE k # m
        <5>1. k \in 0 .. m - 1 /\ f[k] = g[k]
          BY <2>3, <4>2
        <5>2. g[k] = IF k = 0 THEN t ELSE TxData(g[k - 1], c)
          BY <3>3, <5>1
        <5>3. k # 0 => f[k - 1] = g[k - 1]
          BY <2>3, <5>1
        <5> HIDE DEF f
        <5> QED BY <5>1, <5>2, <5>3
      <4> QED BY <4>1, <4>2
    <3>5. Sends(f, m)
      <4>1. f = [k \in 0 .. m |-> f[k]]
        OBVIOUS
      <4> HIDE DEF f
      <4> QED BY <3>4, <4>1
    <3> HIDE DEF f, Sends
    <3> QED BY <2>3, <3>5
  <2> QED BY <2>4, <2>5
<1>2. n \notin T
  BY <1>1
<1> QED BY <1>2

LEMMA FlushKeeps ==
  ASSUME NEW t \in TcpStates, NEW c \in Id, Lively(t, c)
  PROVE  Keeps(t, Flush(t, c), c)
<1> DEFINE n == t.c[c].sendBuf
           u == [t EXCEPT !.c[c].sendBuf = 0]
           y == [t.c[c] EXCEPT !.sendBuf = 0]
           Sends(f) == f = [k \in 0 .. n |-> IF k = 0 THEN u ELSE TxData(f[k - 1], c)]
           after == CHOOSE f : Sends(f)
           T == {k \in 0 .. n : ~Keeps(t, after[k], c)}
<1>1. t.c[c] \in ConnectionOf /\ n \in Nat
  <2>1. t.c[c] \in ConnectionOf BY TcpStateHas
  <2> QED BY <2>1 DEF ConnectionOf
<1>2. Keeps(t, u, c)
  <2>1. /\ y \in ConnectionOf /\ y.port = t.c[c].port /\ y.state = t.c[c].state
        /\ y.timeWait = t.c[c].timeWait
    BY <1>1 DEF ConnectionOf
  <2>2. u = [t EXCEPT !.c[c] = y] BY <1>1 DEF TcpStates, ConnectionOf
  <2>3. [t EXCEPT !.c[c] = y].c[c] = y BY <2>1 DEF TcpStates
  <2> HIDE DEF y, u
  <2>4. Lives(t, [t EXCEPT !.c[c] = y], c) BY <2>1, ChangedConn DEF Lively
  <2> QED BY <2>1, <2>2, <2>3, <2>4 DEF Keeps
<1>3. Flush(t, c) = after[n] BY DEF Flush
<1>4. Sends(after)
  <2> DEFINE Exists(x, d, m) ==
        \E f : f = [k \in 0 .. m |-> IF k = 0 THEN x ELSE TxData(f[k - 1], d)]
  <2>1. \A x, d : \A m \in Nat : Exists(x, d, m)
    BY FlushesExist
  <2> HIDE DEF Exists, u, n
  <2>2. Exists(u, c, n)
    BY <1>1, <2>1
  <2>3. \E f : Sends(f)
    BY <2>2 DEF Exists
  <2> HIDE DEF Sends
  <2> QED BY <2>3
<1> HIDE DEF after, u
<1>5. after[0] = u /\ \A k \in 1 .. n : after[k] = TxData(after[k - 1], c)
  <2>1. \A k \in 0 .. n : after[k] = IF k = 0 THEN u ELSE TxData(after[k - 1], c)
    <3> HIDE DEF n
    <3> QED BY <1>4
  <2>2. 0 \in 0 .. n /\ \A k \in 1 .. n : k \in 0 .. n /\ k # 0
    BY <1>1
  <2> HIDE DEF n
  <2> QED BY <2>1, <2>2
<1> HIDE DEF n
<1>6. ASSUME T # {} PROVE FALSE
  <2>1. T \subseteq Nat
    BY <1>1
  <2> HIDE DEF T
  <2>2. PICK m \in T : \A k \in T : m <= k
    BY <1>6, <2>1, LeastOfSet
  <2> USE DEF T
  <2>3. m \in 0 .. n /\ ~Keeps(t, after[m], c)
    BY <2>2
  <2>4. m # 0
    BY <1>2, <1>5, <2>3
  <2>5. m - 1 \in 0 .. n /\ m \in 1 .. n /\ ~(m <= m - 1)
    BY <1>1, <2>3, <2>4
  <2>6. Keeps(t, after[m - 1], c)
    <3>1. m - 1 \notin T
      <4> HIDE DEF T
      <4> QED BY <2>2, <2>5
    <3> QED BY <2>5, <3>1
  <2>7. Keeps(after[m - 1], TxData(after[m - 1], c), c)
    BY <2>6, TxDataKeeps DEF Keeps, Lives
  <2>8. Keeps(t, TxData(after[m - 1], c), c)
    BY <2>6, <2>7, KeepsOn
  <2> QED BY <1>5, <2>3, <2>5, <2>8
<1>7. n \in 0 .. n BY <1>1
<1> QED BY <1>3, <1>6, <1>7

(* c stays open, or it is closed after that.                                *)
Goes(t, u, c) == Lives(t, u, c) \/ \E v : Lives(t, v, c) /\ u = Closed(v, c)

LEMMA SendRstEnds ==
  ASSUME NEW t \in TcpStates, NEW c \in Id, Lively(t, c)
  PROVE  Goes(t, SendRstSeg(t, c), c)
<1>1. Seg(t.c[c], {"RST", "ACK"}, 0) \in Segment BY SegIsTyped, TcpStateHas
<1>2. Lives(t, SendFrame(t, Seg(t.c[c], {"RST", "ACK"}, 0)), c)
  BY <1>1, SendKeeps DEF Keeps
<1> QED BY <1>2 DEF Goes, SendRstSeg

(* To close it, after its socket has been told.                             *)
LEMMA ErrorEnds ==
  ASSUME NEW t \in TcpStates, NEW c \in Id, Lively(t, c)
  PROVE  Goes(t, Closed(OnError(t, c), c), c) /\ Goes(t, Closed(t, c), c)
BY OnErrorKeeps, LivesStill DEF Goes, Keeps

LEMMA InSynSentGoes ==
  ASSUME NEW t \in TcpStates, NEW c \in Id, Lively(t, c), NEW g \in Segment,
         t.c[c].state = "SYN_SENT"
  PROVE  Goes(t, InSynSent(t, c, g), c)
<1> DEFINE v == ClearRtx(t, c)
           k == g.seq + 1
           w == [v EXCEPT !.c[c].recvNxt = k]
           u == [w EXCEPT !.c[c].state = "ESTABLISHED"]
           a == TxAck(u, c)
           b == OnConnect(a, c)
<1>1. Keeps(t, v, c) BY ClearRtxKeeps
<1>2. v.c[c] \in ConnectionOf /\ v \in TcpStates BY ClearRtxIs
<1>3. k \in Nat BY DEF Segment
<1> HIDE DEF v, k
<1>4. [v EXCEPT !.c[c].recvNxt = k, !.c[c].state = "ESTABLISHED"] = u
  BY <1>2 DEF TcpStates, ConnectionOf
<1>5. Keeps(v, w, c) BY <1>1, <1>3, RecvKeeps DEF Keeps, Lives
<1> HIDE DEF w
<1>6. Lives(w, u, c)
  <2>1. w \in TcpStates /\ Lively(w, c) /\ w.c[c].state = "SYN_SENT"
    BY <1>1, <1>5 DEF Keeps, Lives
  <2> QED BY <2>1, TurnLives DEF OpenStates
<1> HIDE DEF u
<1>7. Keeps(u, a, c) BY <1>6, AckKeeps DEF Lives
<1> HIDE DEF a
<1>8. Keeps(a, b, c) BY <1>7, OnConnectKeeps DEF Keeps, Lives
<1> HIDE DEF b
<1>9. Keeps(b, Flush(b, c), c) BY <1>8, FlushKeeps DEF Keeps, Lives
<1>10. Lives(t, Flush(b, c), c)
  BY <1>1, <1>5, <1>6, <1>7, <1>8, <1>9, LivesOn DEF Keeps
<1>11. Goes(t, t, c) /\ Goes(t, Flush(b, c), c)
  BY <1>10, LivesStill DEF Goes, Keeps
<1>12. InSynSent(t, c, g) \in
         {SendRstSeg(t, c), Flush(b, c), Closed(OnError(t, c), c), t}
  BY <1>4 DEF InSynSent, v, k, a, b
<1> QED BY <1>11, <1>12, SendRstEnds, ErrorEnds

LEMMA InSynRcvdGoes ==
  ASSUME NEW t \in TcpStates, NEW c \in Id, Lively(t, c), NEW g \in Segment,
         t.c[c].state = "SYN_RCVD"
  PROVE  Goes(t, InSynRcvd(t, c, g), c)
<1> DEFINE v == ClearRtx(t, c)
           w == [v EXCEPT !.c[c].state = "ESTABLISHED"]
           phase == IF listeners[t.c[c].port] # None THEN "made" ELSE t.s[c].phase
           y == [t.s[c] EXCEPT !.phase = phase]
           u == [w EXCEPT !.s[c] = y]
<1>1. Keeps(t, v, c) /\ v.s = t.s BY ClearRtxKeeps, ClearRtxIs
<1>2. v.c[c] \in ConnectionOf /\ v \in TcpStates BY ClearRtxIs
<1> HIDE DEF v
<1>3. Lives(v, w, c) /\ w.s = v.s
  <2>1. Lively(v, c) /\ v.c[c].state = "SYN_RCVD" BY <1>1 DEF Keeps, Lives
  <2>2. Lives(v, w, c) BY <1>2, <2>1, TurnLives DEF OpenStates
  <2> QED BY <1>2, <2>2 DEF TcpStates
<1>4. /\ t.s[c] \in SocketOf /\ phase \in {"none", "made"}
      /\ y \in SocketOf /\ y.phase = phase
  <2>1. t.s[c] \in SocketOf BY TcpStateHas
  <2>2. phase \in {"none", "made"} BY <2>1 DEF Lively, SocketOf
  <2> HIDE DEF phase
  <2> QED BY <2>1, <2>2 DEF SocketOf
<1>5. [v EXCEPT !.c[c].state = "ESTABLISHED",
                !.s[c].phase = IF listeners[t.c[c].port] # None THEN "made" ELSE @] = u
  BY <1>1, <1>2, <1>4 DEF TcpStates, SocketOf
<1> HIDE DEF w, y, phase
<1>6. Keeps(w, u, c) BY <1>3, <1>4, ChangedSock DEF Lives
<1>7. Lives(t, u, c) BY <1>1, <1>3, <1>6, LivesOn DEF Keeps
<1>8. Goes(t, t, c) /\ Goes(t, u, c)
  BY <1>7, LivesStill DEF Goes, Keeps
<1> HIDE DEF u
<1>9. InSynRcvd(t, c, g) \in {u, Closed(t, c), t}
  BY <1>5 DEF InSynRcvd, v
<1> QED BY <1>8, <1>9, ErrorEnds

LEMMA InEstablishedGoes ==
  ASSUME NEW t \in TcpStates, NEW c \in Id, Lively(t, c), NEW g \in Segment,
         t.c[c].state = "ESTABLISHED"
  PROVE  Goes(t, InEstablished(t, c, g), c)
<1> DEFINE u == Taken(t, c, g)
<1>1. Keeps(t, u, c) BY TakenKeeps
<1> HIDE DEF u
<1>2. Lives(u, FinTaken(u, c, "CLOSE_WAIT"), c)
  BY <1>1, FinTakenLives DEF Keeps, Lives
<1>3. Goes(t, u, c) /\ Goes(t, FinTaken(u, c, "CLOSE_WAIT"), c)
  BY <1>1, <1>2, LivesOn DEF Goes, Keeps
<1>4. InEstablished(t, c, g) \in
        {Closed(OnError(t, c), c), u, FinTaken(u, c, "CLOSE_WAIT")}
  BY DEF InEstablished, u
<1> QED BY <1>3, <1>4, ErrorEnds

LEMMA InFinWait1Goes ==
  ASSUME NEW t \in TcpStates, NEW c \in Id, Lively(t, c), NEW g \in Segment,
         t.c[c].state = "FIN_WAIT1"
  PROVE  Goes(t, InFinWait1(t, c, g), c)
<1> DEFINE u == Taken(t, c, g)
           v == ClearRtx(u, c)
           w == FinTaken(v, c, "TIME_WAIT")
           x == FinTaken(u, c, "CLOSING")
           y == [v EXCEPT !.c[c].state = "FIN_WAIT2"]
<1>1. Keeps(t, u, c) BY TakenKeeps
<1> HIDE DEF u
<1>2. Keeps(u, v, c) BY <1>1, ClearRtxKeeps DEF Keeps, Lives
<1> HIDE DEF v
<1>3. Lives(v, w, c) /\ w.c[c].state = "TIME_WAIT"
  BY <1>1, <1>2, FinTakenLives DEF Keeps, Lives
<1> HIDE DEF w
<1>4. Lives(w, TimeWaits(w, c), c) BY <1>3, TimeWaitsKeeps DEF Keeps, Lives
<1>5. Lives(u, x, c) BY <1>1, FinTakenLives DEF Keeps, Lives
<1> HIDE DEF x
<1>6. Lives(v, y, c)
  <2>1. v \in TcpStates /\ Lively(v, c) /\ v.c[c].state = "FIN_WAIT1"
    BY <1>1, <1>2 DEF Keeps, Lives
  <2> QED BY <2>1, TurnLives DEF OpenStates
<1> HIDE DEF y
<1>7. /\ Lives(t, TimeWaits(w, c), c) /\ Lives(t, x, c) /\ Lives(t, y, c)
      /\ Lives(t, u, c)
  <2>1. Lives(t, u, c) /\ Lives(t, v, c) BY <1>1, <1>2, LivesOn DEF Keeps
  <2> QED BY <1>3, <1>4, <1>5, <1>6, <2>1, LivesOn
<1>8. InFinWait1(t, c, g) \in {TimeWaits(w, c), x, y, u}
  BY DEF InFinWait1, u, v, w, x, y
<1> QED BY <1>7, <1>8 DEF Goes

LEMMA InFinWait2Goes ==
  ASSUME NEW t \in TcpStates, NEW c \in Id, Lively(t, c), NEW g \in Segment,
         t.c[c].state = "FIN_WAIT2"
  PROVE  Goes(t, InFinWait2(t, c, g), c)
<1> DEFINE u == Taken(t, c, g)
           k == g.seq + g.len
           v == [u EXCEPT !.c[c].recvNxt = k]
           w == FinTaken(v, c, "TIME_WAIT")
<1>1. Keeps(t, u, c) BY TakenKeeps
<1>2. k \in Nat
  <2>1. g.seq \in Nat /\ g.len \in 0 .. 1 BY DEF Segment
  <2> QED BY <2>1
<1> HIDE DEF u, k
<1>3. Keeps(u, v, c) BY <1>1, <1>2, RecvKeeps DEF Keeps, Lives
<1> HIDE DEF v
<1>4. Lives(v, w, c) /\ w.c[c].state = "TIME_WAIT"
  BY <1>1, <1>3, FinTakenLives DEF Keeps, Lives
<1> HIDE DEF w
<1>5. Lives(w, TimeWaits(w, c), c) BY <1>4, TimeWaitsKeeps DEF Keeps, Lives
<1>6. Lives(t, u, c) /\ Lives(t, TimeWaits(w, c), c)
  <2>1. Lives(t, u, c) /\ Lives(t, v, c) BY <1>1, <1>3, LivesOn DEF Keeps
  <2> QED BY <1>4, <1>5, <2>1, LivesOn
<1>7. InFinWait2(t, c, g) \in {TimeWaits(w, c), u}
  BY DEF InFinWait2, u, k, v, w
<1> QED BY <1>6, <1>7 DEF Goes

LEMMA InClosingGoes ==
  ASSUME NEW t \in TcpStates, NEW c \in Id, Lively(t, c), NEW g \in Segment,
         t.c[c].state = "CLOSING"
  PROVE  Goes(t, InClosing(t, c, g), c)
<1> DEFINE v == ClearRtx(t, c)
           w == [v EXCEPT !.c[c].state = "TIME_WAIT"]
<1>1. Keeps(t, v, c) BY ClearRtxKeeps
<1> HIDE DEF v
<1>2. Lives(v, w, c) /\ w.c[c].state = "TIME_WAIT"
  <2>1. v \in TcpStates /\ Lively(v, c) /\ v.c[c].state = "CLOSING"
    BY <1>1 DEF Keeps, Lives
  <2> QED BY <2>1, TurnLives DEF OpenStates
<1> HIDE DEF w
<1>3. Lives(w, TimeWaits(w, c), c) BY <1>2, TimeWaitsKeeps DEF Keeps, Lives
<1>4. Lives(t, t, c) /\ Lives(t, TimeWaits(w, c), c)
  BY <1>1, <1>2, <1>3, LivesOn, LivesStill DEF Keeps
<1>5. InClosing(t, c, g) \in {TimeWaits(w, c), t}
  BY DEF InClosing, v, w
<1> QED BY <1>4, <1>5 DEF Goes

LEMMA HandleSegGoes ==
  ASSUME NEW t \in TcpStates, NEW c \in Id, Lively(t, c), NEW g \in Segment
  PROVE  Goes(t, HandleSeg(t, c, g), c)
<1>1. Goes(t, t, c) /\ Goes(t, TxAck(t, c), c) /\ Goes(t, Closed(t, c), c)
  BY AckKeeps, LivesStill, ErrorEnds DEF Goes, Keeps
<1> QED
  BY <1>1, InSynSentGoes, InSynRcvdGoes, InEstablishedGoes, InFinWait1Goes,
     InFinWait2Goes, InClosingGoes
  DEF HandleSeg

LEMMA HandleSegOfClosed ==
  ASSUME NEW t \in TcpStates, NEW c \in Id, t.c[c].state \notin OpenStates, NEW g
  PROVE  HandleSeg(t, c, g) = t
BY DEF HandleSeg, OpenStates

(* A connection of the stack, when those of W wait for the WebSocket: what  *)
(* is not open has nothing to send again, the timer of TIME_WAIT starts     *)
(* there, and what is open or waits is found, or was taken away by such a   *)
(* timer of another.                                                        *)
ConnOK(t, W, c) ==
  /\ t.c[c].rtx # << >> => t.c[c].state \in OpenStates
  /\ t.c[c].timeWait = "runs" => t.c[c].state \in {"TIME_WAIT", "CLOSED"}
  /\ t.c[c].timeWait \in {"over", "stray"} => t.c[c].state = "CLOSED"
  /\ t.s[c].phase = "resolving" => t.c[c].state = "NONE"
  /\ c \in W => t.c[c].state = "CLOSED" /\ t.c[c].timeWait = "no"
  /\ t.c[c].state \in OpenStates \/ c \in W =>
       \/ t.table[t.c[c].port] = c
       \/ \E d \in Id \ {c} : t.c[d].port = t.c[c].port /\ t.c[d].timeWait = "stray"

(* The table names connections by their own port.                           *)
TableOK(t) ==
  \A p \in PortNumber : t.table[p] # None =>
    t.c[t.table[p]].port = p /\ t.c[t.table[p]].state # "NONE"

StackOK(t, W) == t \in TcpStates /\ TableOK(t) /\ \A c \in Id : ConnOK(t, W, c)

TcpRest ==
  /\ tcpWs \in {"connecting", "open", "closed"} /\ readyCbs \subseteq Id
  /\ listeners \in [PortNumber -> 0 .. MaxServer]
  /\ tcpServer \in [1 .. MaxServer -> PortNumber \cup {Unbound}]
  /\ nextPort \in 1 .. MaxPort /\ wire \in Seq(Segment)

TcpIInv == StackOK(State, readyCbs) /\ TcpRest

LEMMA OpenIsLively ==
  ASSUME NEW t, NEW W, StackOK(t, W), NEW c \in Id, t.c[c].state \in OpenStates
  PROVE  Lively(t, c) /\ t \in TcpStates /\ c \notin W
<1>1. t.c[c] \in ConnectionOf /\ ConnOK(t, W, c) /\ t \in TcpStates
  BY TcpStateHas DEF StackOK
<1>2. t.c[c].timeWait \in {"no", "runs", "over", "stray"} BY <1>1 DEF ConnectionOf
<1> QED BY <1>1, <1>2 DEF ConnOK, Lively, OpenStates

(* e is left alone on the way from t to u, when those of W, then of V, wait *)
(* for the WebSocket: its key too, unless a stray timer takes it.           *)
Spares(t, W, u, V, e) ==
  /\ u.c[e] = t.c[e] /\ u.s[e] = t.s[e] /\ (e \in V => e \in W)
  /\ \A d \in Id : u.c[d].port = t.c[d].port
  /\ \A d \in Id \ {e} : t.c[d].timeWait = "stray" => u.c[d].timeWait = "stray"
  /\ \/ u.table[t.c[e].port] = t.table[t.c[e].port]
     \/ t.table[t.c[e].port] # e
     \/ \E d \in Id \ {e} : u.c[d].port = t.c[e].port /\ u.c[d].timeWait = "stray"
     \/ t.c[e].state \notin OpenStates /\ e \notin V

LEMMA OthersAreOK ==
  ASSUME NEW t, NEW W, StackOK(t, W), NEW u, NEW V, NEW e \in Id, Spares(t, W, u, V, e)
  PROVE  ConnOK(u, V, e)
<1>1. ConnOK(t, W, e) BY DEF StackOK
<1> QED BY <1>1 DEF ConnOK, Spares

LEMMA LivesIsOK ==
  ASSUME NEW t, NEW W \in SUBSET Id, StackOK(t, W), NEW c \in Id,
         t.c[c].state \in OpenStates, NEW u, Lives(t, u, c)
  PROVE  StackOK(u, W) /\ u.c[c].state \in OpenStates
<1>1. /\ t \in TcpStates /\ Lively(t, c) /\ c \notin W /\ ConnOK(t, W, c)
  BY OpenIsLively DEF StackOK
<1>2. u \in TcpStates /\ Lively(u, c) /\ u.table = t.table /\ u.c[c].port = t.c[c].port
  BY DEF Lives
<1>3. \A e \in Id \ {c} : u.c[e] = t.c[e] /\ u.s[e] = t.s[e] BY DEF Lives
<1>4. ConnOK(u, W, c)
  <2>1. \A d \in Id \ {c} : u.c[d] = t.c[d] BY <1>3
  <2> QED BY <1>1, <1>2, <2>1 DEF ConnOK, Lively
<1>5. ASSUME NEW e \in Id \ {c} PROVE ConnOK(u, W, e)
  <2>1. \A d \in Id : u.c[d].port = t.c[d].port BY <1>2, <1>3
  <2>2. \A d \in Id : t.c[d].timeWait = "stray" => d # c BY <1>1 DEF Lively
  <2>3. \A d \in Id \ {e} : t.c[d].timeWait = "stray" => u.c[d].timeWait = "stray"
    BY <1>3, <2>2
  <2>4. Spares(t, W, u, W, e) BY <1>2, <1>3, <2>1, <2>3 DEF Spares
  <2> QED BY <2>4, OthersAreOK
<1>6. TableOK(u)
  <2> SUFFICES ASSUME NEW p \in PortNumber, u.table[p] # None
               PROVE  u.c[u.table[p]].port = p /\ u.c[u.table[p]].state # "NONE"
    BY DEF TableOK
  <2>1. t.table[p] = u.table[p] /\ t.table[p] \in Id BY <1>1, <1>2 DEF TcpStates
  <2>2. t.c[t.table[p]].port = p /\ t.c[t.table[p]].state # "NONE"
    BY <1>2, <2>1 DEF StackOK, TableOK
  <2>3. u.c[c].state # "NONE" BY <1>2 DEF Lively, OpenStates
  <2> QED BY <1>2, <1>3, <2>1, <2>2, <2>3
<1> QED BY <1>2, <1>4, <1>5, <1>6 DEF StackOK, Lively

LEMMA ClosedIsOK ==
  ASSUME NEW t, NEW W \in SUBSET Id, StackOK(t, W), NEW c \in Id,
         t.c[c].state \in OpenStates
  PROVE  StackOK(Closed(t, c), W)
<1> DEFINE u == Closed(t, c)
           p0 == t.c[c].port
<1>1. /\ t \in TcpStates /\ Lively(t, c) /\ c \notin W /\ ConnOK(t, W, c)
  BY OpenIsLively DEF StackOK
<1>2. /\ u \in TcpStates /\ u.s = t.s
      /\ u.table = [t.table EXCEPT ![p0] = None]
      /\ u.c[c].state = "CLOSED" /\ u.c[c].port = p0
      /\ u.c[c].timeWait = t.c[c].timeWait /\ u.c[c].rtx = << >>
      /\ \A e \in Id \ {c} : u.c[e] = t.c[e]
  BY <1>1, ClosedIs
<1>t. /\ p0 \in PortNumber
      /\ \A p \in PortNumber : u.table[p] = IF p = p0 THEN None ELSE t.table[p]
  BY <1>1, <1>2, TcpStateHas DEF TcpStates
<1> HIDE DEF u, p0
<1>3. ConnOK(u, W, c)
  <2>1. t.s[c].phase # "resolving" /\ t.c[c].timeWait \in {"no", "runs"}
    BY <1>1 DEF Lively
  <2> QED BY <1>1, <1>2, <2>1 DEF ConnOK, OpenStates
<1>4. ASSUME NEW e \in Id \ {c} PROVE ConnOK(u, W, e)
  <2>1. \A d \in Id : u.c[d].port = t.c[d].port BY <1>2 DEF p0
  <2>2. \A d \in Id \ {e} : t.c[d].timeWait = "stray" => u.c[d].timeWait = "stray"
    BY <1>2
  <2>3. \/ u.table[t.c[e].port] = t.table[t.c[e].port]
        \/ t.table[t.c[e].port] # e
        \/ \E d \in Id \ {e} : u.c[d].port = t.c[e].port /\ u.c[d].timeWait = "stray"
        \/ t.c[e].state \notin OpenStates /\ e \notin W
    <3> SUFFICES ASSUME t.table[t.c[e].port] = e,
                        u.table[t.c[e].port] # t.table[t.c[e].port]
                 PROVE  \/ \E d \in Id \ {e} :
                             u.c[d].port = t.c[e].port /\ u.c[d].timeWait = "stray"
                        \/ t.c[e].state \notin OpenStates /\ e \notin W
      OBVIOUS
    <3>1. t.c[e].port \in PortNumber BY <1>1, TcpStateHas
    <3>2. t.c[e].port = p0 /\ t.table[p0] # c BY <1>t, <3>1
    <3>3. PICK d \in Id \ {c} : t.c[d].port = p0 /\ t.c[d].timeWait = "stray"
      BY <1>1, <3>2 DEF ConnOK, p0
    <3>4. u.c[d] = t.c[d] BY <1>2
    <3>5. CASE d # e BY <3>2, <3>3, <3>4, <3>5
    <3>6. CASE d = e
      <4>1. t.c[e].timeWait = "stray" /\ ConnOK(t, W, e) BY <3>3, <3>6 DEF StackOK
      <4> QED BY <4>1 DEF ConnOK, OpenStates
    <3> QED BY <3>5, <3>6
  <2>4. u.s[e] = t.s[e] BY <1>2
  <2>5. Spares(t, W, u, W, e) BY <1>2, <2>1, <2>2, <2>3, <2>4 DEF Spares
  <2> QED BY <2>5, OthersAreOK
<1>5. TableOK(u)
  <2> SUFFICES ASSUME NEW p \in PortNumber, u.table[p] # None
               PROVE  u.c[u.table[p]].port = p /\ u.c[u.table[p]].state # "NONE"
    BY DEF TableOK
  <2>1. t.table[p] = u.table[p] /\ t.table[p] \in Id /\ p # p0
    BY <1>1, <1>t DEF TcpStates
  <2>2. t.c[t.table[p]].port = p /\ t.c[t.table[p]].state # "NONE"
    BY <1>t, <2>1 DEF StackOK, TableOK
  <2>3. t.table[p] # c BY <2>1, <2>2 DEF p0
  <2> QED BY <1>2, <2>1, <2>2, <2>3
<1> QED BY <1>2, <1>3, <1>4, <1>5 DEF StackOK, u

LEMMA GoesIsOK ==
  ASSUME NEW t, NEW W \in SUBSET Id, StackOK(t, W), NEW c \in Id,
         t.c[c].state \in OpenStates, NEW u, Goes(t, u, c)
  PROVE  StackOK(u, W)
BY LivesIsOK, ClosedIsOK DEF Goes

(* What changes of the sockets and of the peer does not matter.             *)
LEMMA SameIsOK ==
  ASSUME NEW t, NEW W \in SUBSET Id, StackOK(t, W), NEW u \in TcpStates,
         NEW V \in SUBSET W, u.c = t.c, u.table = t.table,
         \A c \in Id : u.s[c].phase = "resolving" => t.s[c].phase = "resolving"
  PROVE  StackOK(u, V)
<1>1. ASSUME NEW c \in Id PROVE ConnOK(u, V, c)
  BY DEF StackOK, ConnOK
<1> QED BY <1>1 DEF StackOK, TableOK

(* A connection enters the table, at a port that is free.                   *)
TakesPort(t, u, c, p) ==
  /\ t.c[c].state = "NONE" /\ t.table[p] = None
  /\ u \in TcpStates /\ u.table = [t.table EXCEPT ![p] = c]
  /\ \A e \in Id \ {c} : u.c[e] = t.c[e] /\ u.s[e] = t.s[e]
  /\ u.c[c].port = p /\ u.c[c].timeWait = "no" /\ u.s[c].phase # "resolving"

LEMMA EntersIsOK ==
  ASSUME NEW t, NEW W \in SUBSET Id, StackOK(t, W), NEW c \in Id, NEW p \in PortNumber,
         NEW u, TakesPort(t, u, c, p),
         NEW V \in SUBSET Id, \A e \in Id \ {c} : e \in V => e \in W,
         \/ u.c[c].state \in OpenStates /\ c \notin V
         \/ u.c[c].state = "CLOSED" /\ u.c[c].rtx = << >>
  PROVE  StackOK(u, V)
<1>1. t \in TcpStates /\ ConnOK(t, W, c) /\ c # None
  BY TcpConstants DEF StackOK, TakesPort
<1>2. t.c[c].timeWait = "no"
  <2>1. t.c[c] \in ConnectionOf BY <1>1, TcpStateHas
  <2> QED BY <1>1, <2>1 DEF ConnOK, ConnectionOf, TakesPort
<1>3. \A q \in PortNumber : u.table[q] = IF q = p THEN c ELSE t.table[q]
  BY <1>1 DEF TcpStates, TakesPort
<1>4. ConnOK(u, V, c)
  BY <1>3 DEF ConnOK, OpenStates, TakesPort
<1>5. ASSUME NEW e \in Id \ {c} PROVE ConnOK(u, V, e)
  <2>1. t.c[e].port \in PortNumber /\ e # None BY <1>1, TcpConstants, TcpStateHas
  <2>2. ConnOK(t, W, e) /\ (e \in V => e \in W) BY DEF StackOK
  <2>3. u.c[e] = t.c[e] /\ u.s[e] = t.s[e] BY DEF TakesPort
  <2>4. t.table[t.c[e].port] = e => u.table[t.c[e].port] = e
    BY <1>3, <2>1 DEF TakesPort
  <2>5. \A d \in Id : t.c[d].timeWait = "stray" => u.c[d] = t.c[d]
    BY <1>2 DEF TakesPort
  <2> QED BY <2>2, <2>3, <2>4, <2>5 DEF ConnOK
<1>6. TableOK(u)
  <2> SUFFICES ASSUME NEW q \in PortNumber, u.table[q] # None
               PROVE  u.c[u.table[q]].port = q /\ u.c[u.table[q]].state # "NONE"
    BY DEF TableOK
  <2>1. CASE q = p BY <1>3, <2>1 DEF OpenStates, TakesPort
  <2>2. CASE q # p
    <3>1. t.table[q] = u.table[q] /\ t.table[q] \in Id
      BY <1>1, <1>3, <2>2 DEF TcpStates
    <3>2. t.c[t.table[q]].port = q /\ t.c[t.table[q]].state # "NONE"
      BY <3>1 DEF StackOK, TableOK
    <3> QED BY <3>1, <3>2 DEF TakesPort
  <2> QED BY <2>1, <2>2
<1> QED BY <1>4, <1>5, <1>6 DEF StackOK, TakesPort

(* The timer of TIME_WAIT, whoever has the port of c by now.                *)
LEMMA OverIsOK ==
  ASSUME NEW t, NEW W \in SUBSET Id, StackOK(t, W), NEW c \in Id,
         t.c[c].timeWait = "runs"
  PROVE  LET x == IF t.table[t.c[c].port] = c THEN "over" ELSE "stray"
         IN StackOK([Closed(t, c) EXCEPT !.c[c].timeWait = x], W)
<1> DEFINE x == IF t.table[t.c[c].port] = c THEN "over" ELSE "stray"
           p0 == t.c[c].port
           v == Closed(t, c)
           y == [v.c[c] EXCEPT !.timeWait = x]
           u == [v EXCEPT !.c[c] = y]
<1>1. t \in TcpStates /\ ConnOK(t, W, c) BY DEF StackOK
<1>2. /\ v \in TcpStates /\ v.s = t.s
      /\ v.table = [t.table EXCEPT ![p0] = None]
      /\ v.c[c].state = "CLOSED" /\ v.c[c].port = p0 /\ v.c[c].rtx = << >>
      /\ \A e \in Id \ {c} : v.c[e] = t.c[e]
  BY <1>1, ClosedIs
<1>3. v.c[c] \in ConnectionOf BY <1>2, TcpStateHas
<1>4. [v EXCEPT !.c[c].timeWait = x] = u
  BY <1>2, <1>3 DEF TcpStates, ConnectionOf
<1> HIDE DEF v
<1>5. /\ y \in ConnectionOf /\ y.state = "CLOSED" /\ y.port = p0
      /\ y.rtx = << >> /\ y.timeWait = x
  BY <1>2, <1>3 DEF ConnectionOf
<1> HIDE DEF y
<1>6. /\ u \in TcpStates /\ u.s = t.s /\ u.table = [t.table EXCEPT ![p0] = None]
      /\ u.c[c] = y /\ \A e \in Id \ {c} : u.c[e] = t.c[e]
  BY <1>2, <1>5 DEF TcpStates
<1> HIDE DEF u
<1>t. /\ p0 \in PortNumber
      /\ \A p \in PortNumber : u.table[p] = IF p = p0 THEN None ELSE t.table[p]
  BY <1>1, <1>6, TcpStateHas DEF TcpStates
<1>7. c \notin W /\ t.s[c].phase # "resolving" BY <1>1 DEF ConnOK
<1>8. ConnOK(u, W, c) BY <1>5, <1>6, <1>7 DEF ConnOK, OpenStates
<1>9. ASSUME NEW e \in Id \ {c} PROVE ConnOK(u, W, e)
  <2>1. \A d \in Id : u.c[d].port = t.c[d].port BY <1>5, <1>6
  <2>2. \A d \in Id \ {e} : t.c[d].timeWait = "stray" => u.c[d].timeWait = "stray"
    BY <1>6
  <2>3. t.c[e].port \in PortNumber BY <1>1, TcpStateHas
  <2>4. \/ u.table[t.c[e].port] = t.table[t.c[e].port]
        \/ t.table[t.c[e].port] # e
        \/ \E d \in Id \ {e} : u.c[d].port = t.c[e].port /\ u.c[d].timeWait = "stray"
    <3>1. CASE t.c[e].port # p0 BY <1>t, <2>3, <3>1
    <3>2. CASE t.c[e].port = p0 /\ t.table[p0] = e
      <4>1. u.c[c].port = p0 /\ u.c[c].timeWait = "stray" /\ c \in Id \ {e}
        BY <1>5, <1>6, <3>2
      <4> QED BY <3>2, <4>1
    <3> QED BY <3>1, <3>2
  <2>5. u.s[e] = t.s[e] BY <1>6
  <2>6. Spares(t, W, u, W, e) BY <1>6, <2>1, <2>2, <2>4, <2>5 DEF Spares
  <2> QED BY <2>6, OthersAreOK
<1>10. TableOK(u)
  <2> SUFFICES ASSUME NEW p \in PortNumber, u.table[p] # None
               PROVE  u.c[u.table[p]].port = p /\ u.c[u.table[p]].state # "NONE"
    BY DEF TableOK
  <2>1. t.table[p] = u.table[p] /\ t.table[p] \in Id /\ p # p0
    BY <1>1, <1>t DEF TcpStates
  <2>2. t.c[t.table[p]].port = p /\ t.c[t.table[p]].state # "NONE"
    BY <1>t, <2>1 DEF StackOK, TableOK
  <2>3. t.table[p] # c BY <2>1, <2>2
  <2> QED BY <1>6, <2>1, <2>2, <2>3
<1>11. StackOK(u, W) BY <1>6, <1>8, <1>9, <1>10 DEF StackOK
<1> QED BY <1>4, <1>11 DEF v

-----------------------------------------------------------------------------
(* The actions.                                                             *)

LEMMA BecomesOK ==
  ASSUME NEW u, u \in TcpStates, Becomes(u)
  PROVE  State' = u
<1>1. u = [c |-> u.c, s |-> u.s, table |-> u.table, p |-> u.p]
  BY DEF TcpStates
<1> QED BY <1>1 DEF Becomes, State

LEMMA TcpStateIs ==
  State.c = conn /\ State.s = sock /\ State.table = table /\ State.p = peer
BY DEF State

LEMMA RestStays ==
  ASSUME TcpIInv, UNCHANGED <<tcpWs, readyCbs, listeners, tcpServer, nextPort>>,
         wire' \in Seq(Segment)
  PROVE  TcpRest'
BY DEF TcpIInv, TcpRest

(* A step that leads to a state of the stack that is in order.              *)
LEMMA StackStep ==
  ASSUME TcpRest'
  PROVE  \A u : StackOK(u, readyCbs') /\ Becomes(u) => TcpIInv'
<1>1. \A u : StackOK(u, readyCbs') /\ Becomes(u) => StackOK(State', readyCbs')
  BY BecomesOK DEF StackOK
<1> QED BY <1>1 DEF TcpIInv

LEMMA FreshIsNew ==
  ASSUME TcpIInv, NEW c \in Id, Fresh(c)
  PROVE  State.c[c].state = "NONE" /\ State.s[c].phase = "none" /\ c \notin readyCbs
<1>1. c \notin UsedIds BY TcpConstants DEF Fresh
<1>2. State.c[c].state = "NONE" /\ State.s[c].phase = "none"
  BY <1>1, TcpStateIs DEF UsedIds
<1> QED BY <1>2 DEF TcpIInv, StackOK, ConnOK

(* A connection is given its port, and its numbers.                         *)
PortGiven(t, c, x, p) == [t EXCEPT !.c[c].state = x, !.c[c].port = p]

NumbersGiven(t, c, k, m) == [t EXCEPT !.c[c].recvNxt = k, !.c[c].sendNxt = m]

TableGiven(t, c, p) == [t EXCEPT !.table[p] = c]

Moved(t, u, c, x, p) ==
  /\ u \in TcpStates /\ u.s = t.s /\ u.table = t.table
  /\ u.c[c].state = x /\ u.c[c].port = p
  /\ u.c[c].timeWait = t.c[c].timeWait /\ u.c[c].rtx = t.c[c].rtx
  /\ \A e \in Id \ {c} : u.c[e] = t.c[e]

LEMMA PortIsGiven ==
  ASSUME NEW t \in TcpStates, NEW c \in Id, NEW p \in PortNumber,
         NEW x \in {"CLOSED", "SYN_RCVD"}
  PROVE  Moved(t, PortGiven(t, c, x, p), c, x, p)
<1> DEFINE y == [t.c[c] EXCEPT !.state = x, !.port = p]
<1>1. t.c[c] \in ConnectionOf BY TcpStateHas
<1>2. PortGiven(t, c, x, p) = [t EXCEPT !.c[c] = y]
  BY <1>1 DEF PortGiven, TcpStates, ConnectionOf
<1>3. /\ y \in ConnectionOf /\ y.state = x /\ y.port = p
      /\ y.timeWait = t.c[c].timeWait /\ y.rtx = t.c[c].rtx
  <2>1. x \in {"NONE", "CLOSED"} \cup OpenStates BY DEF OpenStates
  <2> QED BY <1>1, <2>1 DEF ConnectionOf
<1> HIDE DEF y
<1>4. LET u == [t EXCEPT !.c[c] = y]
      IN /\ u \in TcpStates /\ u.s = t.s /\ u.table = t.table /\ u.c[c] = y
         /\ \A e \in Id \ {c} : u.c[e] = t.c[e]
  BY <1>3 DEF TcpStates
<1> QED BY <1>2, <1>3, <1>4 DEF Moved

Numbered(t, u, c) ==
  /\ u \in TcpStates /\ u.s = t.s /\ u.table = t.table
  /\ u.c[c].state = t.c[c].state /\ u.c[c].port = t.c[c].port
  /\ u.c[c].timeWait = t.c[c].timeWait
  /\ \A e \in Id \ {c} : u.c[e] = t.c[e]

LEMMA NumbersAreGiven ==
  ASSUME NEW t \in TcpStates, NEW c \in Id, NEW k \in Nat, NEW m \in Nat
  PROVE  Numbered(t, NumbersGiven(t, c, k, m), c)
<1> DEFINE y == [t.c[c] EXCEPT !.recvNxt = k, !.sendNxt = m]
<1>1. t.c[c] \in ConnectionOf BY TcpStateHas
<1>2. NumbersGiven(t, c, k, m) = [t EXCEPT !.c[c] = y]
  BY <1>1 DEF NumbersGiven, TcpStates, ConnectionOf
<1>3. /\ y \in ConnectionOf /\ y.state = t.c[c].state /\ y.port = t.c[c].port
      /\ y.timeWait = t.c[c].timeWait
  BY <1>1 DEF ConnectionOf
<1> HIDE DEF y
<1>4. LET u == [t EXCEPT !.c[c] = y]
      IN /\ u \in TcpStates /\ u.s = t.s /\ u.table = t.table /\ u.c[c] = y
         /\ \A e \in Id \ {c} : u.c[e] = t.c[e]
  BY <1>3 DEF TcpStates
<1> QED BY <1>2, <1>3, <1>4 DEF Numbered

LEMMA TableIsGiven ==
  ASSUME NEW t \in TcpStates, NEW c \in Id, NEW p \in PortNumber
  PROVE  LET u == TableGiven(t, c, p)
         IN /\ u \in TcpStates /\ u.s = t.s /\ u.c = t.c
            /\ u.table = [t.table EXCEPT ![p] = c]
BY DEF TableGiven, TcpStates

LEMMA AcceptedIsOK ==
  ASSUME TcpIInv, NEW n \in Id, Fresh(n), NEW g \in Segment,
         State.table[g.port] = None
  PROVE  StackOK(Accepted(n, g), readyCbs)
<1> DEFINE p == g.port
           a == PortGiven(State, n, "SYN_RCVD", p)
           b == NumbersGiven(a, n, g.seq + 1, Iss(n))
           v == TableGiven(b, n, p)
           u == TxTimed(v, n, {"SYN", "ACK"})
<1>1. /\ State \in TcpStates /\ StackOK(State, readyCbs) /\ ConnOK(State, readyCbs, n)
      /\ readyCbs \subseteq Id
  BY DEF TcpIInv, TcpRest, StackOK
<1>2. State.c[n].state = "NONE" /\ State.s[n].phase = "none" /\ n \notin readyCbs
  BY FreshIsNew
<1>3. State.c[n].timeWait = "no"
  <2>1. State.c[n] \in ConnectionOf BY <1>1, TcpStateHas
  <2> QED BY <1>1, <1>2, <2>1 DEF ConnOK, ConnectionOf
<1>4. p \in PortNumber /\ g.seq + 1 \in Nat /\ Iss(n) \in Nat
  BY TcpConstants DEF Segment
<1>5. Accepted(n, g) = u
  <2>1. [State EXCEPT !.c[n].state = "SYN_RCVD", !.c[n].port = g.port,
                      !.c[n].recvNxt = g.seq + 1, !.c[n].sendNxt = Iss(n),
                      !.table[g.port] = n] = v
    BY DEF PortGiven, NumbersGiven, TableGiven
  <2> QED BY <2>1 DEF Accepted
<1> HIDE DEF p
<1>6. /\ a \in TcpStates /\ a.s = State.s /\ a.table = State.table
      /\ a.c[n].state = "SYN_RCVD" /\ a.c[n].port = p
      /\ a.c[n].timeWait = State.c[n].timeWait
      /\ \A e \in Id \ {n} : a.c[e] = State.c[e]
  <2>1. "SYN_RCVD" \in {"CLOSED", "SYN_RCVD"}
    OBVIOUS
  <2>2. Moved(State, a, n, "SYN_RCVD", p) BY <1>1, <1>4, <2>1, PortIsGiven
  <2> QED BY <2>2 DEF Moved
<1> HIDE DEF a
<1>7. /\ b \in TcpStates /\ b.s = a.s /\ b.table = a.table
      /\ b.c[n].state = a.c[n].state /\ b.c[n].port = a.c[n].port
      /\ b.c[n].timeWait = a.c[n].timeWait
      /\ \A e \in Id \ {n} : b.c[e] = a.c[e]
  <2>1. Numbered(a, b, n) BY <1>4, <1>6, NumbersAreGiven
  <2> QED BY <2>1 DEF Numbered
<1> HIDE DEF b
<1>8. v \in TcpStates /\ v.s = b.s /\ v.c = b.c /\ v.table = [b.table EXCEPT ![p] = n]
  BY <1>4, <1>7, TableIsGiven
<1> HIDE DEF v
<1>9. /\ u \in TcpStates /\ u.table = v.table /\ u.s = v.s
      /\ \A e \in Id \ {n} : u.c[e] = v.c[e]
      /\ u.c[n].port = v.c[n].port /\ u.c[n].state = v.c[n].state
      /\ u.c[n].timeWait = v.c[n].timeWait
  BY <1>8, TxTimedIs
<1> HIDE DEF u
<1>10. "SYN_RCVD" \in OpenStates BY DEF OpenStates
<1>11. TakesPort(State, u, n, p)
  BY <1>1, <1>2, <1>3, <1>6, <1>7, <1>8, <1>9 DEF TakesPort, p
<1>12. u.c[n].state \in OpenStates /\ n \notin readyCbs
  BY <1>2, <1>6, <1>7, <1>8, <1>9, <1>10
<1>13. StackOK(u, readyCbs)
  BY <1>1, <1>4, <1>11, <1>12, EntersIsOK
<1> QED BY <1>5, <1>13

LEMMA SendIsOK ==
  ASSUME TcpIInv, NEW g \in Segment
  PROVE  StackOK(SendFrame(State, g), readyCbs)
<1>1. State \in TcpStates /\ StackOK(State, readyCbs) /\ readyCbs \subseteq Id
  BY DEF TcpIInv, TcpRest, StackOK
<1> QED BY <1>1, SendFrameIs, SameIsOK

LEMMA ReceiveOK ==
  ASSUME TcpIInv, Receive
  PROVE  TcpIInv'
<1> DEFINE g == Head(wire)
           c == table[g.port]
<1>1. /\ State \in TcpStates /\ StackOK(State, readyCbs) /\ readyCbs \subseteq Id
      /\ wire \in Seq(Segment) /\ State.table = table
  BY TcpStateIs DEF TcpIInv, TcpRest, StackOK
<1>2. g \in Segment /\ Tail(wire) \in Seq(Segment) BY <1>1 DEF Receive
<1>3. TcpRest' BY <1>2, RestStays DEF Receive
<1>4. readyCbs' = readyCbs BY DEF Receive
<1>5. g.port \in PortNumber /\ c \in Id \cup {None}
  BY <1>1, <1>2 DEF Segment, TcpStates
<1>6. CASE c # None /\ Becomes(HandleSeg(State, c, g))
  <2>1. StackOK(HandleSeg(State, c, g), readyCbs)
    <3> HIDE DEF g, c
    <3>1. CASE State.c[c].state \in OpenStates
      BY <1>1, <1>2, <1>5, <1>6, <3>1, OpenIsLively, HandleSegGoes, GoesIsOK
    <3>2. CASE State.c[c].state \notin OpenStates
      BY <1>1, <1>5, <1>6, <3>2, HandleSegOfClosed
    <3> QED BY <3>1, <3>2
  <2> QED BY <1>3, <1>4, <1>6, <2>1, StackStep
<1>7. ASSUME c = None, NEW n \in Id, Fresh(n), Becomes(Accepted(n, g))
      PROVE  TcpIInv'
  <2>1. StackOK(Accepted(n, g), readyCbs) BY <1>1, <1>2, <1>7, AcceptedIsOK
  <2> QED BY <1>3, <1>4, <1>7, <2>1, StackStep
<1>8. CASE Becomes(IF Has(g, "RST") THEN State ELSE SendFrame(State, Rst(g)))
  <2>1. Rst(g) \in Segment
    <3>1. /\ g.port \in PortNumber /\ g.seq \in Nat /\ g.ack \in Nat
          /\ g.len \in 0 .. 1
      BY <1>2 DEF Segment
    <3> HIDE DEF g
    <3>2. g.seq + g.len + (IF Has(g, "SYN") THEN 1 ELSE 0)
            + (IF Has(g, "FIN") THEN 1 ELSE 0) \in Nat
      BY <3>1
    <3> QED BY <3>1, <3>2 DEF Rst, Segment
  <2>2. StackOK(SendFrame(State, Rst(g)), readyCbs) BY <2>1, SendIsOK
  <2>3. StackOK(IF Has(g, "RST") THEN State ELSE SendFrame(State, Rst(g)), readyCbs)
    BY <1>1, <2>2
  <2> QED BY <1>3, <1>4, <1>8, <2>3, StackStep
<1> QED BY <1>6, <1>7, <1>8 DEF Receive

(* What the callers of a connection may do with one that is not open is to  *)
(* leave it as it is.                                                       *)
LEMMA WsOpenOK ==
  ASSUME TcpIInv, WsOpen
  PROVE  TcpIInv'
<1> DEFINE syn(c) == [port |-> conn[c].port, flags |-> {"SYN"}, seq |-> Iss(c),
                      ack |-> 0, len |-> 0]
           on(p) == {c \in readyCbs : conn[c].port = p}
           new(c) == [conn[c] EXCEPT !.state = "SYN_SENT", !.sendNxt = Iss(c) + 1,
                                     !.rtx = <<syn(c)>>, !.count = 0]
<1>1. /\ State \in TcpStates /\ StackOK(State, readyCbs) /\ readyCbs \subseteq Id
      /\ \A c \in Id : ConnOK(State, readyCbs, c)
  BY DEF TcpIInv, TcpRest, StackOK
<1>2. /\ conn \in [Id -> ConnectionOf] /\ sock \in [Id -> SocketOf]
      /\ table \in [PortNumber -> Id \cup {None}] /\ peer \in [PortNumber -> PeerOf]
  BY <1>1, TcpStateIs DEF TcpStates
<1>3. ASSUME NEW c \in Id PROVE syn(c) \in Segment
  <2>1. conn[c].port \in PortNumber /\ Iss(c) \in Nat
    BY <1>2, TcpConstants DEF ConnectionOf
  <2> QED BY <2>1 DEF Segment
<1>4. ASSUME NEW c \in Id
      PROVE  /\ new(c) \in ConnectionOf /\ new(c).state = "SYN_SENT"
             /\ new(c).port = conn[c].port /\ new(c).timeWait = conn[c].timeWait
  <2>1. << syn(c) >> \in Seq(Segment) BY <1>3, OneSegment
  <2>2. Iss(c) + 1 \in Nat /\ 0 \in 0 .. MaxRtx BY TcpConstants
  <2>3. "SYN_SENT" \in OpenStates BY DEF OpenStates
  <2> HIDE DEF syn, OpenStates
  <2> QED BY <1>2, <2>1, <2>2, <2>3 DEF ConnectionOf
<1>5. /\ conn' = [c \in Id |-> IF c \notin readyCbs THEN conn[c] ELSE new(c)]
      /\ peer' = [p \in PortNumber |-> IF on(p) = {} THEN peer[p]
                   ELSE PeerHears(peer[p], syn(CHOOSE c \in on(p) : TRUE))]
      /\ readyCbs' = {} /\ sock' = sock /\ table' = table /\ wire' = wire
      /\ listeners' = listeners /\ tcpServer' = tcpServer /\ nextPort' = nextPort
      /\ tcpWs' = "open"
  BY DEF WsOpen
<1> HIDE DEF new
<1>6. peer' \in [PortNumber -> PeerOf]
  <2>1. ASSUME NEW p \in PortNumber, on(p) # {}
        PROVE  PeerHears(peer[p], syn(CHOOSE c \in on(p) : TRUE)) \in PeerOf
    <3>1. (CHOOSE c \in on(p) : TRUE) \in Id BY <1>1, <2>1
    <3>2. syn(CHOOSE c \in on(p) : TRUE) \in Segment BY <1>3, <3>1
    <3> HIDE DEF syn, on
    <3> QED BY <1>2, <3>2, PeerHearsTyped
  <2> HIDE DEF syn, on
  <2> QED BY <1>2, <1>5, <2>1
<1> HIDE DEF syn, on
<1>7. conn' \in [Id -> ConnectionOf] BY <1>2, <1>4, <1>5
<1>8. /\ State' \in TcpStates /\ State'.c = conn' /\ State'.s = sock
      /\ State'.table = table
  BY <1>2, <1>5, <1>6, <1>7 DEF State, TcpStates
<1>9. \A c \in Id : /\ conn'[c].port = conn[c].port
                    /\ conn'[c].timeWait = conn[c].timeWait
                    /\ c \notin readyCbs => conn'[c] = conn[c]
                    /\ c \in readyCbs => conn'[c].state = "SYN_SENT"
  BY <1>4, <1>5
<1>10. ASSUME NEW c \in Id PROVE ConnOK(State', {}, c)
  <2>1. ConnOK(State, readyCbs, c) BY <1>1
  <2>2. State.c = conn /\ State.s = sock /\ State.table = table BY TcpStateIs
  <2>3. "SYN_SENT" \in OpenStates BY DEF OpenStates
  <2>4. CASE c \in readyCbs
    BY <1>8, <1>9, <2>1, <2>2, <2>3, <2>4 DEF ConnOK
  <2>5. CASE c \notin readyCbs
    BY <1>8, <1>9, <2>1, <2>2, <2>5 DEF ConnOK
  <2> QED BY <2>4, <2>5
<1>11. TableOK(State')
  <2>1. TableOK(State) BY <1>1 DEF StackOK
  <2>2. \A p \in PortNumber : table[p] # None => table[p] \in Id BY <1>2
  <2> QED BY <1>8, <1>9, <2>1, <2>2, TcpStateIs DEF TableOK
<1>12. TcpRest' BY <1>5 DEF TcpIInv, TcpRest
<1> QED BY <1>5, <1>8, <1>10, <1>11, <1>12 DEF TcpIInv, StackOK

LEMMA WsCloseOK ==
  ASSUME TcpIInv, WsClose
  PROVE  TcpIInv'
<1> DEFINE new(c) == IF \E p \in PortNumber : table[p] = c
                     THEN OnError(State, c).s[c] ELSE sock[c]
<1>1. /\ State \in TcpStates /\ StackOK(State, readyCbs) /\ readyCbs \subseteq Id
      /\ State.c = conn /\ State.s = sock /\ State.table = table /\ State.p = peer
  BY TcpStateIs DEF TcpIInv, TcpRest, StackOK
<1>2. ASSUME NEW c \in Id
      PROVE  new(c) \in SocketOf /\ new(c).phase = sock[c].phase
  <2>1. OnError(State, c) \in TcpStates /\ OnError(State, c).s[c].phase = sock[c].phase
    BY <1>1, OnErrorKeeps
  <2>2. OnError(State, c).s[c] \in SocketOf /\ sock[c] \in SocketOf
    BY <1>1, <2>1, TcpStateHas
  <2> QED BY <2>1, <2>2
<1>3. sock' = [c \in Id |-> new(c)] BY DEF WsClose
<1> HIDE DEF new
<1>4. sock' \in [Id -> SocketOf] /\ \A c \in Id : sock'[c].phase = sock[c].phase
  BY <1>2, <1>3
<1>5. State' \in TcpStates /\ State'.c = conn /\ State'.table = table /\ State'.s = sock'
  BY <1>1, <1>4 DEF WsClose, State, TcpStates
<1>6. StackOK(State', readyCbs)
  <2>1. \A c \in Id : State'.s[c].phase = "resolving" => State.s[c].phase = "resolving"
    BY <1>1, <1>4, <1>5
  <2>2. readyCbs \in SUBSET readyCbs /\ readyCbs \in SUBSET Id BY <1>1
  <2> QED BY <1>1, <1>5, <2>1, <2>2, SameIsOK
<1>7. TcpRest' BY EmptySeq DEF WsClose, TcpIInv, TcpRest
<1>8. readyCbs' = readyCbs BY DEF WsClose
<1> QED BY <1>6, <1>7, <1>8 DEF TcpIInv

LEMMA ReadyTimeoutOK ==
  ASSUME TcpIInv, NEW c \in Id, ReadyTimeout(c)
  PROVE  TcpIInv'
<1>1. /\ State \in TcpStates /\ StackOK(State, readyCbs) /\ readyCbs \in SUBSET Id
      /\ State' = State
  BY DEF TcpIInv, TcpRest, StackOK, ReadyTimeout, State
<1>2. StackOK(State, readyCbs \ {c})
  <2>1. readyCbs \ {c} \in SUBSET readyCbs
    OBVIOUS
  <2> QED BY <1>1, <2>1, SameIsOK
<1>3. TcpRest' BY <1>1 DEF ReadyTimeout, TcpIInv, TcpRest
<1> QED BY <1>1, <1>2, <1>3 DEF ReadyTimeout, TcpIInv

LEMMA RetransmitOK ==
  ASSUME TcpIInv, NEW c \in Id, Retransmit(c)
  PROVE  TcpIInv'
<1> DEFINE g == Head(conn[c].rtx)
           u == SendFrame(State, g)
           y == [u.c[c] EXCEPT !.count = @ + 1]
           v == [u EXCEPT !.c[c] = y]
<1>1. /\ State \in TcpStates /\ StackOK(State, readyCbs) /\ readyCbs \in SUBSET Id
      /\ State.c = conn /\ ConnOK(State, readyCbs, c)
  BY TcpStateIs DEF TcpIInv, TcpRest, StackOK
<1>2. State.c[c].state \in OpenStates /\ conn[c].rtx # << >>
  BY <1>1 DEF Retransmit, ConnOK
<1>3. Lively(State, c) BY <1>1, <1>2, OpenIsLively
<1>4. State.c[c] \in ConnectionOf BY <1>1, TcpStateHas
<1>5. g \in Segment
  <2>1. conn[c].rtx \in Seq(Segment) BY <1>1, <1>4 DEF ConnectionOf
  <2> QED BY <1>2, <2>1
<1>6. Goes(State, Retransmitted(State, c), c)
  <2>1. CASE conn[c].count >= MaxRtx
    BY <1>1, <1>3, <2>1, ErrorEnds DEF Retransmitted
  <2>2. CASE ~(conn[c].count >= MaxRtx)
    <3> HIDE DEF g
    <3>1. Keeps(State, u, c) /\ u.c = State.c BY <1>1, <1>3, <1>5, SendKeeps, SendFrameIs
    <3>2. u \in TcpStates /\ Lively(u, c) BY <3>1 DEF Keeps, Lives
    <3>3. [u EXCEPT !.c[c].count = @ + 1] = v
      <4> HIDE DEF u
      <4>1. u.c[c] \in ConnectionOf BY <3>2, TcpStateHas
      <4> QED BY <3>2, <4>1 DEF TcpStates, ConnectionOf
    <3> HIDE DEF u
    <3>4. /\ y \in ConnectionOf /\ y.port = u.c[c].port /\ y.state = u.c[c].state
          /\ y.timeWait = u.c[c].timeWait
      <4>1. u.c[c].count + 1 \in 0 .. MaxRtx
        <5>1. State.c[c].count \in 0 .. MaxRtx BY <1>4 DEF ConnectionOf
        <5>2. u.c[c].count = State.c[c].count /\ ~(State.c[c].count >= MaxRtx)
          BY <1>1, <2>2, <3>1
        <5> QED BY <5>1, <5>2, TcpConstants
      <4> QED BY <1>4, <3>1, <4>1 DEF ConnectionOf
    <3> HIDE DEF y
    <3>5. Lives(u, v, c) BY <3>2, <3>4, ChangedConn DEF Lively
    <3>6. Lives(State, v, c) BY <3>1, <3>5, LivesOn DEF Keeps
    <3>7. Retransmitted(State, c) = v
      BY <1>1, <2>2, <3>3 DEF Retransmitted, u, g
    <3> QED BY <3>6, <3>7 DEF Goes
  <2> QED BY <2>1, <2>2
<1>7. StackOK(Retransmitted(State, c), readyCbs) BY <1>1, <1>2, <1>6, GoesIsOK
<1>8. TcpRest' /\ readyCbs' = readyCbs
  BY RestStays DEF Retransmit, TcpIInv, TcpRest
<1>9. Becomes(Retransmitted(State, c)) BY DEF Retransmit
<1> QED BY <1>7, <1>8, <1>9, StackStep

LEMMA TimeWaitOverOK ==
  ASSUME TcpIInv, NEW c \in Id, TimeWaitOver(c)
  PROVE  TcpIInv'
<1> DEFINE x == IF table[conn[c].port] = c THEN "over" ELSE "stray"
           u == [Closed(State, c) EXCEPT !.c[c].timeWait = x]
<1>1. /\ StackOK(State, readyCbs) /\ readyCbs \in SUBSET Id
      /\ State.c = conn /\ State.table = table
  BY TcpStateIs DEF TcpIInv, TcpRest, StackOK
<1>2. State.c[c].timeWait = "runs" /\ Becomes(u) BY <1>1 DEF TimeWaitOver
<1>3. StackOK(u, readyCbs) BY <1>1, <1>2, OverIsOK
<1>4. TcpRest' /\ readyCbs' = readyCbs
  BY RestStays DEF TimeWaitOver, TcpIInv, TcpRest
<1> HIDE DEF u
<1> QED BY <1>2, <1>3, <1>4, StackStep

(* A socket is changed: its connection is not.                              *)
LEMMA SockChanges ==
  ASSUME TcpIInv, NEW c \in Id, NEW y \in SocketOf,
         y.phase = "resolving" => State.s[c].phase = "resolving"
  PROVE  LET u == [State EXCEPT !.s[c] = y]
         IN /\ StackOK(u, readyCbs) /\ u \in TcpStates /\ u.c = State.c
            /\ u.s[c] = y /\ readyCbs \in SUBSET Id
<1> DEFINE u == [State EXCEPT !.s[c] = y]
<1>1. State \in TcpStates /\ StackOK(State, readyCbs) /\ readyCbs \in SUBSET Id
  BY DEF TcpIInv, TcpRest, StackOK
<1>2. /\ u \in TcpStates /\ u.c = State.c /\ u.table = State.table /\ u.s[c] = y
      /\ \A e \in Id \ {c} : u.s[e] = State.s[e]
  BY <1>1 DEF TcpStates
<1> HIDE DEF u
<1>3. \A e \in Id : u.s[e].phase = "resolving" => State.s[e].phase = "resolving"
  BY <1>2
<1>4. readyCbs \in SUBSET readyCbs
  OBVIOUS
<1>5. StackOK(u, readyCbs) BY <1>1, <1>2, <1>3, <1>4, SameIsOK
<1> QED BY <1>1, <1>2, <1>5 DEF u

LEMMA ConnectSocketOK ==
  ASSUME TcpIInv, NEW c \in Id, NEW half \in BOOLEAN, ConnectSocket(c, half)
  PROVE  TcpIInv'
<1> DEFINE y == [sock[c] EXCEPT !.phase = "resolving", !.connecting = TRUE,
                                !.half = half]
<1>1. /\ State \in TcpStates /\ StackOK(State, readyCbs) /\ readyCbs \subseteq Id
      /\ State.c = conn /\ State.s = sock /\ State.table = table /\ State.p = peer
      /\ sock \in [Id -> SocketOf]
  BY TcpStateIs DEF TcpIInv, TcpRest, StackOK, TcpStates
<1>2. conn[c].state = "NONE" BY <1>1, FreshIsNew DEF ConnectSocket
<1>3. y \in SocketOf
  <2>1. sock[c] \in SocketOf BY <1>1
  <2> QED BY <2>1 DEF SocketOf
<1>4. sock' = [sock EXCEPT ![c] = y]
  <2>1. sock[c] \in SocketOf BY <1>1
  <2> QED BY <1>1, <2>1 DEF ConnectSocket, SocketOf
<1> HIDE DEF y
<1>5. /\ sock' \in [Id -> SocketOf]
      /\ \A e \in Id \ {c} : sock'[e] = sock[e]
  BY <1>1, <1>3, <1>4
<1>6. State' \in TcpStates /\ State'.c = conn /\ State'.table = table /\ State'.s = sock'
  BY <1>1, <1>5 DEF ConnectSocket, State, TcpStates
<1>7. ASSUME NEW e \in Id PROVE ConnOK(State', readyCbs, e)
  <2>1. ConnOK(State, readyCbs, e) BY <1>1 DEF StackOK
  <2>2. sock'[e].phase = "resolving" => conn[e].state = "NONE"
    BY <1>1, <1>2, <1>5, <2>1 DEF ConnOK
  <2> QED BY <1>1, <1>6, <2>1, <2>2 DEF ConnOK
<1>8. TableOK(State') BY <1>1, <1>6 DEF StackOK, TableOK
<1>9. TcpRest' /\ readyCbs' = readyCbs BY DEF ConnectSocket, TcpIInv, TcpRest
<1> QED BY <1>6, <1>7, <1>8, <1>9 DEF TcpIInv, StackOK

LEMMA ResolveFailsOK ==
  ASSUME TcpIInv, NEW c \in Id, ResolveFails(c)
  PROVE  TcpIInv'
<1> DEFINE y == [sock[c] EXCEPT !.phase = "made", !.connecting = FALSE,
                                !.destroyed = TRUE]
           u == [State EXCEPT !.s[c] = y]
<1>1. /\ State \in TcpStates /\ State.s = sock /\ State.c = conn
      /\ sock \in [Id -> SocketOf]
  BY TcpStateIs DEF TcpIInv, StackOK, TcpStates
<1>2. y \in SocketOf /\ y.phase = "made"
  <2>1. sock[c] \in SocketOf BY <1>1
  <2> QED BY <2>1 DEF SocketOf
<1>3. sock' = [sock EXCEPT ![c] = y]
  <2>1. sock[c] \in SocketOf BY <1>1
  <2> QED BY <1>1, <2>1 DEF ResolveFails, SocketOf
<1> HIDE DEF y
<1>4. State' = u
  BY <1>1, <1>3 DEF State, ResolveFails
<1> HIDE DEF u
<1>5. StackOK(u, readyCbs) BY <1>2, SockChanges DEF u
<1>6. TcpRest' /\ readyCbs' = readyCbs BY DEF ResolveFails, TcpIInv, TcpRest
<1> QED BY <1>4, <1>5, <1>6 DEF TcpIInv

LEMMA WriteSocketOK ==
  ASSUME TcpIInv, NEW c \in Id, WriteSocket(c)
  PROVE  TcpIInv'
<1> DEFINE y == [State.s[c] EXCEPT !.written = @ + 1]
           t == [State EXCEPT !.s[c] = y]
           x == [t.c[c] EXCEPT !.sendBuf = @ + 1]
           u == [t EXCEPT !.c[c] = x]
<1>1. /\ State \in TcpStates /\ State.s[c] \in SocketOf /\ State.c = conn
      /\ State.s = sock
  BY TcpStateHas, TcpStateIs DEF TcpIInv, StackOK
<1>2. y \in SocketOf /\ y.phase = State.s[c].phase BY <1>1 DEF SocketOf
<1>3. [State EXCEPT !.s[c].written = @ + 1] = t BY <1>1 DEF TcpStates, SocketOf
<1> HIDE DEF y
<1>4. StackOK(t, readyCbs) /\ t \in TcpStates /\ t.c = conn /\ readyCbs \in SUBSET Id
  BY <1>1, <1>2, SockChanges
<1> HIDE DEF t
<1>5. ASSUME conn[c].state = "ESTABLISHED"
      PROVE  StackOK(TxData(t, c), readyCbs)
  <2>1. t.c[c].state \in OpenStates BY <1>4, <1>5 DEF OpenStates
  <2>2. Goes(t, TxData(t, c), c) BY <1>4, <2>1, OpenIsLively, TxDataKeeps DEF Keeps, Goes
  <2> QED BY <1>4, <2>1, <2>2, GoesIsOK
<1>6. ASSUME conn[c].state \in {"SYN_SENT", "SYN_RCVD"}
      PROVE  StackOK([t EXCEPT !.c[c].sendBuf = @ + 1], readyCbs)
  <2>1. t.c[c].state \in OpenStates BY <1>4, <1>6 DEF OpenStates
  <2>2. Lively(t, c) BY <1>4, <2>1, OpenIsLively
  <2>3. t.c[c] \in ConnectionOf BY <1>4, TcpStateHas
  <2>4. [t EXCEPT !.c[c].sendBuf = @ + 1] = u
    BY <1>4, <2>3 DEF TcpStates, ConnectionOf
  <2>5. /\ x \in ConnectionOf /\ x.port = t.c[c].port /\ x.state = t.c[c].state
        /\ x.timeWait = t.c[c].timeWait
    BY <2>3 DEF ConnectionOf
  <2> HIDE DEF x
  <2>6. Lives(t, u, c) BY <1>4, <2>2, <2>5, ChangedConn DEF Lively
  <2> HIDE DEF u
  <2>7. StackOK(u, readyCbs) BY <1>4, <2>1, <2>6, LivesIsOK
  <2> QED BY <2>4, <2>7
<1>7. TcpRest' /\ readyCbs' = readyCbs
  BY RestStays DEF WriteSocket, TcpIInv, TcpRest
<1>8. \/ Becomes(t)
      \/ conn[c].state = "ESTABLISHED" /\ Becomes(TxData(t, c))
      \/ /\ conn[c].state \in {"SYN_SENT", "SYN_RCVD"}
         /\ Becomes([t EXCEPT !.c[c].sendBuf = @ + 1])
  BY <1>3 DEF WriteSocket
<1>9. CASE Becomes(t) BY <1>4, <1>7, <1>9, StackStep
<1>10. CASE conn[c].state = "ESTABLISHED" /\ Becomes(TxData(t, c))
  BY <1>5, <1>7, <1>10, StackStep
<1>11. CASE /\ conn[c].state \in {"SYN_SENT", "SYN_RCVD"}
            /\ Becomes([t EXCEPT !.c[c].sendBuf = @ + 1])
  BY <1>6, <1>7, <1>11, StackStep
<1> QED BY <1>8, <1>9, <1>10, <1>11

LEMMA EndSocketOK ==
  ASSUME TcpIInv, NEW c \in Id, EndSocket(c)
  PROVE  TcpIInv'
<1> DEFINE y == [State.s[c] EXCEPT !.ended = TRUE]
           t == [State EXCEPT !.s[c] = y]
<1>1. State \in TcpStates /\ State.s[c] \in SocketOf /\ State.c = conn
  BY TcpStateHas, TcpStateIs DEF TcpIInv, StackOK
<1>2. y \in SocketOf /\ y.phase = State.s[c].phase BY <1>1 DEF SocketOf
<1>3. [State EXCEPT !.s[c].ended = TRUE] = t BY <1>1 DEF TcpStates, SocketOf
<1> HIDE DEF y
<1>4. StackOK(t, readyCbs) /\ t \in TcpStates /\ readyCbs \in SUBSET Id
  BY <1>1, <1>2, SockChanges
<1> HIDE DEF t
<1>5. StackOK(ConnClose(t, c), readyCbs)
  <2>1. CASE t.c[c].state \in OpenStates
    <3>1. Goes(t, ConnClose(t, c), c)
      BY <1>4, <2>1, OpenIsLively, ConnCloseLives DEF Goes
    <3> QED BY <1>4, <2>1, <3>1, GoesIsOK
  <2>2. CASE t.c[c].state \notin OpenStates
    BY <1>4, <2>2 DEF ConnClose, OpenStates
  <2> QED BY <2>1, <2>2
<1>6. TcpRest' /\ readyCbs' = readyCbs
  BY RestStays DEF EndSocket, TcpIInv, TcpRest
<1>7. Becomes(t) \/ Becomes(ConnClose(t, c)) BY <1>3 DEF EndSocket
<1>8. CASE Becomes(t) BY <1>4, <1>6, <1>8, StackStep
<1>9. CASE Becomes(ConnClose(t, c)) BY <1>5, <1>6, <1>9, StackStep
<1> QED BY <1>7, <1>8, <1>9

LEMMA DestroySocketOK ==
  ASSUME TcpIInv, NEW c \in Id, DestroySocket(c)
  PROVE  TcpIInv'
<1> DEFINE y == [State.s[c] EXCEPT !.destroyed = TRUE, !.connecting = FALSE]
           t == [State EXCEPT !.s[c] = y]
<1>1. /\ State \in TcpStates /\ State.s[c] \in SocketOf /\ State.c = conn
      /\ State.c[c] \in ConnectionOf
  BY TcpStateHas, TcpStateIs DEF TcpIInv, StackOK
<1>2. y \in SocketOf /\ y.phase = State.s[c].phase BY <1>1 DEF SocketOf
<1>3. [State EXCEPT !.s[c].destroyed = TRUE, !.s[c].connecting = FALSE] = t
  BY <1>1 DEF TcpStates, SocketOf
<1> HIDE DEF y
<1>4. StackOK(t, readyCbs) /\ t \in TcpStates /\ t.c = conn /\ readyCbs \in SUBSET Id
  BY <1>1, <1>2, SockChanges
<1> HIDE DEF t
<1>5. ASSUME conn[c].state \notin {"NONE", "CLOSED"}
      PROVE  StackOK(SendRstSeg(t, c), readyCbs)
  <2>1. t.c[c].state \in OpenStates BY <1>1, <1>4, <1>5 DEF ConnectionOf
  <2>2. Goes(t, SendRstSeg(t, c), c) BY <1>4, <2>1, OpenIsLively, SendRstEnds
  <2> QED BY <1>4, <2>1, <2>2, GoesIsOK
<1>6. TcpRest' /\ readyCbs' = readyCbs
  BY RestStays DEF DestroySocket, TcpIInv, TcpRest
<1>7. \/ Becomes(t)
      \/ conn[c].state \notin {"NONE", "CLOSED"} /\ Becomes(SendRstSeg(t, c))
  BY <1>3 DEF DestroySocket
<1>8. CASE Becomes(t) BY <1>4, <1>6, <1>8, StackStep
<1>9. CASE conn[c].state \notin {"NONE", "CLOSED"} /\ Becomes(SendRstSeg(t, c))
  BY <1>5, <1>6, <1>9, StackStep
<1> QED BY <1>7, <1>8, <1>9

(* The first free port, and where the search starts the next time.          *)
LEMMA AllocTyped ==
  ASSUME NEW p \in 1 .. MaxPort, AllocPort(p)
  PROVE  p \in PortNumber /\ table[p] = None /\ nextPort' \in 1 .. MaxPort
<1>1. MaxPort \in Nat \ {0} BY TcpAssumption
<1>2. p % MaxPort \in 0 .. MaxPort - 1 BY <1>1
<1>3. (p % MaxPort) + 1 \in 1 .. MaxPort
  <2> DEFINE r == p % MaxPort
  <2>1. r \in 0 .. MaxPort - 1 BY <1>2
  <2> HIDE DEF r
  <2>2. r + 1 \in 1 .. MaxPort BY <1>1, <2>1
  <2> QED BY <2>2 DEF r
<1> QED BY <1>1, <1>3 DEF AllocPort, FreePort, PortNumber

LEMMA SendSynIs ==
  ASSUME NEW t \in TcpStates, NEW c \in Id, t.c[c].timeWait = "no"
  PROVE  LET u == SendSyn(t, c)
         IN /\ u \in TcpStates /\ u.s = t.s /\ u.table = t.table
            /\ u.c[c].state = "SYN_SENT" /\ u.c[c].port = t.c[c].port
            /\ u.c[c].timeWait = "no"
            /\ \A e \in Id \ {c} : u.c[e] = t.c[e]
<1> DEFINE a == NumbersGiven(t, c, 0, Iss(c))
           b == TxTimed(a, c, {"SYN"})
           y == [b.c[c] EXCEPT !.state = "SYN_SENT"]
           u == [b EXCEPT !.c[c] = y]
<1>1. [t EXCEPT !.c[c].recvNxt = 0, !.c[c].sendNxt = Iss(c)] = a
  BY DEF NumbersGiven
<1>2. SendSyn(t, c) = [b EXCEPT !.c[c].state = "SYN_SENT"] BY <1>1 DEF SendSyn
<1>3. /\ a \in TcpStates /\ a.s = t.s /\ a.table = t.table
      /\ a.c[c].port = t.c[c].port /\ a.c[c].timeWait = t.c[c].timeWait
      /\ \A e \in Id \ {c} : a.c[e] = t.c[e]
  <2>1. 0 \in Nat /\ Iss(c) \in Nat BY TcpConstants
  <2>2. Numbered(t, a, c) BY <2>1, NumbersAreGiven
  <2> QED BY <2>2 DEF Numbered
<1> HIDE DEF a
<1>4. /\ b \in TcpStates /\ b.s = a.s /\ b.table = a.table
      /\ b.c[c].port = a.c[c].port /\ b.c[c].timeWait = a.c[c].timeWait
      /\ \A e \in Id \ {c} : b.c[e] = a.c[e]
  BY <1>3, TxTimedIs
<1>5. b.c[c] \in ConnectionOf BY <1>4, TcpStateHas
<1> HIDE DEF b
<1>6. [b EXCEPT !.c[c].state = "SYN_SENT"] = u
  BY <1>4, <1>5 DEF TcpStates, ConnectionOf
<1>7. /\ y \in ConnectionOf /\ y.state = "SYN_SENT" /\ y.port = b.c[c].port
      /\ y.timeWait = b.c[c].timeWait
  <2>1. "SYN_SENT" \in OpenStates BY DEF OpenStates
  <2> QED BY <1>5, <2>1 DEF ConnectionOf
<1> HIDE DEF y
<1>8. /\ u \in TcpStates /\ u.s = b.s /\ u.table = b.table /\ u.c[c] = y
      /\ \A e \in Id \ {c} : u.c[e] = b.c[e]
  BY <1>4, <1>7 DEF TcpStates
<1> HIDE DEF u
<1>9. /\ u \in TcpStates /\ u.s = t.s /\ u.table = t.table
      /\ u.c[c].state = "SYN_SENT" /\ u.c[c].port = t.c[c].port
      /\ u.c[c].timeWait = "no"
      /\ \A e \in Id \ {c} : u.c[e] = t.c[e]
  BY <1>3, <1>4, <1>7, <1>8
<1>10. SendSyn(t, c) = u BY <1>2, <1>6
<1> QED BY <1>9, <1>10

LEMMA ResolvedOK ==
  ASSUME TcpIInv, NEW c \in Id, Resolved(c)
  PROVE  TcpIInv'
<1> PICK p \in 1 .. MaxPort :
      LET t == [State EXCEPT !.s[c].phase = "made", !.c[c].state = "CLOSED",
                             !.c[c].port = p, !.table[p] = c]
      IN AllocPort(p) /\ Becomes(IF tcpWs = "open" THEN SendSyn(t, c) ELSE t)
  BY DEF Resolved
<1> DEFINE y == [State.s[c] EXCEPT !.phase = "made"]
           a == [State EXCEPT !.s[c] = y]
           b == PortGiven(a, c, "CLOSED", p)
           t == TableGiven(b, c, p)
           u == SendSyn(t, c)
           V == readyCbs \cup {c}
<1>1. /\ State \in TcpStates /\ StackOK(State, readyCbs) /\ readyCbs \in SUBSET Id
      /\ State.s[c] \in SocketOf /\ State.c[c] \in ConnectionOf
      /\ ConnOK(State, readyCbs, c) /\ State.s = sock /\ State.table = table
  BY TcpStateHas, TcpStateIs DEF TcpIInv, TcpRest, StackOK
<1>2. /\ State.c[c].state = "NONE" /\ State.c[c].timeWait = "no"
      /\ State.c[c].rtx = << >> /\ c \notin readyCbs
  <2>1. State.c[c].state = "NONE" BY <1>1 DEF Resolved, ConnOK
  <2>2. "NONE" \notin OpenStates BY DEF OpenStates
  <2> QED BY <1>1, <2>1, <2>2 DEF ConnOK, ConnectionOf
<1>3. p \in PortNumber /\ State.table[p] = None /\ nextPort' \in 1 .. MaxPort
  BY <1>1, AllocTyped
<1>4. y \in SocketOf /\ y.phase = "made" BY <1>1 DEF SocketOf
<1>5. [State EXCEPT !.s[c].phase = "made", !.c[c].state = "CLOSED",
                    !.c[c].port = p, !.table[p] = c] = t
  <2>1. [State EXCEPT !.s[c].phase = "made"] = a
    BY <1>1 DEF TcpStates, SocketOf
  <2> HIDE DEF a, y
  <2>2. [State EXCEPT !.s[c].phase = "made", !.c[c].state = "CLOSED",
                      !.c[c].port = p, !.table[p] = c]
          = TableGiven(PortGiven([State EXCEPT !.s[c].phase = "made"], c, "CLOSED", p),
                       c, p)
    BY DEF PortGiven, TableGiven
  <2> QED BY <2>1, <2>2
<1> HIDE DEF y
<1>6. /\ a \in TcpStates /\ a.c = State.c /\ a.table = State.table /\ a.s[c] = y
      /\ \A e \in Id \ {c} : a.s[e] = State.s[e]
  BY <1>1, <1>4 DEF TcpStates
<1> HIDE DEF a
<1>7. /\ b \in TcpStates /\ b.s = a.s /\ b.table = a.table
      /\ b.c[c].state = "CLOSED" /\ b.c[c].port = p
      /\ b.c[c].timeWait = a.c[c].timeWait /\ b.c[c].rtx = a.c[c].rtx
      /\ \A e \in Id \ {c} : b.c[e] = a.c[e]
  <2>1. "CLOSED" \in {"CLOSED", "SYN_RCVD"}
    OBVIOUS
  <2>2. p \in PortNumber /\ a \in TcpStates BY <1>3, <1>6
  <2>3. Moved(a, b, c, "CLOSED", p) BY <2>1, <2>2, PortIsGiven
  <2> QED BY <2>3 DEF Moved
<1> HIDE DEF b
<1>8. t \in TcpStates /\ t.s = b.s /\ t.c = b.c /\ t.table = [b.table EXCEPT ![p] = c]
  <2>1. p \in PortNumber /\ b \in TcpStates BY <1>3, <1>7
  <2> QED BY <2>1, TableIsGiven
<1> HIDE DEF t
<1>9. /\ u \in TcpStates /\ u.s = t.s /\ u.table = t.table
      /\ u.c[c].state = "SYN_SENT" /\ u.c[c].port = t.c[c].port
      /\ u.c[c].timeWait = "no"
      /\ \A e \in Id \ {c} : u.c[e] = t.c[e]
  BY <1>2, <1>6, <1>7, <1>8, SendSynIs
<1>10. TakesPort(State, t, c, p)
  BY <1>2, <1>3, <1>4, <1>6, <1>7, <1>8 DEF TakesPort
<1>11. TakesPort(State, u, c, p)
  <2> HIDE DEF u
  <2> QED BY <1>2, <1>3, <1>4, <1>6, <1>7, <1>8, <1>9 DEF TakesPort
<1>12. TcpRest' BY <1>1, <1>3 DEF Resolved, TcpIInv, TcpRest
<1>13. CASE tcpWs = "open"
  <2>1. u.c[c].state \in OpenStates BY <1>9 DEF OpenStates
  <2> HIDE DEF u
  <2>2. StackOK(u, readyCbs) BY <1>1, <1>2, <1>3, <1>11, <2>1, EntersIsOK
  <2>3. readyCbs' = readyCbs /\ Becomes(u) BY <1>5, <1>13 DEF Resolved, u
  <2> QED BY <1>12, <2>2, <2>3, StackStep
<1>14. CASE tcpWs # "open"
  <2>1. t.c[c].state = "CLOSED" /\ t.c[c].rtx = << >>
    BY <1>2, <1>6, <1>7, <1>8
  <2>2. V \in SUBSET Id /\ \A e \in Id \ {c} : e \in V => e \in readyCbs
    BY <1>1
  <2>3. readyCbs' = V /\ Becomes(t) BY <1>5, <1>14 DEF Resolved
  <2> HIDE DEF V
  <2>4. StackOK(t, V) BY <1>1, <1>3, <1>10, <2>1, <2>2, EntersIsOK
  <2> QED BY <1>12, <2>3, <2>4, StackStep
<1> QED BY <1>13, <1>14

LEMMA ServersOK ==
  ASSUME TcpIInv, NEW s \in 1 .. MaxServer, ListenOn(s) \/ CloseServer(s)
  PROVE  TcpIInv'
<1>1. State' = State /\ readyCbs' = readyCbs BY DEF ListenOn, CloseServer, State
<1>2. /\ listeners \in [PortNumber -> 0 .. MaxServer] /\ nextPort \in 1 .. MaxPort
      /\ tcpServer \in [1 .. MaxServer -> PortNumber \cup {Unbound}]
  BY DEF TcpIInv, TcpRest
<1>3. CASE ListenOn(s)
  <2> PICK p \in PortNumber :
        /\ IF p = 0 THEN UNCHANGED nextPort ELSE AllocPort(p)
        /\ tcpServer' = [tcpServer EXCEPT ![s] = p]
        /\ listeners' = [listeners EXCEPT ![p] = s]
    BY <1>3 DEF ListenOn
  <2>1. nextPort' \in 1 .. MaxPort
    <3>1. CASE p = 0 BY <1>2, <3>1
    <3>2. CASE p # 0
      <4>1. p \in 1 .. MaxPort BY <3>2, TcpConstants DEF PortNumber
      <4> QED BY <3>2, <4>1, AllocTyped
    <3> QED BY <3>1, <3>2
  <2>2. s \in 0 .. MaxServer BY TcpAssumption
  <2>3. /\ listeners' \in [PortNumber -> 0 .. MaxServer]
        /\ tcpServer' \in [1 .. MaxServer -> PortNumber \cup {Unbound}]
    BY <1>2, <2>2
  <2>4. TcpRest' BY <1>3, <2>1, <2>3 DEF ListenOn, TcpIInv, TcpRest
  <2> QED BY <1>1, <2>4 DEF TcpIInv
<1>4. CASE CloseServer(s)
  <2>1. tcpServer[s] \in PortNumber BY <1>2, <1>4 DEF CloseServer
  <2>2. None \in 0 .. MaxServer BY TcpAssumption DEF None
  <2>3. listeners' \in [PortNumber -> 0 .. MaxServer]
    BY <1>2, <1>4, <2>1, <2>2 DEF CloseServer
  <2>4. TcpRest' BY <1>4, <2>3 DEF CloseServer, TcpIInv, TcpRest
  <2> QED BY <1>1, <2>4 DEF TcpIInv
<1> QED BY <1>3, <1>4

(* What the peer does changes the peer and the wire.                        *)
LEMMA PeerChanges ==
  ASSUME TcpIInv, peer' \in [PortNumber -> PeerOf], wire' \in Seq(Segment),
         UNCHANGED <<tcpWs, readyCbs, conn, sock, table, listeners, tcpServer, nextPort>>
  PROVE  TcpIInv'
<1>1. /\ State \in TcpStates /\ StackOK(State, readyCbs) /\ readyCbs \in SUBSET Id
      /\ State.c = conn /\ State.s = sock /\ State.table = table
  BY TcpStateIs DEF TcpIInv, TcpRest, StackOK
<1>2. State' \in TcpStates /\ State'.c = conn /\ State'.s = sock /\ State'.table = table
  BY <1>1 DEF State, TcpStates
<1>3. readyCbs \in SUBSET readyCbs
  OBVIOUS
<1>4. StackOK(State', readyCbs) BY <1>1, <1>2, <1>3, SameIsOK
<1>5. TcpRest' BY RestStays
<1> QED BY <1>4, <1>5 DEF TcpIInv

LEMMA PeerSendsTyped ==
  ASSUME NEW p \in PortNumber, NEW x \in PeerOf, NEW len \in 0 .. 1,
         NEW flags \in SUBSET {"SYN", "ACK", "FIN", "RST"},
         peer \in [PortNumber -> PeerOf], wire \in Seq(Segment),
         PeerSends(p, x, flags, len)
  PROVE  peer' \in [PortNumber -> PeerOf] /\ wire' \in Seq(Segment)
<1> DEFINE g == PeerSeg(p, x, flags, len)
           y == [x EXCEPT !.nxt = @ + 1, !.last = <<g>>,
                          !.owes = IF @ = "ack" THEN "nothing" ELSE @]
<1>1. g \in Segment BY DEF PeerSeg, Segment, PeerOf
<1>2. wire' = Append(wire, g) /\ peer' = [peer EXCEPT ![p] = y] BY DEF PeerSends
<1> HIDE DEF g
<1>3. y \in PeerOf
  <2>1. << g >> \in Seq(Segment) BY <1>1, OneSegment
  <2>2. x.nxt + 1 \in Nat BY DEF PeerOf
  <2> QED BY <2>1, <2>2 DEF PeerOf
<1> HIDE DEF y
<1> QED BY <1>1, <1>2, <1>3

LEMMA PeerNextOK ==
  ASSUME TcpIInv, NEW p \in PortNumber, PeerNext(p)
  PROVE  TcpIInv'
<1> DEFINE x == peer[p]
<1>1. peer \in [PortNumber -> PeerOf] /\ wire \in Seq(Segment)
  BY TcpStateIs DEF TcpIInv, TcpRest, StackOK, TcpStates
<1>2. x \in PeerOf BY <1>1
<1>3. UNCHANGED <<tcpWs, readyCbs, conn, sock, table, listeners, tcpServer, nextPort>>
  BY DEF PeerNext
<1>4. \A flags \in SUBSET {"SYN", "ACK", "FIN", "RST"} :
        PeerSeg(p, x, flags, 0) \in Segment
  BY <1>2 DEF PeerSeg, Segment, PeerOf
<1>5. CASE PeerConnects(p)
  <2>1. PeerNew(x, "synSent", 0) \in PeerOf
    <3>1. x.n < MaxConn /\ x.n \in 0 .. MaxConn BY <1>2, <1>5 DEF PeerConnects, PeerOf
    <3>2. Iss(x.n) \in Nat /\ x.n + 1 \in 0 .. MaxConn BY <3>1, TcpConstants
    <3>3. 0 \in 0 .. MaxSegment /\ 0 \in 0 .. MaxAgain BY TcpAssumption
    <3> HIDE DEF x
    <3> QED BY <1>2, <3>2, <3>3 DEF PeerNew, PeerOf
  <2>2. PeerSends(p, PeerNew(x, "synSent", 0), {"SYN"}, 0) BY <1>5 DEF PeerConnects
  <2>3. peer' \in [PortNumber -> PeerOf] /\ wire' \in Seq(Segment)
    <3> HIDE DEF x
    <3> QED BY <1>1, <2>1, <2>2, PeerSendsTyped
  <2> QED BY <1>3, <2>3, PeerChanges
<1>6. CASE PeerAccepts(p)
  <2> DEFINE y == [x EXCEPT !.state = "synRcvd"]
  <2>1. y \in PeerOf BY <1>2 DEF PeerOf
  <2>2. PeerSends(p, y, {"SYN", "ACK"}, 0) BY <1>6 DEF PeerAccepts
  <2> HIDE DEF y
  <2>3. peer' \in [PortNumber -> PeerOf] /\ wire' \in Seq(Segment)
    BY <1>1, <2>1, <2>2, PeerSendsTyped
  <2> QED BY <1>3, <2>3, PeerChanges
<1>7. CASE PeerWrites(p)
  <2> DEFINE y == [x EXCEPT !.sent = @ + 1]
  <2>1. y \in PeerOf
    <3>1. x.sent < MaxSegment /\ x.sent \in 0 .. MaxSegment
      BY <1>2, <1>7 DEF PeerWrites, PeerOf
    <3>2. x.sent + 1 \in 0 .. MaxSegment BY <3>1, TcpAssumption
    <3> HIDE DEF x
    <3> QED BY <1>2, <3>2 DEF PeerOf
  <2>2. PeerSends(p, y, {"ACK"}, 1) BY <1>7 DEF PeerWrites
  <2> HIDE DEF y
  <2>3. peer' \in [PortNumber -> PeerOf] /\ wire' \in Seq(Segment)
    BY <1>1, <2>1, <2>2, PeerSendsTyped
  <2> QED BY <1>3, <2>3, PeerChanges
<1>8. CASE PeerEnds(p)
  <2> DEFINE y == [x EXCEPT !.fin = TRUE]
  <2>1. y \in PeerOf BY <1>2 DEF PeerOf
  <2>2. PeerSends(p, y, {"FIN", "ACK"}, 0) BY <1>8 DEF PeerEnds
  <2> HIDE DEF y
  <2>3. peer' \in [PortNumber -> PeerOf] /\ wire' \in Seq(Segment)
    BY <1>1, <2>1, <2>2, PeerSendsTyped
  <2> QED BY <1>3, <2>3, PeerChanges
<1>9. CASE PeerRepeats(p)
  <2> DEFINE y == [x EXCEPT !.again = @ + 1]
  <2>1. x.last \in Seq(Segment) /\ x.last # << >> BY <1>2, <1>9 DEF PeerRepeats, PeerOf
  <2>2. Head(x.last) \in Segment
    <3> HIDE DEF x
    <3> QED BY <2>1
  <2>3. y \in PeerOf
    <3>1. x.again < MaxAgain /\ x.again \in 0 .. MaxAgain
      BY <1>2, <1>9 DEF PeerRepeats, PeerOf
    <3>2. x.again + 1 \in 0 .. MaxAgain BY <3>1, TcpConstants
    <3> HIDE DEF x
    <3> QED BY <1>2, <3>2 DEF PeerOf
  <2>4. peer' = [peer EXCEPT ![p] = y] BY <1>1, <1>2, <1>9 DEF PeerRepeats, PeerOf
  <2>5. wire' = Append(wire, Head(x.last)) BY <1>9 DEF PeerRepeats
  <2> HIDE DEF y, x
  <2>6. peer' \in [PortNumber -> PeerOf] /\ wire' \in Seq(Segment)
    BY <1>1, <2>2, <2>3, <2>4, <2>5
  <2> QED BY <1>3, <2>6, PeerChanges
<1>10. CASE PeerResets(p)
  <2> DEFINE y == [PeerGone(x) EXCEPT !.owes = "nothing"]
  <2>1. y \in PeerOf BY <1>2, EmptySeq DEF PeerGone, PeerOf
  <2>2. /\ peer' = [peer EXCEPT ![p] = y]
        /\ wire' = Append(wire, PeerSeg(p, x, {"RST", "ACK"}, 0))
    BY <1>1, <1>10 DEF PeerResets
  <2> HIDE DEF y, x
  <2>3. peer' \in [PortNumber -> PeerOf] /\ wire' \in Seq(Segment)
    BY <1>1, <1>4, <2>1, <2>2
  <2> QED BY <1>3, <2>3, PeerChanges
<1>11. CASE PeerAnswers(p)
  <2> DEFINE y == [x EXCEPT !.owes = "nothing",
                            !.state = IF @ = "acking" THEN "open" ELSE @]
             f == IF x.owes = "ack" THEN {"ACK"} ELSE {"RST"}
  <2>1. y \in PeerOf BY <1>2 DEF PeerOf
  <2>2. peer' = [peer EXCEPT ![p] = y] BY <1>1, <1>2, <1>11 DEF PeerAnswers, PeerOf
  <2>3. wire' = Append(wire, PeerSeg(p, x, f, 0)) BY <1>11 DEF PeerAnswers
  <2>4. f \in SUBSET {"SYN", "ACK", "FIN", "RST"}
    OBVIOUS
  <2> HIDE DEF y, x, f
  <2>5. peer' \in [PortNumber -> PeerOf] /\ wire' \in Seq(Segment)
    BY <1>1, <1>4, <2>1, <2>2, <2>3, <2>4
  <2> QED BY <1>3, <2>5, PeerChanges
<1> QED
  BY <1>5, <1>6, <1>7, <1>8, <1>9, <1>10, <1>11 DEF PeerNext

LEMMA TcpInitOK ==
  ASSUME TcpInit
  PROVE  TcpIInv
<1>1. /\ \A c \in Id : State.c[c].state = "NONE" /\ State.c[c].rtx = << >>
           /\ State.c[c].timeWait = "no" /\ State.s[c].phase = "none"
      /\ \A p \in PortNumber : State.table[p] = None
  BY TcpStateIs DEF TcpInit
<1>2. State \in TcpStates
  <2>1. 0 \in PortNumber /\ 0 \in 0 .. MaxRtx /\ 0 \in 0 .. MaxConn
        /\ 0 \in 0 .. MaxSegment /\ 0 \in 0 .. MaxAgain
    BY TcpAssumption DEF PortNumber
  <2>2. << >> \in Seq(Segment) /\ << >> \in Seq(Nat) BY EmptySeq
  <2>3. conn \in [Id -> ConnectionOf] BY <2>1, <2>2 DEF TcpInit, ConnectionOf
  <2>4. sock \in [Id -> SocketOf] BY <2>2 DEF TcpInit, SocketOf
  <2>5. table \in [PortNumber -> Id \cup {None}] BY DEF TcpInit
  <2>6. peer \in [PortNumber -> PeerOf] BY <2>1, <2>2 DEF TcpInit, PeerOf
  <2> QED BY <2>3, <2>4, <2>5, <2>6 DEF State, TcpStates
<1>3. readyCbs = {} BY DEF TcpInit
<1>4. \A c \in Id : ConnOK(State, readyCbs, c) BY <1>1, <1>3 DEF ConnOK, OpenStates
<1>5. TableOK(State) BY <1>1 DEF TableOK
<1>6. TcpRest
  <2>1. << >> \in Seq(Segment) BY EmptySeq
  <2>2. 1 \in 1 .. MaxPort /\ None \in 0 .. MaxServer BY TcpAssumption DEF None
  <2> QED BY <2>1, <2>2 DEF TcpInit, TcpRest
<1> QED BY <1>2, <1>4, <1>5, <1>6 DEF TcpIInv, StackOK

LEMMA TcpNextOK ==
  ASSUME TcpIInv, [TcpNext]_tcpVars
  PROVE  TcpIInv'
<1>1. CASE Receive BY <1>1, ReceiveOK
<1>2. CASE WsOpen BY <1>2, WsOpenOK
<1>3. CASE WsClose BY <1>3, WsCloseOK
<1>4. CASE \E p \in PortNumber : PeerNext(p) BY <1>4, PeerNextOK
<1>5. ASSUME NEW c \in Id, CallNext(c) PROVE TcpIInv'
  BY <1>5, ConnectSocketOK, WriteSocketOK, EndSocketOK, DestroySocketOK DEF CallNext
<1>6. ASSUME NEW c \in Id, TimerNext(c) PROVE TcpIInv'
  BY <1>6, RetransmitOK, TimeWaitOverOK, ReadyTimeoutOK DEF TimerNext
<1>7. ASSUME NEW c \in Id, Resolved(c) \/ ResolveFails(c) PROVE TcpIInv'
  BY <1>7, ResolvedOK, ResolveFailsOK
<1>8. CASE \E s \in 1 .. MaxServer : ListenOn(s) \/ CloseServer(s) BY <1>8, ServersOK
<1>9. CASE UNCHANGED tcpVars
  <2>1. State' = State BY <1>9 DEF tcpVars, State
  <2>2. TcpRest' /\ readyCbs' = readyCbs BY <1>9 DEF tcpVars, TcpIInv, TcpRest
  <2> QED BY <2>1, <2>2 DEF TcpIInv
<1> QED
  BY <1>1, <1>2, <1>3, <1>4, <1>5, <1>6, <1>7, <1>8, <1>9 DEF TcpNext

(* The state of the stack has its type: connections, sockets, the table of  *)
(* ports, listeners and what is on the wire (gvisor-net.js).                *)
THEOREM StacksAreTyped == TcpSpec => []TcpTypeOK
<1>1. TcpIInv => TcpTypeOK
  <2> SUFFICES ASSUME TcpIInv PROVE TcpTypeOK
    OBVIOUS
  <2>1. State \in TcpStates /\ TcpRest BY DEF TcpIInv, StackOK
  <2>2. /\ conn \in [Id -> ConnectionOf] /\ sock \in [Id -> SocketOf]
        /\ table \in [PortNumber -> Id \cup {None}] /\ peer \in [PortNumber -> PeerOf]
    BY <2>1, TcpStateIs DEF TcpStates
  <2>3. {"NONE", "CLOSED"} \cup OpenStates =
          {"NONE", "CLOSED", "SYN_SENT", "SYN_RCVD", "ESTABLISHED", "FIN_WAIT1",
           "FIN_WAIT2", "CLOSING", "TIME_WAIT", "CLOSE_WAIT", "LAST_ACK"}
    BY DEF OpenStates
  <2> QED BY <2>1, <2>2, <2>3 DEF TcpRest, TcpTypeOK, ConnectionOf, SocketOf, PeerOf
<1> QED BY <1>1, TcpInitOK, TcpNextOK, PTL DEF TcpSpec

(* A connection that is not closed is under its key in _conns, so that what *)
(* arrives for it reaches it, unless the TIME_WAIT timer of an earlier      *)
(* connection of that key has taken the key from it: nothing else does,     *)
(* whatever is received, refused, timed out, closed, destroyed or listened  *)
(* on, in whatever order, for any number of connections and ports.          *)
THEOREM OpensAreReached == TcpSpec => []OpenIsReachable
<1>1. TcpIInv => OpenIsReachable
  <2> SUFFICES ASSUME TcpIInv, NEW c \in Id, conn[c].state \notin {"NONE", "CLOSED"}
               PROVE  \/ table[conn[c].port] = c
                      \/ \E d \in Id \ {c} : /\ conn[d].port = conn[c].port
                                             /\ conn[d].timeWait = "stray"
    BY DEF OpenIsReachable
  <2>1. /\ ConnOK(State, readyCbs, c) /\ State.c = conn /\ State.table = table
        /\ State.c[c] \in ConnectionOf
    BY TcpStateHas, TcpStateIs DEF TcpIInv, StackOK
  <2>2. conn[c].state \in OpenStates BY <2>1 DEF ConnectionOf
  <2> QED BY <2>1, <2>2 DEF ConnOK
<1> QED BY <1>1, TcpInitOK, TcpNextOK, PTL DEF TcpSpec

-----------------------------------------------------------------------------
CONSTANTS
  WorkerId, MaxStreams, MaxData

VARIABLES
  workerWs, streams, stream, writing, told, together

Worker == INSTANCE WispWorker WITH
  ws <- workerWs, Id <- WorkerId

(* WispWorker: the streams of one WebSocket of the worker.                  *)

\* The sizes that WispWorker speaks of are sizes.
LEMMA WorkerSizes == \A S : Worker!Cardinality(S) = Cardinality(S)
BY DEF Worker!Cardinality, Cardinality

Waits(i) == stream[i].at \in Worker!Waiting

StreamType == [at : {"none", "refused", "open", "closed"} \cup Worker!Waiting,
               late : BOOLEAN, unheard : BOOLEAN]

Rest ==
  /\ workerWs \in {"open", "closed"} /\ streams \subseteq WorkerId
  /\ writing \in [WorkerId -> 0 .. MaxData]
  /\ told \subseteq WorkerId /\ together \in BOOLEAN

LEMMA WorkerTypeParts == Worker!TypeOK <=> stream \in [WorkerId -> StreamType] /\ Rest
BY Zenon DEF Worker!TypeOK, StreamType, Rest

LEMMA TypePartsNext == Worker!TypeOK' <=> (stream \in [WorkerId -> StreamType])' /\ Rest'
BY Zenon DEF Worker!TypeOK, StreamType, Rest

LEMMA AtTyped ==
  ASSUME Worker!TypeOK, NEW i \in WorkerId,
         NEW at \in {"none", "refused", "open", "closed"} \cup Worker!Waiting,
         Worker!At(i, at)
  PROVE stream' \in [WorkerId -> StreamType]
<1>1. stream[i] \in StreamType
  BY DEF Worker!TypeOK, StreamType
<1>2. [stream[i] EXCEPT !.at = at] \in StreamType
  BY <1>1 DEF StreamType
<1>3. QED BY <1>2 DEF Worker!At, Worker!TypeOK, StreamType

(* A connect that waits does so alone, and there was room for it.           *)
RoomForOne ==
  ~together =>
    /\ Cardinality(streams) <= MaxStreams
    /\ \A i \in WorkerId : Waits(i) => /\ Cardinality(streams) < MaxStreams
                                       /\ \A j \in WorkerId : Waits(j) => j = i

WorkerInv ==
  /\ Worker!TypeOK /\ IsFiniteSet(streams)
  /\ \A i \in Worker!Open : stream[i].late \/ (workerWs = "open" /\ i \in streams)
  /\ workerWs = "open" => \A i \in WorkerId :
       stream[i].at \in {"refused", "closed"} => i \in told \/ i \notin streams
  /\ RoomForOne

LEMMA WorkerInit == ASSUME MaxStreams \in Nat, MaxData \in Nat, Worker!Init PROVE WorkerInv
<1>1. IsFiniteSet(streams) /\ Cardinality(streams) = 0
  BY FS_EmptySet DEF Worker!Init
<1>2. Worker!TypeOK
  <2>1. stream \in [WorkerId -> StreamType]
    <3>1. [at |-> "none", late |-> FALSE, unheard |-> FALSE] \in StreamType
      BY DEF StreamType, Worker!Waiting
    <3>2. QED BY <3>1 DEF Worker!Init
  <2>2. writing \in [WorkerId -> 0 .. MaxData]
    <3>1. 0 \in 0 .. MaxData
      OBVIOUS
    <3>2. QED BY <3>1 DEF Worker!Init
  <2>r. Rest
    BY <2>2 DEF Worker!Init, Rest
  <2>3. QED BY <2>1, <2>r, WorkerTypeParts
<1>3. \A i \in WorkerId : stream[i].at = "none"
  BY DEF Worker!Init
<1>4. RoomForOne
  BY <1>1, <1>3 DEF RoomForOne, Waits, Worker!Waiting
<1>5. QED BY <1>1, <1>2, <1>3, <1>4 DEF Worker!Init, WorkerInv, Worker!Open

LEMMA WorkerSmall ==
  ASSUME WorkerInv, MaxStreams \in Nat
  PROVE /\ Cardinality(streams) \in Nat
        /\ \A i \in WorkerId : IsFiniteSet(Worker!InMap(i)) /\ IsFiniteSet(streams \ {i})
        /\ \A i \in WorkerId : Cardinality(Worker!InMap(i)) <= Cardinality(streams) + 1
        /\ \A i \in WorkerId : Cardinality(streams \ {i}) <= Cardinality(streams)
<1>1. IsFiniteSet(streams)
  BY DEF WorkerInv
<1>2. Cardinality(streams) \in Nat
  BY <1>1, FS_CardinalityType
<1>3. ASSUME NEW i \in WorkerId
      PROVE /\ IsFiniteSet(Worker!InMap(i))
            /\ Cardinality(Worker!InMap(i)) <= Cardinality(streams) + 1
  BY <1>1, <1>2, FS_AddElement DEF Worker!InMap
<1>4. ASSUME NEW i \in WorkerId
      PROVE /\ IsFiniteSet(streams \ {i})
            /\ Cardinality(streams \ {i}) <= Cardinality(streams)
  BY <1>1, <1>2, FS_RemoveElement
<1>5. QED BY <1>2, <1>3, <1>4

LEMMA WorkerTyped ==
  ASSUME Worker!TypeOK, [Worker!Next]_(Worker!vars), MaxData \in Nat
  PROVE Worker!TypeOK'
<1> USE DEF Worker!Waiting, Worker!At, Worker!Tell
<1>1. CASE UNCHANGED Worker!vars BY <1>1 DEF Worker!TypeOK, Worker!vars
<1>2. ASSUME NEW i \in WorkerId, Worker!Connect(i) PROVE Worker!TypeOK'
  <2>1. CASE Worker!Refuse(i)
    <3>1. stream' \in [WorkerId -> StreamType]
      BY <2>1, AtTyped DEF Worker!Refuse
    <3>2. told' \subseteq WorkerId
      BY <2>1 DEF Worker!TypeOK, Worker!Refuse
    <3>3. Rest'
      BY <2>1, <3>2, WorkerTypeParts DEF Worker!Refuse, Rest
    <3>4. QED BY ONLY <3>1, <3>3, TypePartsNext
  <2>2. CASE ~Worker!Refuse(i)
    <3>1. /\ Worker!At(i, "checking") /\ UNCHANGED <<workerWs, streams, writing, told>>
          /\ together' = (together \/ \E j \in WorkerId : Waits(j))
      BY <1>2, <2>2 DEF Worker!Connect, Waits
    <3>2. together' \in BOOLEAN
      BY <3>1, Zenon
    <3>3. stream' \in [WorkerId -> StreamType]
      BY <3>1, AtTyped
    <3>4. Rest'
      BY <3>1, <3>2, WorkerTypeParts DEF Rest
    <3>5. QED BY <3>3, <3>4, TypePartsNext
  <2>3. QED BY <2>1, <2>2
<1>3. ASSUME NEW i \in WorkerId, Worker!Checked(i) PROVE Worker!TypeOK' BY <1>3 DEF Worker!TypeOK, Worker!Checked
<1>4. ASSUME NEW i \in WorkerId, Worker!Fails(i) PROVE Worker!TypeOK' BY <1>4 DEF Worker!TypeOK, Worker!Fails, Worker!Refuse
<1>5. ASSUME NEW i \in WorkerId, Worker!Opened(i) PROVE Worker!TypeOK' BY <1>5 DEF Worker!TypeOK, Worker!Opened, Worker!InMap
<1>6. ASSUME NEW i \in WorkerId, Worker!Data(i) PROVE Worker!TypeOK' BY <1>6 DEF Worker!TypeOK, Worker!Data
<1>7. ASSUME NEW i \in WorkerId, Worker!Written(i) PROVE Worker!TypeOK' BY <1>7 DEF Worker!TypeOK, Worker!Written
<1>8. ASSUME NEW i \in WorkerId, Worker!CloseFromClient(i) PROVE Worker!TypeOK'
  <2>1. CASE i \in streams
    <3>1. Worker!At(i, "closed") /\ streams' = streams \ {i}
      BY <1>8, <2>1 DEF Worker!TypeOK, Worker!CloseFromClient
    <3>2. stream' \in [WorkerId -> StreamType]
      BY <3>1, AtTyped
    <3>3. Rest'
      BY <1>8, <3>1, WorkerTypeParts DEF Worker!CloseFromClient, Rest
    <3>4. QED BY ONLY <3>2, <3>3, TypePartsNext
  <2>2. CASE i \notin streams
    <3>1. /\ stream' = [stream EXCEPT ![i].unheard = TRUE]
          /\ UNCHANGED <<workerWs, streams, writing, told, together>>
      BY <1>8, <2>2 DEF Worker!CloseFromClient
    <3>2. [stream[i] EXCEPT !.unheard = TRUE] \in StreamType
      BY WorkerTypeParts DEF StreamType
    <3>3. stream' \in [WorkerId -> StreamType]
      BY <3>1, <3>2, WorkerTypeParts
    <3>4. Rest'
      BY <3>1, WorkerTypeParts DEF Rest
    <3>5. QED BY <3>3, <3>4, TypePartsNext
  <2>3. QED BY <2>1, <2>2
<1>9. ASSUME NEW i \in WorkerId, Worker!ReadEnds(i) PROVE Worker!TypeOK' BY <1>9 DEF Worker!TypeOK, Worker!ReadEnds, Worker!CloseSelf
<1>10. ASSUME NEW i \in WorkerId, Worker!WriteFails(i) PROVE Worker!TypeOK' BY <1>10 DEF Worker!TypeOK, Worker!WriteFails, Worker!CloseSelf
<1>11. CASE Worker!SessionClose BY <1>11 DEF Worker!TypeOK, Worker!SessionClose, Worker!Closed
<1>12. QED BY <1>1, <1>2, <1>3, <1>4, <1>5, <1>6, <1>7, <1>8, <1>9, <1>10, <1>11 DEF Worker!Next

LEMMA WorkerStep ==
  ASSUME WorkerInv, [Worker!Next]_(Worker!vars), MaxStreams \in Nat, MaxData \in Nat
  PROVE WorkerInv'
<1>0. Worker!TypeOK /\ Worker!TypeOK' BY WorkerTyped DEF WorkerInv
<1>s. /\ Cardinality(streams) \in Nat
      /\ \A i \in WorkerId : IsFiniteSet(Worker!InMap(i)) /\ IsFiniteSet(streams \ {i})
      /\ \A i \in WorkerId : Cardinality(Worker!InMap(i)) <= Cardinality(streams) + 1
      /\ \A i \in WorkerId : Cardinality(streams \ {i}) <= Cardinality(streams)
  BY WorkerSmall
<1> USE <1>0, <1>s DEF Worker!TypeOK, WorkerInv, Worker!Open, RoomForOne, Waits, Worker!Waiting, Worker!At, Worker!Tell
<1>1. CASE UNCHANGED Worker!vars BY <1>1 DEF Worker!vars
<1>2. ASSUME NEW i \in WorkerId, Worker!Connect(i) PROVE WorkerInv'
  <2>1. CASE Worker!Refuse(i)
    BY <1>2, <2>1 DEF Worker!Connect, Worker!Refuse
  <2>2. CASE ~Worker!Refuse(i)
    <3>1. /\ Cardinality(streams) < MaxStreams /\ UNCHANGED <<workerWs, streams, writing, told>>
          /\ stream' = [stream EXCEPT ![i].at = "checking"]
          /\ together' = (together \/ \E j \in WorkerId : Waits(j))
      BY <1>2, <2>2, WorkerSizes DEF Worker!Connect
    <3>2. \A j \in WorkerId : Waits(j)' => j = i \/ Waits(j)
      BY <3>1
    <3>3. ASSUME ~together' PROVE ~\E j \in WorkerId : Waits(j)
      BY <3>1, <3>3
    <3>4. RoomForOne'
      BY <3>1, <3>2, <3>3
    <3>5. QED BY <3>1, <3>4
  <2>3. QED BY <2>1, <2>2
<1>3. ASSUME NEW i \in WorkerId, Worker!Checked(i) PROVE WorkerInv' BY <1>3 DEF Worker!Checked
<1>4. ASSUME NEW i \in WorkerId, Worker!Fails(i) PROVE WorkerInv' BY <1>4 DEF Worker!Fails, Worker!Refuse
<1>5. ASSUME NEW i \in WorkerId, Worker!Opened(i) PROVE WorkerInv'
  <2>1. /\ stream[i].at = "connecting" /\ UNCHANGED <<workerWs, told, together>>
        /\ stream'[i].at = "open" /\ stream'[i].late = (workerWs = "closed")
        /\ \A j \in WorkerId \ {i} : stream'[j] = stream[j]
        /\ streams' = Worker!InMap(i)
    BY <1>5 DEF Worker!Opened
  <2>2. \A j \in WorkerId : j \in Worker!InMap(i) <=> (j = i \/ j \in streams)
    BY DEF Worker!InMap
  <2>3. IsFiniteSet(streams')
    BY <2>1
  <2>4. RoomForOne'
    <3>1. SUFFICES ASSUME ~together PROVE RoomForOne'
      BY <2>1
    <3>2. Cardinality(streams) < MaxStreams /\ \A j \in WorkerId : Waits(j) => j = i
      BY <2>1, <3>1
    <3>3. Cardinality(streams') \in Nat
      BY <2>3, FS_CardinalityType
    <3>4. Cardinality(streams') <= MaxStreams
      BY <2>1, <3>2, <3>3
    <3>5. \A j \in WorkerId : ~Waits(j)'
      BY <2>1, <3>2
    <3>6. QED BY <3>4, <3>5
  <2>5. QED BY <2>1, <2>2, <2>3, <2>4
<1>6. ASSUME NEW i \in WorkerId, Worker!Data(i) PROVE WorkerInv' BY <1>6 DEF Worker!Data
<1>7. ASSUME NEW i \in WorkerId, Worker!Written(i) PROVE WorkerInv' BY <1>7 DEF Worker!Written
<1>8. ASSUME NEW i \in WorkerId, Worker!CloseFromClient(i) PROVE WorkerInv'
  <2>1. CASE i \in streams
    <3>1. /\ UNCHANGED <<workerWs, told, together>> /\ streams' = streams \ {i}
          /\ stream'[i].at = "closed"
          /\ \A j \in WorkerId \ {i} : stream'[j] = stream[j]
      BY <1>8, <2>1 DEF Worker!CloseFromClient
    <3>2. IsFiniteSet(streams') /\ Cardinality(streams') \in Nat
      BY <3>1, FS_CardinalityType
    <3>3. Cardinality(streams') <= Cardinality(streams)
      BY <3>1
    <3>4. \A j \in WorkerId : Waits(j)' => Waits(j)
      BY <3>1
    <3>5. Cardinality(streams) <= MaxStreams => Cardinality(streams') <= MaxStreams
      BY <3>2, <3>3
    <3>6. Cardinality(streams) < MaxStreams => Cardinality(streams') < MaxStreams
      BY <3>2, <3>3
    <3>7. RoomForOne'
      BY ONLY <3>1, <3>4, <3>5, <3>6, RoomForOne DEF RoomForOne, Waits
    <3>8. QED BY <3>1, <3>2, <3>7
  <2>2. CASE i \notin streams
    <3>1. /\ UNCHANGED <<workerWs, streams, told, together>>
          /\ \A j \in WorkerId : /\ stream'[j].at = stream[j].at
                                 /\ stream'[j].late = stream[j].late
      BY <1>8, <2>2 DEF Worker!CloseFromClient
    <3>2. QED BY <3>1
  <2>3. QED BY <2>1, <2>2
<1>9. ASSUME NEW i \in WorkerId, Worker!ReadEnds(i) PROVE WorkerInv' BY <1>9 DEF Worker!ReadEnds, Worker!CloseSelf
<1>10. ASSUME NEW i \in WorkerId, Worker!WriteFails(i) PROVE WorkerInv' BY <1>10 DEF Worker!WriteFails, Worker!CloseSelf
<1>11. CASE Worker!SessionClose
  BY <1>11, FS_EmptySet DEF Worker!SessionClose, Worker!Closed
<1>12. QED BY <1>1, <1>2, <1>3, <1>4, <1>5, <1>6, <1>7, <1>8, <1>9, <1>10, <1>11 DEF Worker!Next

LEMMA WorkerSafe == ASSUME WorkerInv, MaxStreams \in Nat PROVE Worker!NoSocketIsLost
<1> DEFINE held == {i \in Worker!Open : ~stream[i].late}
<1>1. held \subseteq streams
  BY DEF WorkerInv
<1>2. IsFiniteSet(streams)
  BY DEF WorkerInv
<1>3. /\ Cardinality(held) \in Nat /\ Cardinality(streams) \in Nat
      /\ Cardinality(held) <= Cardinality(streams)
  BY <1>1, <1>2, FS_Subset, FS_CardinalityType
<1>4. QED BY <1>3, WorkerSizes DEF WorkerInv, Worker!NoSocketIsLost, RoomForOne

(* Every open socket of the worker can be closed by its client, the client  *)
(* hears of every refusal and close, and the limit holds unless connects    *)
(* waited together (wisp-worker).                                           *)
THEOREM WorkerLosesNoSocket ==
  ASSUME MaxStreams \in Nat, MaxData \in Nat
  PROVE Worker!Spec => []Worker!NoSocketIsLost
<1>1. Worker!Init => WorkerInv BY WorkerInit
<1>2. WorkerInv /\ [Worker!Next]_(Worker!vars) => WorkerInv' BY WorkerStep
<1>3. WorkerInv => Worker!NoSocketIsLost BY WorkerSafe
<1>4. QED BY <1>1, <1>2, <1>3, PTL DEF Worker!Spec

-----------------------------------------------------------------------------
CONSTANTS
  NetAddr, NetPort, Page, MaxStart

VARIABLES
  running, current, started, addrOf, bound, closed, serving, goServer,
  cancelled, forwarder, page, reported, taken, moved

Go == INSTANCE V9Net WITH
  Addr <- NetAddr, Port <- NetPort, server <- goServer, host <- forwarder,
  told <- reported

(* V9Net: the servers and the forwarded ports of the Go side.               *)

(* Where every start asked for one address, the start that made the server  *)
(* is the only one that listens, serves or is yet to be closed.             *)
OneAtATime ==
  ~moved =>
    /\ \A h, k \in 1 .. started : addrOf[h] = addrOf[k]
    /\ \A a \in NetAddr : bound[a] # 0 => bound[a] = current /\ addrOf[current] = a
    /\ \A g \in Go!Start_ : serving[g] \in {"due", "on"} =>
         g = current /\ bound[addrOf[g]] = g
    /\ \A g \in Go!Start_ : serving[g] = "on" => ~closed[g] /\ goServer[g] = g
    /\ \A g \in Go!Start_ : cancelled[g] \in {"waits", "due"} =>
         g = current /\ ~closed[g] /\ serving[g] \in {"due", "on"}

Counted ==
  /\ current <= started
  /\ running => current # 0 /\ cancelled[current] = "waits"
  /\ \A h \in Go!Start_ : closed[h] => h <= started
  /\ \A a \in NetAddr : bound[a] <= started
  /\ \A p \in NetPort : forwarder[p] <= started
  /\ \A g \in Go!Start_ : serving[g] # "none" => g <= started
  /\ \A g \in Go!Start_ : cancelled[g] # "none" => g <= started /\ current # 0

Forwarded ==
  /\ \A c \in Page : page[c] <= started /\ (page[c] = 0 => reported[c] = {})
  /\ Go!ForwardIsOpen

NetInv == Go!TypeOK /\ Counted /\ OneAtATime /\ Forwarded

LEMMA NetInit ==
  ASSUME MaxStart \in Nat, NetAddr # {}, Go!Init
  PROVE NetInv
<1>1. (CHOOSE a \in NetAddr : TRUE) \in NetAddr
  OBVIOUS
<1>2. Go!TypeOK
  <2>1. /\ addrOf \in [Go!Start_ -> NetAddr] /\ bound \in [NetAddr -> 0 .. MaxStart]
        /\ goServer \in [Go!Start_ -> 0 .. MaxStart]
        /\ forwarder \in [NetPort -> 0 .. MaxStart] /\ page \in [Page -> 0 .. MaxStart]
    BY <1>1 DEF Go!Init
  <2>2. /\ closed \in [Go!Start_ -> BOOLEAN] /\ reported \in [Page -> SUBSET NetPort]
        /\ serving \in [Go!Start_ -> {"none", "due", "on", "ended"}]
        /\ cancelled \in [Go!Start_ -> {"none", "waits", "due", "ended"}]
    BY DEF Go!Init
  <2>3. running \in BOOLEAN /\ moved \in BOOLEAN /\ taken \subseteq NetPort
    BY Zenon DEF Go!Init
  <2>4. current \in 0 .. MaxStart /\ started \in 0 .. MaxStart
    BY DEF Go!Init
  <2>5. QED BY <2>1, <2>2, <2>3, <2>4, Zenon DEF Go!TypeOK
<1>3. Counted /\ OneAtATime /\ Forwarded
  BY DEF Go!Init, Counted, OneAtATime, Forwarded, Go!ForwardIsOpen, Go!Start_
<1>4. QED BY <1>2, <1>3 DEF NetInv

LEMMA LaunchStep ==
  ASSUME MaxStart \in Nat, NetInv, NEW a \in NetAddr, NEW ports \in SUBSET NetPort, Go!Launch(a, ports),
         ~running, \A p \in ports : forwarder[p] = 0
  PROVE NetInv'
<1> DEFINE g == started + 1
<1>0. g \in Go!Start_ /\ started \in Nat /\ started' = g
  BY DEF Go!Launch, NetInv, Go!TypeOK, Go!Start_
<1>1. Go!TypeOK'
  <2>1. moved' \in BOOLEAN /\ running' \in BOOLEAN
    <3>1. /\ moved' = (moved \/ \E h \in 1 .. started : addrOf[h] # a)
          /\ running' = (bound[a] = 0)
      BY Zenon DEF Go!Launch, Go!Flag
    <3>2. QED BY <3>1, Zenon
  <2>2. /\ addrOf' \in [Go!Start_ -> NetAddr] /\ forwarder' \in [NetPort -> 0 .. MaxStart]
        /\ started' \in 0 .. MaxStart
    BY <1>0 DEF NetInv, Go!TypeOK, Go!Launch, Go!Forwards, Go!Start_
  <2>3. /\ bound' \in [NetAddr -> 0 .. MaxStart] /\ current' \in 0 .. MaxStart
        /\ serving' \in [Go!Start_ -> {"none", "due", "on", "ended"}]
        /\ cancelled' \in [Go!Start_ -> {"none", "waits", "due", "ended"}]
    <3>0. g \in 0 .. MaxStart
      BY <1>0 DEF Go!Start_
    <3>1. CASE bound[a] = 0
      BY <3>0, <3>1, <1>0 DEF NetInv, Go!TypeOK, Go!Launch
    <3>2. CASE bound[a] # 0
      BY <3>2 DEF NetInv, Go!TypeOK, Go!Launch
    <3>3. QED BY <3>1, <3>2
  <2>4. UNCHANGED <<closed, goServer, page, reported, taken>>
    BY DEF Go!Launch
  <2>5. QED BY <2>1, <2>2, <2>3, <2>4 DEF NetInv, Go!TypeOK
<1>2. Counted'
  <2>1. CASE bound[a] = 0
    <3>0. /\ current' = g /\ bound' = [bound EXCEPT ![a] = g] /\ closed' = closed
          /\ serving' = [serving EXCEPT ![g] = "due"]
          /\ cancelled' = [cancelled EXCEPT ![g] = "waits"]
      BY <2>1 DEF Go!Launch
    <3>1. current' <= started' /\ current' # 0 /\ cancelled'[current'] = "waits"
      BY <1>0, <3>0 DEF NetInv, Go!TypeOK
    <3>2. /\ \A h \in Go!Start_ : closed'[h] => h <= started'
          /\ \A h \in Go!Start_ : serving'[h] # "none" => h <= started'
          /\ \A h \in Go!Start_ : cancelled'[h] # "none" => h <= started' /\ current' # 0
      BY <1>0, <3>0 DEF NetInv, Go!TypeOK, Counted, Go!Start_
    <3>3. \A b \in NetAddr : bound'[b] <= started'
      BY <1>0, <3>0 DEF NetInv, Go!TypeOK, Counted
    <3>4. \A p \in NetPort : forwarder'[p] <= started'
      BY <1>0 DEF NetInv, Go!TypeOK, Counted, Go!Launch, Go!Forwards
    <3>5. QED BY <3>1, <3>2, <3>3, <3>4 DEF Counted
  <2>2. CASE bound[a] # 0
    BY <1>0, <2>2 DEF NetInv, Go!TypeOK, Counted, Go!Launch, Go!Flag, Go!Forwards, Go!Start_
  <2>3. QED BY <2>1, <2>2
<1>3. OneAtATime'
  <2>1. SUFFICES ASSUME ~moved' PROVE OneAtATime'
    BY DEF OneAtATime
  <2>2. ~moved /\ \A h \in 1 .. started : addrOf[h] = a
    BY <2>1 DEF Go!Launch
  <2>3. CASE bound[a] = 0
    <3>0. /\ current' = g /\ bound' = [bound EXCEPT ![a] = g] /\ UNCHANGED <<closed, goServer>>
          /\ serving' = [serving EXCEPT ![g] = "due"]
          /\ cancelled' = [cancelled EXCEPT ![g] = "waits"]
          /\ addrOf' = [addrOf EXCEPT ![g] = a]
      BY <2>3 DEF Go!Launch
    <3>1. \A h \in Go!Start_ : serving[h] \notin {"due", "on"} /\ cancelled[h] \notin {"waits", "due"}
      BY <2>2, <2>3, <1>0 DEF NetInv, Go!TypeOK, Counted, OneAtATime, Go!Start_
    <3>2. \A h, k \in 1 .. started' : addrOf'[h] = addrOf'[k]
      BY <1>0, <2>2, <3>0 DEF NetInv, Go!TypeOK, Go!Start_
    <3>3. \A b \in NetAddr : bound[b] = 0
      BY <2>2, <2>3, <1>0 DEF NetInv, Go!TypeOK, Counted, OneAtATime, Go!Start_
    <3>4. \A b \in NetAddr : bound'[b] # 0 => bound'[b] = current' /\ addrOf'[current'] = b
      BY <3>0, <3>3, <1>0 DEF NetInv, Go!TypeOK
    <3>5. \A h \in Go!Start_ : /\ serving'[h] \in {"due", "on"} =>
                                   h = current' /\ bound'[addrOf'[h]] = h
                               /\ serving'[h] # "on"
      BY <3>0, <3>1, <1>0 DEF NetInv, Go!TypeOK
    <3>6. \A h \in Go!Start_ : cancelled'[h] \in {"waits", "due"} =>
            h = current' /\ ~closed'[h] /\ serving'[h] \in {"due", "on"}
      BY <3>0, <3>1, <1>0 DEF NetInv, Go!TypeOK, Counted
    <3>7. QED BY <3>2, <3>4, <3>5, <3>6 DEF OneAtATime
  <2>4. CASE bound[a] # 0
    BY <1>0, <2>2, <2>4 DEF NetInv, Go!TypeOK, Counted, OneAtATime, Go!Launch, Go!Start_
  <2>5. QED BY <2>3, <2>4
<1>4. Forwarded'
  BY <1>0 DEF NetInv, Go!TypeOK, Forwarded, Go!ForwardIsOpen, Go!Launch, Go!Forwards
<1>5. QED BY <1>1, <1>2, <1>3, <1>4 DEF NetInv

LEMMA ServeStep ==
  ASSUME MaxStart \in Nat, NetInv, NEW g \in Go!Start_, Go!Serve(g)
  PROVE NetInv'
<1>1. Go!TypeOK'
  BY DEF NetInv, Go!TypeOK, Go!Serve, Go!netVars, Go!portVars
<1>2. Counted'
  <2>1. /\ UNCHANGED <<current, started, running, cancelled, closed, Go!portVars>>
        /\ serving' \in {[serving EXCEPT ![g] = "ended"], [serving EXCEPT ![g] = "on"]}
        /\ bound' \in {[bound EXCEPT ![addrOf[g]] = 0], bound}
    BY DEF Go!Serve
  <2>2. \A b \in NetAddr : bound'[b] <= started
    BY <2>1 DEF NetInv, Go!TypeOK, Counted
  <2>3. \A h \in Go!Start_ : serving'[h] # "none" => h <= started
    BY <2>1 DEF NetInv, Go!TypeOK, Counted, Go!Serve
  <2>4. QED BY <2>1, <2>2, <2>3 DEF NetInv, Counted, Go!portVars
<1>3. OneAtATime'
  BY DEF NetInv, Go!TypeOK, Counted, OneAtATime, Go!Serve, Go!Start_
<1>4. Forwarded'
  BY DEF NetInv, Go!TypeOK, Forwarded, Go!ForwardIsOpen, Go!Serve, Go!portVars
<1>5. QED BY <1>1, <1>2, <1>3, <1>4 DEF NetInv

LEMMA StopStep ==
  ASSUME MaxStart \in Nat, NetInv, Go!Stop \/ Go!Interrupt
  PROVE NetInv'
<1>0. /\ running /\ running' = FALSE
      /\ cancelled' = [cancelled EXCEPT ![current] = "due"]
      /\ UNCHANGED <<current, started, addrOf, bound, closed, serving, goServer, moved,
                     Go!portVars, page>>
  BY DEF Go!Stop, Go!Interrupt
<1>1. Go!TypeOK'
  BY <1>0 DEF NetInv, Go!TypeOK, Go!portVars
<1>2. Counted'
  <2>1. current \in Go!Start_ /\ current <= started /\ current # 0
    BY <1>0 DEF NetInv, Go!TypeOK, Counted, Go!Start_
  <2>2. \A g \in Go!Start_ : cancelled'[g] # "none" => g <= started /\ current # 0
    BY <1>0, <2>1 DEF NetInv, Go!TypeOK, Counted
  <2>3. QED BY <1>0, <2>1, <2>2 DEF NetInv, Counted, Go!portVars
<1>3. OneAtATime'
  BY <1>0 DEF NetInv, Go!TypeOK, Counted, OneAtATime, Go!Start_
<1>4. Forwarded'
  BY <1>0 DEF NetInv, Go!TypeOK, Forwarded, Go!ForwardIsOpen, Go!portVars
<1>5. QED BY <1>1, <1>2, <1>3, <1>4 DEF NetInv

LEMMA CloserStep ==
  ASSUME MaxStart \in Nat, NetInv, NEW g \in Go!Start_, Go!Closer(g)
  PROVE NetInv'
<1>1. Go!TypeOK'
  <2>1. closed' \in [Go!Start_ -> BOOLEAN]
    BY DEF NetInv, Go!TypeOK, Go!Closer
  <2>2. bound' \in [NetAddr -> 0 .. MaxStart]
    BY DEF NetInv, Go!TypeOK, Go!Closer
  <2>3. /\ serving' \in [Go!Start_ -> {"none", "due", "on", "ended"}]
        /\ cancelled' \in [Go!Start_ -> {"none", "waits", "due", "ended"}]
    BY DEF NetInv, Go!TypeOK, Go!Closer
  <2>4. QED BY <2>1, <2>2, <2>3 DEF NetInv, Go!TypeOK, Go!Closer, Go!portVars
<1>m. current \in Go!Start_ /\ current <= started /\ g <= started
  BY DEF NetInv, Go!TypeOK, Counted, Go!Closer, Go!Start_
<1> DEFINE mine == {h \in Go!Start_ : serving[h] = "on" /\ goServer[h] = current}
<1>u. /\ UNCHANGED <<running, current, started, addrOf, goServer, moved, Go!portVars, page>>
      /\ cancelled[g] = "due" /\ cancelled' = [cancelled EXCEPT ![g] = "ended"]
      /\ closed' = [closed EXCEPT ![current] = TRUE]
      /\ bound' = [a \in NetAddr |-> IF bound[a] \in mine THEN 0 ELSE bound[a]]
      /\ serving' = [h \in Go!Start_ |-> IF h \in mine THEN "ended" ELSE serving[h]]
  BY DEF Go!Closer
<1> HIDE DEF mine
<1>2. Counted'
  <2>1. running => cancelled'[current] = "waits"
    BY <1>u, <1>m DEF NetInv, Go!TypeOK, Counted
  <2>2. \A h \in Go!Start_ : closed'[h] => h <= started
    BY <1>u, <1>m DEF NetInv, Go!TypeOK, Counted
  <2>3. \A a \in NetAddr : bound'[a] <= started
    BY <1>u DEF NetInv, Go!TypeOK, Counted
  <2>4. \A h \in Go!Start_ : serving'[h] # "none" => h <= started
    BY <1>u DEF NetInv, Go!TypeOK, Counted, mine
  <2>5. \A h \in Go!Start_ : cancelled'[h] # "none" => h <= started /\ current # 0
    BY <1>u, <1>m DEF NetInv, Go!TypeOK, Counted, Go!Start_
  <2>6. QED BY <1>u, <1>m, <2>1, <2>2, <2>3, <2>4, <2>5 DEF NetInv, Counted, Go!portVars, Go!Start_
<1>3. OneAtATime'
  <2>1. SUFFICES ASSUME ~moved PROVE OneAtATime'
    BY <1>u DEF OneAtATime
  <2>2. g = current /\ mine \subseteq {current}
    BY <1>u, <2>1 DEF NetInv, OneAtATime, mine
  <2>3. serving[current] = "on" => mine = {current}
    BY <1>m, <2>2, <2>1 DEF NetInv, OneAtATime, mine
  <2>4. \A h \in Go!Start_ : serving'[h] # "on"
    BY <1>u, <2>1, <2>2, <2>3 DEF NetInv, OneAtATime
  <2>5. \A a \in NetAddr : bound'[a] # 0 => bound'[a] = current /\ addrOf[current] = a
    BY <1>u, <2>1 DEF NetInv, OneAtATime
  <2>6. \A h \in Go!Start_ : serving'[h] \in {"due", "on"} => h = current /\ bound'[addrOf[h]] = h
    BY <1>u, <2>1, <1>m DEF NetInv, Go!TypeOK, OneAtATime
  <2>7. \A h \in Go!Start_ : cancelled'[h] \notin {"waits", "due"}
    BY <1>u, <2>1, <2>2, <1>m DEF NetInv, Go!TypeOK, OneAtATime
  <2>8. QED BY <1>u, <2>1, <2>4, <2>5, <2>6, <2>7 DEF NetInv, OneAtATime
<1>4. Forwarded'
  BY DEF NetInv, Go!TypeOK, Forwarded, Go!ForwardIsOpen, Go!Closer, Go!portVars
<1>5. QED BY <1>1, <1>2, <1>3, <1>4 DEF NetInv

LEMMA PageStep ==
  ASSUME MaxStart \in Nat, NetInv, NEW c \in Page,
         \/ \E a \in NetAddr : Go!Dial(c, a)
         \/ \E p \in NetPort : Go!Forward(c, p) \/ Go!Unforward(c, p)
         \/ Go!Hangup(c)
  PROVE NetInv'
<1>0. UNCHANGED Go!netVars
  BY DEF Go!Dial, Go!Forward, Go!Unforward, Go!Hangup
<1>h. \A p \in NetPort : forwarder'[p] <= started
  BY DEF NetInv, Go!TypeOK, Counted, Forwarded, Go!Dial, Go!Forward, Go!Unforward, Go!Hangup, Go!portVars
<1>1. Counted' /\ OneAtATime'
  BY <1>0, <1>h DEF NetInv, Counted, OneAtATime, Go!netVars
<1>2. ASSUME NEW a \in NetAddr, Go!Dial(c, a) PROVE Go!TypeOK' /\ Forwarded'
  BY <1>0, <1>2 DEF NetInv, Go!TypeOK, Counted, Forwarded, Go!ForwardIsOpen, Go!Dial, Go!netVars, Go!portVars
<1>3. ASSUME NEW p \in NetPort, Go!Forward(c, p) PROVE Go!TypeOK' /\ Forwarded'
  BY <1>0, <1>3 DEF NetInv, Go!TypeOK, Counted, Forwarded, Go!ForwardIsOpen, Go!Forward, Go!netVars
<1>4. ASSUME NEW p \in NetPort, Go!Unforward(c, p) PROVE Go!TypeOK' /\ Forwarded'
  BY <1>0, <1>4 DEF NetInv, Go!TypeOK, Counted, Forwarded, Go!ForwardIsOpen, Go!Unforward, Go!netVars
<1>5. CASE Go!Hangup(c)
  <2>1. Go!TypeOK' /\ Forwarded'
    BY <1>0, <1>5 DEF NetInv, Go!TypeOK, Counted, Forwarded, Go!ForwardIsOpen, Go!Hangup, Go!netVars
  <2>2. QED BY <1>1, <2>1 DEF NetInv
<1>6. QED BY <1>1, <1>2, <1>3, <1>4, <1>5 DEF NetInv

LEMMA NetStep ==
  ASSUME MaxStart \in Nat, NetInv, [Go!Next]_(Go!vars)
  PROVE NetInv'
<1>1. ASSUME NEW a \in NetAddr, NEW parts \in 1 .. 3, NEW ports \in SUBSET NetPort,
             Go!Start(a, parts, ports)
      PROVE NetInv'
  <2> DEFINE opened == IF Go!Parsed(parts, FALSE) THEN ports ELSE {}
  <2>1. /\ Go!Launch(a, opened) /\ ~running /\ opened \in SUBSET NetPort
        /\ \A p \in opened : forwarder[p] = 0
    BY <1>1 DEF Go!Start
  <2>2. QED BY <2>1, LaunchStep
<1>2. ASSUME NEW a \in NetAddr, NEW parts \in 1 .. 3, NEW ports \in SUBSET NetPort,
             Go!Main(a, parts, ports)
      PROVE NetInv'
  <2> DEFINE opened == IF Go!Parsed(parts, TRUE) THEN ports ELSE {}
  <2>1. Go!Launch(a, opened) /\ started = 0 /\ opened \in SUBSET NetPort
    BY <1>2 DEF Go!Main
  <2>2. ~running
    BY <2>1 DEF NetInv, Go!TypeOK, Counted
  <2>3. \A p \in NetPort : forwarder[p] = 0
    BY <2>1 DEF NetInv, Go!TypeOK, Counted
  <2>4. QED BY <2>1, <2>2, <2>3, LaunchStep
<1>3. CASE UNCHANGED Go!vars
  BY <1>3 DEF Go!vars, Go!netVars, Go!portVars, NetInv, Go!TypeOK, Counted, OneAtATime, Forwarded,
              Go!ForwardIsOpen
<1>4. QED BY <1>1, <1>2, <1>3, ServeStep, StopStep, CloserStep, PageStep DEF Go!Next

LEMMA NetSafe == ASSUME MaxStart \in Nat, NetInv PROVE Go!RunningIsServed /\ Go!ForwardIsOpen
BY DEF NetInv, Go!TypeOK, Counted, OneAtATime, Forwarded, Go!RunningIsServed, Go!Start_

(* While v9net says it runs, the server made last is open and its listener  *)
(* has the address, as long as the starts ask for one address (v9net.go).   *)
THEOREM RunningIsServedAlways ==
  ASSUME MaxStart \in Nat, NetAddr # {}
  PROVE  Go!Spec => []Go!RunningIsServed
<1>1. Go!Init => NetInv
  BY NetInit
<1>2. NetInv /\ [Go!Next]_(Go!vars) => NetInv'
  BY NetStep
<1>3. NetInv => Go!RunningIsServed
  BY NetSafe
<1>4. QED BY <1>1, <1>2, <1>3, PTL DEF Go!Spec

(* A port a page was told is forwarded leads to the network that page is    *)
(* on, over stops and starts, unless a page gave it back (v9net.go).        *)
THEOREM ForwardIsOpenAlways ==
  ASSUME MaxStart \in Nat, NetAddr # {}
  PROVE  Go!Spec => []Go!ForwardIsOpen
<1>1. Go!Init => NetInv
  BY NetInit
<1>2. NetInv /\ [Go!Next]_(Go!vars) => NetInv'
  BY NetStep
<1>3. NetInv => Go!ForwardIsOpen
  BY NetSafe
<1>4. QED BY <1>1, <1>2, <1>3, PTL DEF Go!Spec

=============================================================================
