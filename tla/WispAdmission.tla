---------------------------- MODULE WispAdmission ----------------------------
(***************************************************************************)
(* Who may use the Wisp server (cmd/wisp-server-node: guard.js, and the    *)
(* WebSocket and /fetch handlers of server.js): the origin, the number of  *)
(* sessions of one address, which fetches share, and the guard that each   *)
(* hop of a fetch passes. What a WebSocket carries is WispServer's. A      *)
(* user is a member of Ws or of Fetch; names, ports and addresses either   *)
(* pass the guard or do not.                                               *)
(***************************************************************************)
EXTENDS Integers, FiniteSets

CONSTANTS
  Addr,          \* clients' addresses
  Ws, Fetch,     \* WebSockets and POST /fetch requests
  MaxSessions,   \* WISP_MAX_SESSIONS_PER_IP; 0 is no limit
  MaxRedirects   \* FETCH_MAX_REDIRECTS

(* The limits are numbers (guard.js reads them with parseInt), and a        *)
(* WebSocket is not a fetch.                                                *)
ASSUME GuardAssumption ==
  MaxSessions \in Nat /\ MaxRedirects \in Nat /\ Ws \cap Fetch = {}

VARIABLES
  sessionsByIp,  \* guard.js, _sessionsByIp
  ws,            \* each WebSocket
  fetch          \* each fetch

guardVars == <<sessionsByIp, ws, fetch>>

Origins == {"none", "local", "listed", "other"}
Methods == {"GET", "HEAD", "POST"}
FetchBusy == {"reading", "checking", "asking"}

GuardTypeOK ==
  /\ sessionsByIp \in [Addr -> SUBSET (Ws \cup Fetch)]
  /\ ws \in [Ws -> [at : {"none", "open", "failed", "closed"}, ip : Addr]]
  /\ fetch \in [Fetch -> [at : {"none", "over"} \cup FetchBusy, ip : Addr,
                          hop : 0 .. MaxRedirects, cleared : 0 .. MaxRedirects + 1,
                          method : Methods, body : BOOLEAN, status : Nat]]

GuardInit ==
  /\ sessionsByIp = [a \in Addr |-> {}]
  /\ ws \in [Ws -> [at : {"none"}, ip : Addr]]
  /\ fetch \in [Fetch -> [at : {"none"}, ip : Addr, hop : {0}, cleared : {0},
                          method : {"GET"}, body : {FALSE}, status : {0}]]

-----------------------------------------------------------------------------
(* tryAddSession, removeSession. Without a limit nothing is counted.        *)

MayAdd(a) == MaxSessions = 0 \/ Cardinality(sessionsByIp[a]) < MaxSessions

Added(a, x) ==
  IF MaxSessions = 0 THEN sessionsByIp ELSE [sessionsByIp EXCEPT ![a] = @ \cup {x}]

Removed(a, x) == [sessionsByIp EXCEPT ![a] = @ \ {x}]

(* isAllowedOrigin: a client that sends no origin is let in.                *)
IsAllowedOrigin(origin) == origin # "other"

-----------------------------------------------------------------------------
(* verifyClient and 'connection'. What is refused leaves no trace.          *)
Connection(w, origin) ==
  /\ ws[w].at = "none"
  /\ IF IsAllowedOrigin(origin) /\ MayAdd(ws[w].ip)
     THEN ws' = [ws EXCEPT ![w].at = "open"] /\ sessionsByIp' = Added(ws[w].ip, w)
     ELSE ws' = [ws EXCEPT ![w].at = "closed"] /\ UNCHANGED sessionsByIp
  /\ UNCHANGED fetch

(* 'error' and 'close' both close the session: the place is given up at     *)
(* the first.                                                               *)
SessionClose(w, failed) ==
  /\ ws[w].at = "open" \/ (ws[w].at = "failed" /\ ~failed)
  /\ ws' = [ws EXCEPT ![w].at = IF failed THEN "failed" ELSE "closed"]
  /\ sessionsByIp' = Removed(ws[w].ip, w)
  /\ UNCHANGED fetch

-----------------------------------------------------------------------------
(* handleFetchRequest. /fetch wants an origin.                              *)

Answer(f, status) == [fetch EXCEPT ![f].at = "over", ![f].status = status]

Request(f, origin, verb) ==
  LET refusal == CASE origin = "none" \/ ~IsAllowedOrigin(origin) -> 403
                   [] verb = "OPTIONS" -> 204
                   [] verb = "PUT" -> 405
                   [] ~MayAdd(fetch[f].ip) -> 429
                   [] OTHER -> 0
  IN  /\ fetch[f].at = "none"
      /\ IF refusal # 0
         THEN fetch' = Answer(f, refusal) /\ UNCHANGED sessionsByIp
         ELSE /\ fetch' = [fetch EXCEPT ![f].at = "reading"]
              /\ sessionsByIp' = Added(fetch[f].ip, f)
      /\ UNCHANGED ws

\* Mutant: the place is given up where the answer is sent, not when it fails.
DoneIfAnswered(f, status) ==
  /\ fetch' = Answer(f, status)
  /\ sessionsByIp' = IF status = 200 THEN Removed(fetch[f].ip, f) ELSE sessionsByIp
  /\ UNCHANGED ws

(* try, catch and finally: one answer, and the place is given up.           *)
Done(f, status) ==
  /\ fetch' = Answer(f, status)
  /\ sessionsByIp' = Removed(fetch[f].ip, f)
  /\ UNCHANGED ws

(* _readJsonBody: what the request asks for, or too large, no JSON, cut     *)
(* off, no url.                                                             *)
BodyRead(f, method, body) ==
  /\ fetch[f].at = "reading"
  /\ fetch' = [fetch EXCEPT ![f].at = "checking", ![f].method = method,
                            ![f].body = body]
  /\ UNCHANGED <<sessionsByIp, ws>>

BodyFails(f) == fetch[f].at = "reading" /\ Done(f, 502)

(* The scheme, checkPort, and resolveAndCheck, which awaits the name.       *)
Checked(f) ==
  /\ fetch[f].at = "checking"
  /\ fetch' = [fetch EXCEPT ![f].at = "asking", ![f].cleared = @ + 1]
  /\ UNCHANGED <<sessionsByIp, ws>>

Blocked(f) == fetch[f].at = "checking" /\ Done(f, 502)

(* _doFetchHop: an answer, or an error, a timeout, too large a body.        *)
HopFails(f) == fetch[f].at = "asking" /\ Done(f, 502)

HopAnswers(f) == fetch[f].at = "asking" /\ Done(f, 200)

\* Mutant: a redirect is followed at once.
NextHopAtOnce(f) == "asking"

(* A redirect goes through the guard again.                                 *)
NextHop(f) == "checking"

\* Mutant: one redirect too many is followed.
LastHopOffByOne(f) == fetch[f].hop > MaxRedirects

(* The loop ends after FETCH_MAX_REDIRECTS redirects.                       *)
LastHop(f) == fetch[f].hop = MaxRedirects

(* Any method but GET and HEAD becomes GET, and has no body any more: for   *)
(* 307 and 308 too.                                                         *)
Redirected(f, status) ==
  LET get == status = 303 \/ fetch[f].method = "POST"
  IN  /\ fetch[f].at = "asking"
      /\ IF LastHop(f) THEN Done(f, 502)
         ELSE /\ fetch' = [fetch EXCEPT
                   ![f].at = NextHop(f), ![f].hop = @ + 1,
                   ![f].method = IF get THEN "GET" ELSE @,
                   ![f].body = @ /\ ~get]
              /\ UNCHANGED <<sessionsByIp, ws>>

GuardNext ==
  \/ \E w \in Ws, origin \in Origins : Connection(w, origin)
  \/ \E w \in Ws, failed \in BOOLEAN : SessionClose(w, failed)
  \/ \E f \in Fetch :
       BodyFails(f) \/ Checked(f) \/ Blocked(f) \/ HopFails(f) \/ HopAnswers(f)
  \/ \E f \in Fetch, origin \in Origins, verb \in {"POST", "PUT", "OPTIONS"} :
       Request(f, origin, verb)
  \/ \E f \in Fetch, method \in Methods, body \in BOOLEAN : BodyRead(f, method, body)
  \/ \E f \in Fetch, status \in {302, 303, 307} : Redirected(f, status)

GuardSpec == GuardInit /\ [][GuardNext]_guardVars

-----------------------------------------------------------------------------
(* The places of an address are those of its open sessions and of its       *)
(* fetches in progress, no place is lost or held twice whichever way either *)
(* ends, and there are never more than the limit.                           *)
BudgetIsExact ==
  MaxSessions # 0 => \A a \in Addr :
    /\ sessionsByIp[a] = {w \in Ws : ws[w].at = "open" /\ ws[w].ip = a}
                    \cup {f \in Fetch : fetch[f].at \in FetchBusy /\ fetch[f].ip = a}
    /\ Cardinality(sessionsByIp[a]) <= MaxSessions

(* A place is asked only what the guard has let through for that very hop.  *)
EveryHopIsChecked ==
  \A f \in Fetch : fetch[f].at = "asking" => fetch[f].cleared = fetch[f].hop + 1

(* Both: no session beyond the budget of its address, no hop unchecked.     *)
GuardIsKept == BudgetIsExact /\ EveryHopIsChecked
=============================================================================
