-------------------------- MODULE DockerClientProofs --------------------------
(***************************************************************************)
(* Proofs about the requests of one dockerClient, for any number of        *)
(* goroutines and whatever the registry and the token server answer.       *)
(***************************************************************************)
EXTENDS DockerClient, TLAPS

PCs == {"start", "auth", "fetch", "send", "response", "sleep", "return", "done"}

-----------------------------------------------------------------------------
(* Type correctness *)

(* A request of the program is one of the assumed kinds.                   *)
LEMMA KindIsTyped ==
  ASSUME TypeOK, NEW r \in Requests
  PROVE  /\ kind[r].auth \in BOOLEAN /\ kind[r].external \in BOOLEAN
         /\ kind[r].stream \in BOOLEAN /\ kind[r].extra \in Scopes \cup {NoScope}
BY KindsAssumption DEF TypeOK

(* makeRequestToResolvedURL begins in a typed state.                       *)
LEMMA BeginIsTyped ==
  ASSUME TypeOK, NEW r \in Requests, NEW ro \in {"own", "ping"}, Begin(r, ro)
  PROVE  /\ role' \in [Requests -> {"own", "ping"}] /\ pc' \in [Requests -> PCs]
         /\ attempts' \in [Requests -> Nat] /\ delay' \in [Requests -> Int]
         /\ sent' \in [Requests -> Nat]
BY BackoffAssumption DEF TypeOK, Begin, Goto, PCs

(* Every step keeps the types.                                             *)
LEMMA TypeNext == TypeOK /\ [Next]_vars => TypeOK'
<1> SUFFICES ASSUME TypeOK, [Next]_vars PROVE TypeOK'
  OBVIOUS
<1> USE BackoffAssumption, LifetimesAssumption
<1>1. CASE UNCHANGED vars
  BY <1>1 DEF vars, requestVars, TypeOK
<1>2. CASE Tick
  BY <1>2 DEF Tick, requestVars, TypeOK
<1>3. ASSUME NEW r \in Requests, Start(r) PROVE TypeOK'
  <2>1. UNCHANGED <<client, tokens, now, kind, scheme, extra, scopeRetry, carried, checked>>
    BY <1>3 DEF Start
  <2>2. CASE /\ Begin(r, "own") \/ Begin(r, "ping")
             /\ detect' \in {"running", detect} /\ UNCHANGED res
    BY <2>1, <2>2, BeginIsTyped DEF TypeOK, PCs
  <2>3. CASE /\ Goto(r, "done") /\ res' = [res EXCEPT ![r] = "error"]
             /\ UNCHANGED <<detect, role, attempts, delay, sent>>
    BY <2>1, <2>3 DEF TypeOK, Goto, Results
  <2> QED
    BY <1>3, <2>2, <2>3 DEF Start
<1>4. ASSUME NEW r \in Requests, Pinged(r) PROVE TypeOK'
  <2>1. UNCHANGED <<tokens, now, kind, extra, scopeRetry, carried, checked>>
    BY <1>4 DEF Pinged
  <2>2. ASSUME NEW c \in {"none", "basic", "bearer"}, client' = [client EXCEPT !.challenge = c],
               detect' = "ok", Begin(r, "own"), scheme' = [scheme EXCEPT ![r] = "https"],
               UNCHANGED res
        PROVE  TypeOK'
    BY <2>1, <2>2, BeginIsTyped DEF TypeOK, PCs
  <2>3. CASE /\ scheme' = [scheme EXCEPT ![r] = "http"] /\ Begin(r, "ping")
             /\ UNCHANGED <<client, detect, res>>
    BY <2>1, <2>3, BeginIsTyped DEF TypeOK, PCs
  <2>4. CASE /\ FailureKept /\ Goto(r, "done") /\ res' = [res EXCEPT ![r] = "error"]
             /\ UNCHANGED <<client, scheme, role, attempts, delay, sent>>
    BY <2>1, <2>4 DEF TypeOK, FailureKept, Goto, Results
  <2> QED
    BY <1>4, <2>2, <2>3, <2>4 DEF Pinged
<1>5. ASSUME NEW r \in Requests, Returned(r) PROVE TypeOK'
  BY <1>5, KindIsTyped DEF Returned, Goto, TypeOK
<1>6. ASSUME NEW r \in Requests, Auth(r) PROVE TypeOK'
  <2>1. /\ UNCHANGED <<client, detect, tokens, now, kind, role, scheme, extra, attempts,
                       scopeRetry, delay, sent, res>>
        /\ checked' = [checked EXCEPT ![r] = now]
        /\ pc' \in [Requests -> PCs]
    BY <1>6 DEF Auth, Goto, TypeOK, PCs
  <2>2. \E how \in {"none", "basic", "given", "token"}, t \in {tokens[extra[r]], NoToken} :
          carried' = [carried EXCEPT ![r].how = how, ![r].token = t] \/ UNCHANGED carried
    BY <1>6 DEF Auth
  <2>3. tokens[extra[r]] \in Token /\ NoToken \in Token
    BY DEF TypeOK, NoToken, Token
  <2>4. carried' \in [Requests -> [how : {"none", "basic", "given", "token"}, token : Token,
                                   fresh : BOOLEAN]]
    BY <2>2, <2>3 DEF TypeOK
  <2> QED
    BY <2>1, <2>4 DEF TypeOK, PCs
<1>7. ASSUME NEW r \in Requests, Fetch(r) PROVE TypeOK'
  <2>1. UNCHANGED <<client, detect, now, kind, role, scheme, extra, attempts, scopeRetry, delay,
                    sent, checked>>
    BY <1>7 DEF Fetch
  <2>2. pc' \in [Requests -> PCs] /\ res' \in [Requests -> Results]
    BY <1>7 DEF Fetch, Goto, TypeOK, PCs, Results
  <2>3. ASSUME NEW issued \in {0, now}, NEW lifetime \in Lifetimes
        PROVE  newToken(r, issued, lifetime) \in Token
    BY DEF newToken, Token, TypeOK
  <2>4. /\ tokens' \in [Scopes \cup {NoScope} -> Token]
        /\ carried' \in [Requests -> [how : {"none", "basic", "given", "token"}, token : Token,
                                      fresh : BOOLEAN]]
    <3>1. CASE UNCHANGED <<tokens, carried>>
      BY <3>1 DEF TypeOK
    <3>2. ASSUME NEW t \in Token, tokens' = [tokens EXCEPT ![extra[r]] = t],
                 carried' = [carried EXCEPT ![r] = [how |-> "token", token |-> t, fresh |-> TRUE]]
          PROVE  /\ tokens' \in [Scopes \cup {NoScope} -> Token]
                 /\ carried' \in [Requests -> [how : {"none", "basic", "given", "token"},
                                               token : Token, fresh : BOOLEAN]]
      BY <3>2 DEF TypeOK
    <3> QED
      BY <1>7, <2>3, <3>1, <3>2 DEF Fetch
  <2> QED
    BY <2>1, <2>2, <2>4 DEF TypeOK, PCs
<1>8. ASSUME NEW r \in Requests, Send(r) PROVE TypeOK'
  BY <1>8 DEF Send, Nothing, Goto, TypeOK, NoToken, Token, Results
<1>9. ASSUME NEW r \in Requests, Response(r) PROVE TypeOK'
  <2>1. UNCHANGED <<client, detect, tokens, now, kind, role, scheme, sent, carried, checked, res>>
    BY <1>9 DEF Response
  <2>2. attempts' \in [Requests -> Nat] /\ pc' \in [Requests -> PCs]
    BY <1>9 DEF Response, Goto, TypeOK, PCs
  <2>3. extra' \in [Requests -> Scopes \cup {NoScope}] /\ scopeRetry' \in [Requests -> BOOLEAN]
    <3>1. \/ UNCHANGED extra
          \/ \E s \in Scopes : extra' = [extra EXCEPT ![r] = s]
      BY <1>9 DEF Response
    <3>2. \E b \in BOOLEAN : scopeRetry' = [scopeRetry EXCEPT ![r] = b]
      BY <1>9 DEF Response
    <3> QED
      BY <3>1, <3>2 DEF TypeOK
  <2>4. delay' \in [Requests -> Int]
    BY <1>9 DEF Response, TypeOK
  <2> QED
    BY <2>1, <2>2, <2>3, <2>4 DEF TypeOK, PCs
<1>10. ASSUME NEW r \in Requests, Sleep(r) PROVE TypeOK'
  <2>1. UNCHANGED <<client, detect, tokens, now, kind, role, scheme, extra, attempts, scopeRetry,
                    sent, carried, checked>>
    BY <1>10 DEF Sleep
  <2>2. pc' \in [Requests -> PCs] /\ res' \in [Requests -> Results]
    BY <1>10 DEF Sleep, Goto, TypeOK, PCs, Results
  <2>3. delay' \in [Requests -> Int]
    BY <1>10 DEF Sleep, TypeOK
  <2> QED
    BY <2>1, <2>2, <2>3 DEF TypeOK, PCs
<1> QED
  BY <1>1, <1>2, <1>3, <1>4, <1>5, <1>6, <1>7, <1>8, <1>9, <1>10 DEF Next, Step

(* A step of one goroutine leaves the local variables of the others alone. *)
LEMMA OthersUnchanged ==
  ASSUME TypeOK, NEW r \in Requests, Step(r), NEW q \in Requests, q # r
  PROVE  /\ kind'[q] = kind[q] /\ pc'[q] = pc[q] /\ role'[q] = role[q]
         /\ extra'[q] = extra[q] /\ attempts'[q] = attempts[q]
         /\ scopeRetry'[q] = scopeRetry[q] /\ delay'[q] = delay[q] /\ sent'[q] = sent[q]
         /\ carried'[q] = carried[q] /\ checked'[q] = checked[q]
<1>1. CASE Start(r)
  BY <1>1 DEF Start, Begin, Goto, TypeOK
<1>2. CASE Pinged(r)
  BY <1>2 DEF Pinged, FailureKept, Begin, Goto, TypeOK
<1>3. CASE Returned(r)
  BY <1>3 DEF Returned, Goto, TypeOK
<1>4. CASE Auth(r)
  BY <1>4 DEF Auth, Goto, TypeOK
<1>5. CASE Fetch(r)
  BY <1>5 DEF Fetch, Goto, TypeOK
<1>6. CASE Send(r)
  BY <1>6 DEF Send, Goto, TypeOK
<1>7. CASE Response(r)
  BY <1>7 DEF Response, Goto, TypeOK
<1>8. CASE Sleep(r)
  BY <1>8 DEF Sleep, Goto, TypeOK
<1> QED
  BY <1>1, <1>2, <1>3, <1>4, <1>5, <1>6, <1>7, <1>8 DEF Step

-----------------------------------------------------------------------------
(* The detection of the registry *)

(* Whoever pings is inside sync.Once, and whoever sends a request of its   *)
(* own has waited for a detection that succeeded.                          *)
Detecting ==
  \A r \in Requests :
    /\ role[r] = "ping" /\ pc[r] # "done" => detect = "running"
    /\ role[r] = "own" /\ pc[r] \notin {"start", "done"} => detect = "ok"

(* Detection happens once, whatever the interleaving.                      *)
LEMMA DetectingNext ==
  ASSUME TypeOK, Detecting, OnePing, [Next]_vars PROVE Detecting' /\ OnePing'
<1>1. CASE UNCHANGED <<detect, pc, role>>
  BY <1>1 DEF Detecting, OnePing
<1>2. ASSUME NEW r \in Requests, Start(r) PROVE Detecting' /\ OnePing'
  <2>1. pc[r] = "start" /\ \A q \in Requests \ {r} : pc'[q] = pc[q] /\ role'[q] = role[q]
    BY <1>2, OthersUnchanged DEF Start, Step
  <2>2. CASE detect = "no" /\ detect' = "running" /\ Begin(r, "ping")
    BY <2>1, <2>2 DEF Begin, Goto, Detecting, OnePing, TypeOK
  <2>3. CASE detect = "ok" /\ detect' = "ok" /\ Begin(r, "own")
    BY <2>1, <2>3 DEF Begin, Goto, Detecting, OnePing, TypeOK
  <2>4. CASE Goto(r, "done") /\ UNCHANGED <<detect, role>>
    BY <2>1, <2>4 DEF Goto, Detecting, OnePing, TypeOK
  <2> QED
    BY <1>2, <2>2, <2>3, <2>4 DEF Start
<1>3. ASSUME NEW r \in Requests, Pinged(r) PROVE Detecting' /\ OnePing'
  <2>1. /\ pc[r] = "return" /\ role[r] = "ping"
        /\ \A q \in Requests \ {r} : pc'[q] = pc[q] /\ role'[q] = role[q]
    BY <1>3, OthersUnchanged DEF Pinged, Step
  <2>2. /\ detect = "running"
        /\ \A q \in Requests \ {r} : ~(role[q] = "ping" /\ pc[q] # "done")
    BY <2>1 DEF Detecting, OnePing
  <2>3. CASE detect' = "ok" /\ Begin(r, "own")
    BY <2>1, <2>2, <2>3 DEF Begin, Goto, Detecting, OnePing, TypeOK
  <2>4. CASE detect' = detect /\ Begin(r, "ping")
    BY <2>1, <2>2, <2>4 DEF Begin, Goto, Detecting, OnePing, TypeOK
  <2>5. CASE detect' = "failed" /\ Goto(r, "done") /\ UNCHANGED role
    BY <2>1, <2>2, <2>5 DEF Goto, Detecting, OnePing, TypeOK
  <2> QED
    BY <1>3, <2>3, <2>4, <2>5 DEF Pinged, FailureKept
<1>4. ASSUME NEW r \in Requests, UNCHANGED <<detect, role>>, pc[r] \notin {"start", "done"},
             NEW l \in PCs \ {"start"}, Goto(r, l)
      PROVE  Detecting' /\ OnePing'
  BY <1>4 DEF Goto, Detecting, OnePing, TypeOK, PCs
<1>5. ASSUME NEW r \in Requests,
             Returned(r) \/ Auth(r) \/ Fetch(r) \/ Send(r) \/ Response(r) \/ Sleep(r)
      PROVE  Detecting' /\ OnePing'
  <2>1. UNCHANGED <<detect, role>> /\ pc[r] \notin {"start", "done"}
    BY <1>5 DEF Returned, Auth, Fetch, Send, Response, Sleep
  <2>2. \E l \in PCs \ {"start"} : Goto(r, l)
    BY <1>5 DEF Returned, Auth, Fetch, Send, Response, Sleep, PCs
  <2> QED
    BY <1>4, <2>1, <2>2
<1> QED
  BY <1>1, <1>2, <1>3, <1>5 DEF Next, Step, Tick, vars, requestVars

-----------------------------------------------------------------------------
(* The number of requests sent *)

Sending == {"auth", "fetch", "send"}

(* Before attempt number attempts + 1, one request per attempt was sent,   *)
(* and possibly the scope retry of the first one.                          *)
CountedBefore(r) ==
  IF scopeRetry[r] THEN attempts[r] = 1 /\ sent[r] = 1
  ELSE /\ attempts[r] < Iterations /\ sent[r] <= attempts[r] + 1
       /\ attempts[r] = 0 => sent[r] = 0

(* With the answer, that request is counted in sent and not in attempts.   *)
CountedAfter(r) ==
  IF scopeRetry[r] THEN attempts[r] = 1 /\ sent[r] = 2
  ELSE /\ attempts[r] < Iterations /\ sent[r] <= attempts[r] + 2
       /\ attempts[r] = 0 => sent[r] = 1

(* The ping has no scope retry.                                            *)
PingIsCounted(r) ==
  role[r] = "ping" =>
    /\ ~scopeRetry[r] /\ sent[r] <= Iterations
    /\ pc[r] \in Sending \cup {"sleep"} => sent[r] <= attempts[r]
    /\ pc[r] = "response" => sent[r] <= attempts[r] + 1

(* A body is sent in the first attempt, and there is no other.             *)
BodyIsCounted(r) ==
  role[r] = "own" /\ kind[r].stream =>
    /\ ~scopeRetry[r] /\ sent[r] <= 1 /\ pc[r] # "sleep"
    /\ pc[r] \in Sending => attempts[r] = 0

RequestIsCounted(r) ==
  /\ pc[r] = "start" => ~scopeRetry[r] /\ sent[r] = 0 /\ role[r] = "own"
  /\ pc[r] \in Sending => CountedBefore(r)
  /\ pc[r] = "response" => CountedAfter(r)
  /\ pc[r] = "sleep" => /\ ~scopeRetry[r] /\ CountedBefore(r)
                        /\ attempts[r] > 0 /\ delay[r] <= MaxDelay
  /\ sent[r] <= Iterations + 1
  /\ PingIsCounted(r)
  /\ BodyIsCounted(r)

(* The count of a request depends on its local variables only.             *)
LEMMA CountIsLocal ==
  ASSUME NEW q, RequestIsCounted(q),
         kind'[q] = kind[q], pc'[q] = pc[q], role'[q] = role[q], attempts'[q] = attempts[q],
         scopeRetry'[q] = scopeRetry[q], delay'[q] = delay[q], sent'[q] = sent[q]
  PROVE  RequestIsCounted(q)'
BY DEF RequestIsCounted, CountedBefore, CountedAfter, PingIsCounted, BodyIsCounted

(* makeRequestToResolvedURL begins with nothing sent.                      *)
LEMMA BeginIsCounted ==
  ASSUME TypeOK, NEW r \in Requests, NEW ro \in {"own", "ping"}, Begin(r, ro),
         ~scopeRetry[r], UNCHANGED <<kind, scopeRetry>>
  PROVE  RequestIsCounted(r)'
<1>1. /\ role'[r] = ro /\ attempts'[r] = 0 /\ sent'[r] = 0 /\ pc'[r] = "auth"
      /\ scopeRetry'[r] = scopeRetry[r]
  BY DEF Begin, Goto, TypeOK
<1> QED
  BY <1>1, BackoffAssumption DEF RequestIsCounted, CountedBefore, PingIsCounted,
     BodyIsCounted, Sending

(* No step makes the counts disagree.                                      *)
LEMMA CountedNext ==
  ASSUME TypeOK, TypeOK', \A r \in Requests : RequestIsCounted(r), [Next]_vars
  PROVE  \A r \in Requests : RequestIsCounted(r)'
<1> USE BackoffAssumption
<1>1. ASSUME UNCHANGED requestVars, NEW q \in Requests PROVE RequestIsCounted(q)'
  BY <1>1, CountIsLocal DEF requestVars
<1>2. ASSUME NEW r \in Requests, Step(r) PROVE RequestIsCounted(r)'
  <2>0. /\ RequestIsCounted(r) /\ attempts[r] \in Nat /\ sent[r] \in Nat /\ delay[r] \in Int
        /\ scopeRetry[r] \in BOOLEAN /\ role[r] \in {"own", "ping"}
    BY DEF TypeOK
  <2>1. CASE Start(r)
    <3>1. CASE Begin(r, "own") \/ Begin(r, "ping")
      BY <2>0, <2>1, <3>1, BeginIsCounted DEF Start, RequestIsCounted
    <3>2. CASE Goto(r, "done") /\ UNCHANGED <<role, attempts, delay, sent>>
      BY <2>0, <2>1, <3>2 DEF Start, Goto, RequestIsCounted, PingIsCounted, BodyIsCounted,
         Sending, TypeOK
    <3> QED
      BY <2>1, <3>1, <3>2 DEF Start
  <2>2. CASE Pinged(r)
    <3>1. CASE Begin(r, "own") \/ Begin(r, "ping")
      BY <2>0, <2>2, <3>1, BeginIsCounted DEF Pinged, RequestIsCounted, PingIsCounted
    <3>2. CASE Goto(r, "done") /\ UNCHANGED <<role, attempts, delay, sent>>
      BY <2>0, <2>2, <3>2 DEF Pinged, Goto, RequestIsCounted, PingIsCounted, BodyIsCounted,
         Sending, TypeOK
    <3> QED
      BY <2>2, <3>1, <3>2 DEF Pinged
  <2>3. CASE Returned(r)
    BY <2>0, <2>3 DEF Returned, Goto, RequestIsCounted, PingIsCounted, BodyIsCounted, Sending,
       TypeOK
  <2>4. CASE Auth(r)
    <3>1. /\ pc[r] = "auth" /\ pc'[r] \in {"fetch", "send"}
          /\ UNCHANGED <<kind, role, attempts, scopeRetry, delay, sent>>
      BY <2>4 DEF Auth, Goto, TypeOK
    <3> QED
      BY <2>0, <3>1 DEF RequestIsCounted, CountedBefore, PingIsCounted, BodyIsCounted, Sending
  <2>5. CASE Fetch(r)
    <3>1. /\ pc[r] = "fetch" /\ pc'[r] \in {"send", "return"}
          /\ UNCHANGED <<kind, role, attempts, scopeRetry, delay, sent>>
      BY <2>5 DEF Fetch, Goto, TypeOK
    <3> QED
      BY <2>0, <3>1 DEF RequestIsCounted, CountedBefore, PingIsCounted, BodyIsCounted, Sending
  <2>6. CASE Send(r)
    <3>1. /\ pc[r] = "send" /\ pc'[r] \in {"response", "return"} /\ sent'[r] = sent[r] + 1
          /\ UNCHANGED <<kind, role, attempts, scopeRetry, delay>>
      BY <2>6 DEF Send, Goto, TypeOK
    <3> QED
      BY <2>0, <3>1 DEF RequestIsCounted, CountedBefore, CountedAfter, PingIsCounted,
         BodyIsCounted, Sending
  <2>7. CASE Response(r)
    <3> DEFINE n == IF scopeRetry[r] THEN attempts[r] ELSE attempts[r] + 1
    <3>1. /\ pc[r] = "response" /\ attempts'[r] = n /\ UNCHANGED <<kind, role, sent>>
      BY <2>7 DEF Response, TypeOK
    <3>2. CASE /\ ~scopeRetry[r] /\ n = 1 /\ ~kind[r].stream /\ authenticated(r)
               /\ scopeRetry'[r] = TRUE /\ pc'[r] = "auth"
      BY <2>0, <3>1, <3>2 DEF RequestIsCounted, CountedBefore, CountedAfter, PingIsCounted,
         BodyIsCounted, Sending, authenticated
    <3>3. CASE /\ scopeRetry'[r] = FALSE /\ mayRetry(r, n) /\ pc'[r] = "sleep"
               /\ delay'[r] <= MaxDelay
      BY <2>0, <3>1, <3>3 DEF RequestIsCounted, CountedBefore, CountedAfter, PingIsCounted,
         BodyIsCounted, Sending, mayRetry
    <3>4. CASE scopeRetry'[r] = FALSE /\ pc'[r] = "return"
      BY <2>0, <3>1, <3>4 DEF RequestIsCounted, CountedAfter, PingIsCounted, BodyIsCounted,
         Sending
    <3>5. ASSUME NEW after \in RetryAfters \cup {delay[r]},
                 delay' = [delay EXCEPT ![r] = IF after < MaxDelay THEN after ELSE MaxDelay]
          PROVE  delay'[r] <= MaxDelay
      BY <2>0, <3>5 DEF TypeOK
    <3>6. \A l : Goto(r, l) => pc'[r] = l
      BY DEF Goto, TypeOK
    <3>7. \A b \in BOOLEAN : scopeRetry' = [scopeRetry EXCEPT ![r] = b] => scopeRetry'[r] = b
      BY DEF TypeOK
    <3> HIDE DEF n
    <3>8. \/ /\ ~scopeRetry[r] /\ n = 1 /\ ~kind[r].stream /\ authenticated(r)
             /\ scopeRetry' = [scopeRetry EXCEPT ![r] = TRUE] /\ Goto(r, "auth")
          \/ /\ scopeRetry' = [scopeRetry EXCEPT ![r] = FALSE] /\ mayRetry(r, n)
             /\ Goto(r, "sleep")
             /\ \E after \in RetryAfters \cup {delay[r]} :
                  delay' = [delay EXCEPT ![r] = IF after < MaxDelay THEN after ELSE MaxDelay]
          \/ scopeRetry' = [scopeRetry EXCEPT ![r] = FALSE] /\ Goto(r, "return")
      BY <2>7 DEF Response, n
    <3> QED
      BY <3>2, <3>3, <3>4, <3>5, <3>6, <3>7, <3>8
  <2>8. CASE Sleep(r)
    <3>1. /\ pc[r] = "sleep" /\ pc'[r] \in {"auth", "return"}
          /\ UNCHANGED <<kind, role, attempts, scopeRetry, sent>>
      BY <2>8 DEF Sleep, Goto, TypeOK
    <3> QED
      BY <2>0, <3>1 DEF RequestIsCounted, CountedBefore, PingIsCounted, BodyIsCounted, Sending
  <2> QED
    BY <1>2, <2>1, <2>2, <2>3, <2>4, <2>5, <2>6, <2>7, <2>8 DEF Step
<1>3. ASSUME NEW r \in Requests, Step(r), NEW q \in Requests, q # r PROVE RequestIsCounted(q)'
  BY <1>3, OthersUnchanged, CountIsLocal
<1> QED
  BY <1>1, <1>2, <1>3 DEF Next, Tick, vars

-----------------------------------------------------------------------------
(* Credentials *)

(* The cache has a token under the scope it is for.                        *)
CacheFits ==
  \A s \in Scopes \cup {NoScope} : tokens[s] = NoToken \/ tokens[s].scopes = {NoScope, s}

(* A token is fetched only for a request that is authenticated; what a     *)
(* request is about to carry is for it.                                    *)
RequestIsSafe(r) ==
  /\ pc[r] = "fetch" => authenticated(r)
  /\ pc[r] = "send" =>
       /\ role[r] = "ping" \/ kind[r].external => carried[r].how = "none"
       /\ carried[r].how = "token" =>
            /\ carried[r].token.scopes = {NoScope, extra[r]}
            /\ carried[r].token.expires >= checked[r] \/ carried[r].fresh

(* That depends on the request's local variables only.                     *)
LEMMA SafetyIsLocal ==
  ASSUME NEW q, RequestIsSafe(q),
         kind'[q] = kind[q], pc'[q] = pc[q], role'[q] = role[q], extra'[q] = extra[q],
         carried'[q] = carried[q], checked'[q] = checked[q]
  PROVE  RequestIsSafe(q)'
BY DEF RequestIsSafe, authenticated

(* Outside "fetch" and "send" nothing is carried.                          *)
LEMMA SafeElsewhere ==
  ASSUME NEW r, pc'[r] \notin {"fetch", "send"} PROVE RequestIsSafe(r)'
BY DEF RequestIsSafe

(* No step gives a request credentials it must not carry.                  *)
LEMMA SafeNext ==
  ASSUME TypeOK, TypeOK', CacheFits, \A r \in Requests : RequestIsSafe(r), [Next]_vars
  PROVE  CacheFits' /\ \A r \in Requests : RequestIsSafe(r)'
<1>1. CASE UNCHANGED <<tokens, requestVars>>
  BY <1>1, SafetyIsLocal DEF requestVars, CacheFits
<1>2. ASSUME NEW r \in Requests, Step(r) PROVE RequestIsSafe(r)' /\ CacheFits'
  <2>1. CASE Start(r) \/ Pinged(r) \/ Returned(r) \/ Send(r) \/ Response(r) \/ Sleep(r)
    <3>1. UNCHANGED tokens
      BY <2>1 DEF Start, Pinged, Returned, Send, Response, Sleep
    <3>2. \E l \in {"auth", "done", "response", "sleep", "return"} : Goto(r, l)
      BY <2>1 DEF Start, Begin, Pinged, Returned, Send, Response, Sleep
    <3>3. pc'[r] \notin {"fetch", "send"}
      BY <3>2 DEF Goto, TypeOK
    <3> QED
      BY <3>1, <3>3, SafeElsewhere DEF CacheFits
  <2>2. CASE Auth(r)
    <3> DEFINE cached == tokens[extra[r]]
    <3>1. /\ UNCHANGED <<tokens, kind, role, extra>>
          /\ checked'[r] = now
      BY <2>2 DEF Auth, TypeOK
    <3>2. CASE pc'[r] = "fetch" /\ authenticated(r)
      BY <3>1, <3>2 DEF RequestIsSafe, authenticated, CacheFits
    <3>3. ASSUME NEW how, pc'[r] = "send",
                 how # "none" => authenticated(r), how = "token" => usable(cached),
                 carried' = [carried EXCEPT ![r].how = how,
                                            ![r].token = IF how = "token" THEN cached ELSE NoToken]
          PROVE  RequestIsSafe(r)' /\ CacheFits'
      <4>1. /\ carried'[r].how = how
            /\ how = "token" => carried'[r].token = cached
        BY <3>3 DEF TypeOK
      <4>2. how = "token" => cached.scopes = {NoScope, extra[r]} /\ cached.expires >= now
        BY <3>3 DEF CacheFits, usable, TypeOK
      <4> QED
        BY <3>1, <3>3, <4>1, <4>2 DEF RequestIsSafe, CacheFits, authenticated
    <3>4. \A l : Goto(r, l) => pc'[r] = l
      BY DEF Goto, TypeOK
    <3> DEFINE method == IF ~authenticated(r) \/ client.challenge = "none" THEN "none"
                         ELSE IF client.challenge = "basic" THEN "basic"
                         ELSE IF client.given THEN "given"
                         ELSE "token"
    <3>5. method # "none" => authenticated(r)
      OBVIOUS
    <3>6. \/ method = "token" /\ Goto(r, "fetch")
          \/ /\ method = "token" => usable(cached)
             /\ Goto(r, "send")
             /\ carried' = [carried EXCEPT ![r].how = method,
                              ![r].token = IF method = "token" THEN cached ELSE NoToken]
      BY <2>2 DEF Auth
    <3> HIDE DEF method
    <3> QED
      BY <3>2, <3>3, <3>4, <3>5, <3>6
  <2>3. CASE Fetch(r)
    <3>1. /\ pc[r] = "fetch" /\ UNCHANGED <<kind, role, extra>> /\ authenticated(r)
          /\ extra[r] \in Scopes \cup {NoScope}
      BY <2>3 DEF Fetch, RequestIsSafe, TypeOK
    <3>2. CASE Goto(r, "return") /\ UNCHANGED tokens
      BY <3>2, SafeElsewhere DEF Goto, TypeOK, CacheFits
    <3>3. ASSUME NEW t, t.scopes = {NoScope, extra[r]}, Goto(r, "send"),
                 tokens' = [tokens EXCEPT ![extra[r]] = t],
                 carried' = [carried EXCEPT ![r] = [how |-> "token", token |-> t, fresh |-> TRUE]]
          PROVE  RequestIsSafe(r)' /\ CacheFits'
      <4>1. carried'[r] = [how |-> "token", token |-> t, fresh |-> TRUE] /\ pc'[r] = "send"
        BY <3>3 DEF TypeOK, Goto
      <4>2. CacheFits'
        BY <3>1, <3>3 DEF CacheFits, TypeOK
      <4> QED
        BY <3>1, <3>3, <4>1, <4>2 DEF RequestIsSafe, authenticated
    <3>4. \A issued, lifetime : newToken(r, issued, lifetime).scopes = {NoScope, extra[r]}
      BY DEF newToken
    <3> QED
      BY <2>3, <3>2, <3>3, <3>4 DEF Fetch
  <2> QED
    BY <1>2, <2>1, <2>2, <2>3 DEF Step
<1>3. ASSUME NEW r \in Requests, Step(r), NEW q \in Requests, q # r PROVE RequestIsSafe(q)'
  BY <1>3, OthersUnchanged, SafetyIsLocal
<1> QED
  BY <1>1, <1>2, <1>3 DEF Next, Tick, vars

-----------------------------------------------------------------------------
(* What RequestsAreSound needs to be inductive.                            *)
RequestInvariant ==
  /\ TypeOK /\ Detecting /\ OnePing /\ CacheFits
  /\ \A r \in Requests : RequestIsCounted(r) /\ RequestIsSafe(r)

(* For any number of goroutines, and whatever is answered: a body is sent  *)
(* once, the load is bounded, credentials go to the registry only, tokens  *)
(* are for their request, and the registry is detected once.               *)
THEOREM RequestsSound == Spec => []RequestsAreSound
<1>1. Init => RequestInvariant
  <2> SUFFICES ASSUME Init PROVE RequestInvariant
    OBVIOUS
  <2>1. TypeOK
    <3>1. \A k \in Kinds : k.extra \in Scopes \cup {NoScope}
      BY KindsAssumption
    <3>2. extra \in [Requests -> Scopes \cup {NoScope}]
      BY <3>1 DEF Init
    <3>3. /\ tokens \in [Scopes \cup {NoScope} -> Token]
          /\ carried \in [Requests -> [how : {"none", "basic", "given", "token"},
                                       token : Token, fresh : BOOLEAN]]
      BY DEF Init, NoToken, Nothing, Token
    <3>4. client \in [insecure : BOOLEAN, given : BOOLEAN, challenge : {"none", "basic", "bearer"}]
      BY DEF Init
    <3> QED
      BY <3>2, <3>3, <3>4, BackoffAssumption, LifetimesAssumption DEF Init, TypeOK, Results
  <2>2. Detecting /\ OnePing /\ CacheFits
    BY DEF Init, Detecting, OnePing, CacheFits
  <2>3. \A r \in Requests : RequestIsCounted(r) /\ RequestIsSafe(r)
    <3> SUFFICES ASSUME NEW r \in Requests PROVE RequestIsCounted(r) /\ RequestIsSafe(r)
      OBVIOUS
    <3>1. /\ pc[r] = "start" /\ role[r] = "own" /\ sent[r] = 0 /\ scopeRetry[r] = FALSE
      BY DEF Init
    <3>2. 0 <= Iterations + 1
      BY BackoffAssumption
    <3> QED
      BY <3>1, <3>2 DEF RequestIsCounted, PingIsCounted, BodyIsCounted, Sending, RequestIsSafe
  <2> QED
    BY <2>1, <2>2, <2>3 DEF RequestInvariant
<1>2. RequestInvariant /\ [Next]_vars => RequestInvariant'
  BY TypeNext, DetectingNext, CountedNext, SafeNext DEF RequestInvariant
<1>3. RequestInvariant => RequestsAreSound
  <2> SUFFICES ASSUME RequestInvariant PROVE RequestsAreSound
    OBVIOUS
  <2>1. BodySentOnce /\ LoadIsBounded
    BY DEF RequestInvariant, BodySentOnce, LoadIsBounded, RequestIsCounted, PingIsCounted,
       BodyIsCounted
  <2>2. CredentialsStayHome /\ TokensFit
    BY DEF RequestInvariant, CredentialsStayHome, TokensFit, RequestIsSafe, Detecting
  <2> QED
    BY <2>1, <2>2 DEF RequestInvariant, RequestsAreSound
<1> QED
  BY <1>1, <1>2, <1>3, PTL DEF Spec
===============================================================================
