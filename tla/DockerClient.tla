----------------------------- MODULE DockerClient -----------------------------
(***************************************************************************)
(* The requests that goroutines make through one dockerClient              *)
(* (docker/docker_client.go): the registry's properties are detected once, *)
(* bearer tokens are cached per scope and refreshed when they expire, an   *)
(* "insufficient scope" answer is retried with the scope it names, and     *)
(* status 429 is retried after a delay.                                    *)
(***************************************************************************)
EXTENDS Integers

CONSTANTS
  Requests,     \* the calls of makeRequest or getExternalBlob
  Kinds,        \* what they may be: [auth, external, stream : BOOLEAN, extra : a scope or NoScope]
  Scopes,       \* scopes beyond that of the client
  NoScope,      \* extraScope == nil
  Iterations,   \* backoffNumIterations
  InitialDelay, \* backoffInitialDelay
  MaxDelay,     \* backoffMaxDelay
  RetryAfters,  \* what Retry-After may say
  MinLifetime,  \* minimumTokenLifetimeSeconds
  Lifetimes,    \* expires_in of a token
  MaxTime       \* bound on the clock

ASSUME KindsAssumption ==
  Kinds \subseteq [auth : BOOLEAN, external : BOOLEAN, stream : BOOLEAN,
                  extra : Scopes \cup {NoScope}]
ASSUME BackoffAssumption ==
  /\ Iterations \in Nat /\ Iterations > 0
  /\ InitialDelay \in Int /\ MaxDelay \in Int /\ RetryAfters \subseteq Int
ASSUME LifetimesAssumption ==
  MinLifetime \in Int /\ Lifetimes \subseteq Int /\ MaxTime \in Nat

VARIABLES
  client,   \* [insecure, given : BOOLEAN, challenge]: TLS verification is off, a registryToken was given, what the ping found
  detect,   \* detectPropertiesOnce and detectPropertiesError
  tokens,   \* tokenCache, by extra scope
  now,      \* the clock
  kind, pc, role, scheme, extra, attempts, scopeRetry, delay, sent, carried, checked, res

requestVars == <<kind, pc, role, scheme, extra, attempts, scopeRetry, delay, sent, carried, checked, res>>
vars == <<client, detect, tokens, now, requestVars>>

NoToken == [scopes |-> {}, expires |-> -1]
Token   == [scopes : SUBSET (Scopes \cup {NoScope}), expires : Int]

\* "ok" is any answer that is neither 429 nor an insufficient scope
Results == {"none", "ok", "scope", "429", "error"}

TypeOK ==
  /\ client \in [insecure : BOOLEAN, given : BOOLEAN, challenge : {"none", "basic", "bearer"}]
  /\ detect \in {"no", "running", "ok", "failed"}
  /\ tokens \in [Scopes \cup {NoScope} -> Token]
  /\ now \in 0..MaxTime
  /\ kind \in [Requests -> Kinds]
  /\ pc \in [Requests -> {"start", "auth", "fetch", "send", "response", "sleep", "return", "done"}]
  /\ role \in [Requests -> {"own", "ping"}]
  /\ scheme \in [Requests -> {"https", "http"}]
  /\ extra \in [Requests -> Scopes \cup {NoScope}]
  /\ attempts \in [Requests -> Nat]
  /\ scopeRetry \in [Requests -> BOOLEAN]
  /\ delay \in [Requests -> Int]
  /\ sent \in [Requests -> Nat]
  /\ carried \in [Requests -> [how : {"none", "basic", "given", "token"}, token : Token, fresh : BOOLEAN]]
  /\ checked \in [Requests -> 0..MaxTime]
  /\ res \in [Requests -> Results]

Nothing == [how |-> "none", token |-> NoToken, fresh |-> FALSE]

(* newDockerClientFromRef; getExternalBlob calls makeRequestToResolvedURL  *)
(* directly, on a client that has read a manifest and so was detected.     *)
Init ==
  /\ client \in [insecure : BOOLEAN, given : BOOLEAN, challenge : {"none"}]
  /\ detect = "no"
  /\ tokens = [s \in Scopes \cup {NoScope} |-> NoToken]
  /\ now = 0
  /\ kind \in [Requests -> Kinds]
  /\ pc = [r \in Requests |-> "start"]
  /\ role = [r \in Requests |-> "own"]
  /\ scheme = [r \in Requests |-> "https"]
  /\ extra = [r \in Requests |-> kind[r].extra]
  /\ attempts = [r \in Requests |-> 0]
  /\ scopeRetry = [r \in Requests |-> FALSE]
  /\ delay = [r \in Requests |-> InitialDelay]
  /\ sent = [r \in Requests |-> 0]
  /\ carried = [r \in Requests |-> Nothing]
  /\ checked = [r \in Requests |-> 0]
  /\ res = [r \in Requests |-> "none"]

Goto(r, l) == pc' = [pc EXCEPT ![r] = l]

(* makeRequestToResolvedURL begins for a role of r                         *)
Begin(r, ro) ==
  /\ role' = [role EXCEPT ![r] = ro]
  /\ attempts' = [attempts EXCEPT ![r] = 0]
  /\ delay' = [delay EXCEPT ![r] = InitialDelay]
  /\ sent' = [sent EXCEPT ![r] = 0]
  /\ Goto(r, "auth")

-----------------------------------------------------------------------------
(* makeRequest: detectProperties runs its helper once; whoever comes while *)
(* it runs waits, whoever comes later gets the result of the first.        *)
Start(r) ==
  /\ pc[r] = "start"
  /\ IF kind[r].external
     THEN detect = "ok" /\ Begin(r, "own") /\ UNCHANGED <<detect, res>>
     ELSE \/ /\ detect = "no"
             /\ detect' = "running"
             /\ Begin(r, "ping")
             /\ UNCHANGED res
          \/ /\ detect = "ok"
             /\ Begin(r, "own")
             /\ UNCHANGED <<detect, res>>
          \/ /\ detect = "failed"
             /\ Goto(r, "done")
             /\ res' = [res EXCEPT ![r] = "error"]
             /\ UNCHANGED <<detect, role, attempts, delay, sent>>
  /\ UNCHANGED <<client, tokens, now, kind, scheme, extra, scopeRetry, carried, checked>>

(* Mutation: a failure of the ping is returned without being recorded.     *)
FailureForgotten == UNCHANGED detect

(* detectPropertiesError is set, and the Once done                         *)
FailureKept == detect' = "failed"

(* The ping of detectPropertiesHelper got its answer: 200 and 401 are      *)
(* registries; otherwise http is tried if TLS verification is off, and the *)
(* failure is kept for all later requests.                                 *)
Pinged(r) ==
  LET up == res[r] \in {"ok", "scope"}
  IN  /\ pc[r] = "return" /\ role[r] = "ping"
      /\ IF up
         THEN /\ detect' = "ok"
              /\ \E c \in {"none", "basic", "bearer"} : client' = [client EXCEPT !.challenge = c]
              /\ Begin(r, "own")
              /\ scheme' = [scheme EXCEPT ![r] = "https"]
              /\ UNCHANGED res
         ELSE IF client.insecure /\ scheme[r] = "https"
         THEN /\ scheme' = [scheme EXCEPT ![r] = "http"]
              /\ Begin(r, "ping")
              /\ UNCHANGED <<client, detect, res>>
         ELSE /\ FailureKept
              /\ Goto(r, "done")
              /\ res' = [res EXCEPT ![r] = "error"]
              /\ UNCHANGED <<client, scheme, role, attempts, delay, sent>>
      /\ UNCHANGED <<tokens, now, kind, extra, scopeRetry, carried, checked>>

(* The request is returned to the caller of makeRequest, and its local     *)
(* variables go.                                                           *)
Returned(r) ==
  /\ pc[r] = "return" /\ role[r] = "own"
  /\ Goto(r, "done")
  /\ extra' = [extra EXCEPT ![r] = kind[r].extra]
  /\ attempts' = [attempts EXCEPT ![r] = 0]
  /\ delay' = [delay EXCEPT ![r] = InitialDelay]
  /\ sent' = [sent EXCEPT ![r] = 0]
  /\ scopeRetry' = [scopeRetry EXCEPT ![r] = FALSE]
  /\ UNCHANGED <<client, detect, tokens, now, kind, role, scheme, carried, checked, res>>

-----------------------------------------------------------------------------
authenticated(r) == role[r] = "own" /\ kind[r].auth /\ ~kind[r].external

(* Mutation: a token in the cache is used without looking at its age.      *)
usableAlways(t) == t # NoToken

(* The cached token serves: it is there and has not expired.               *)
usable(t) == t # NoToken /\ t.expires >= now

(* setupRequestAuth, up to the request for a token                         *)
Auth(r) ==
  /\ pc[r] = "auth"
  /\ LET cached == tokens[extra[r]]
         how == IF ~authenticated(r) \/ client.challenge = "none" THEN "none"
                ELSE IF client.challenge = "basic" THEN "basic"
                ELSE IF client.given THEN "given"
                ELSE "token"
     IN  IF how = "token" /\ ~usable(cached)
         THEN Goto(r, "fetch") /\ UNCHANGED carried
         ELSE /\ Goto(r, "send")
              /\ carried' = [carried EXCEPT ![r].how = how, ![r].token = IF how = "token" THEN cached ELSE NoToken]
  /\ checked' = [checked EXCEPT ![r] = now]
  /\ UNCHANGED <<client, detect, tokens, now, kind, role, scheme, extra, attempts, scopeRetry, delay, sent, res>>

(* newBearerTokenFromHTTPResponseBody: issued_at may be missing            *)
newToken(r, issued, lifetime) ==
  [scopes  |-> {NoScope, extra[r]},
   expires |-> issued + (IF lifetime < MinLifetime THEN MinLifetime ELSE lifetime)]

(* getBearerToken, getBearerTokenOAuth2: the answer is cached, also if     *)
(* another goroutine has cached one in the meantime.                       *)
Fetch(r) ==
  /\ pc[r] = "fetch"
  /\ \/ \E issued \in {0, now}, lifetime \in Lifetimes :
          LET t == newToken(r, issued, lifetime)
          IN  /\ tokens' = [tokens EXCEPT ![extra[r]] = t]
              /\ carried' = [carried EXCEPT ![r] = [how |-> "token", token |-> t, fresh |-> TRUE]]
              /\ Goto(r, "send")
              /\ UNCHANGED res
     \/ /\ Goto(r, "return")
        /\ res' = [res EXCEPT ![r] = "error"]
        /\ UNCHANGED <<tokens, carried>>
  /\ UNCHANGED <<client, detect, now, kind, role, scheme, extra, attempts, scopeRetry, delay, sent, checked>>

(* client.Do                                                               *)
Send(r) ==
  /\ pc[r] = "send"
  /\ sent' = [sent EXCEPT ![r] = @ + 1]
  /\ \E a \in Results \ {"none"} :
       /\ res' = [res EXCEPT ![r] = a]
       /\ Goto(r, IF a = "error" THEN "return" ELSE "response")
  /\ carried' = [carried EXCEPT ![r] = Nothing]
  /\ checked' = [checked EXCEPT ![r] = 0]
  /\ UNCHANGED <<client, detect, tokens, now, kind, role, scheme, extra, attempts, scopeRetry, delay>>

(* May a 429 be retried after n attempts?  The ping has no body.           *)
mayRetry(r, n) == (role[r] = "ping" \/ ~kind[r].stream) /\ n < Iterations

(* The rest of the loop of makeRequestToResolvedURL.  The retry with the   *)
(* scope of the answer (needsRetryWithUpdatedScope) is not an attempt.     *)
Response(r) ==
  /\ pc[r] = "response"
  /\ LET n == IF scopeRetry[r] THEN attempts[r] ELSE attempts[r] + 1
     IN  /\ attempts' = [attempts EXCEPT ![r] = n]
         /\ IF ~scopeRetry[r] /\ n = 1 /\ ~kind[r].stream /\ authenticated(r) /\ res[r] = "scope"
            THEN /\ \E s \in Scopes : extra' = [extra EXCEPT ![r] = s]
                 /\ scopeRetry' = [scopeRetry EXCEPT ![r] = TRUE]
                 /\ Goto(r, "auth")
                 /\ UNCHANGED delay
            ELSE /\ scopeRetry' = [scopeRetry EXCEPT ![r] = FALSE]
                 /\ UNCHANGED extra
                 /\ IF res[r] = "429" /\ mayRetry(r, n)
                    THEN /\ \E after \in RetryAfters \cup {delay[r]} :
                              delay' = [delay EXCEPT ![r] = IF after < MaxDelay THEN after ELSE MaxDelay]
                         /\ Goto(r, "sleep")
                    ELSE Goto(r, "return") /\ UNCHANGED delay
  /\ UNCHANGED <<client, detect, tokens, now, kind, role, scheme, sent, carried, checked, res>>

(* The delay passes, or the context ends first.                            *)
Sleep(r) ==
  /\ pc[r] = "sleep"
  /\ \/ /\ Goto(r, "auth")
        /\ delay' = [delay EXCEPT ![r] = 2 * @]
        /\ res' = [res EXCEPT ![r] = "none"]
     \/ /\ Goto(r, "return")
        /\ res' = [res EXCEPT ![r] = "error"]
        /\ UNCHANGED delay
  /\ UNCHANGED <<client, detect, tokens, now, kind, role, scheme, extra, attempts, scopeRetry, sent, carried, checked>>

Tick ==
  /\ now < MaxTime
  /\ now' = now + 1
  /\ UNCHANGED <<client, detect, tokens, requestVars>>

Step(r) ==
  \/ Start(r) \/ Pinged(r) \/ Returned(r) \/ Auth(r) \/ Fetch(r)
  \/ Send(r) \/ Response(r) \/ Sleep(r)

Next == Tick \/ \E r \in Requests : Step(r)

(* The HTTP client and the token server answer or fail, and the delays     *)
(* are finite, so a goroutine that can take a step takes it.               *)
Spec == Init /\ [][Next]_vars /\ \A r \in Requests : WF_vars(Step(r))

-----------------------------------------------------------------------------
(* A request with a body is sent once: the stream was consumed.            *)
BodySentOnce == \A r \in Requests : role[r] = "own" /\ kind[r].stream => sent[r] <= 1

(* A struggling server is not overloaded: per call at most Iterations      *)
(* requests and one scope retry, after delays of at most MaxDelay.         *)
LoadIsBounded ==
  \A r \in Requests : /\ sent[r] <= Iterations + 1
                      /\ role[r] = "ping" => sent[r] <= Iterations
                      /\ pc[r] = "sleep" => delay[r] <= MaxDelay

(* Credentials go neither to the ping nor to the URLs of external blobs    *)
(* (CVE-2020-15157 in getExternalBlob), and nothing but the ping is sent   *)
(* before the registry was found.                                          *)
CredentialsStayHome ==
  \A r \in Requests : pc[r] = "send" =>
     /\ role[r] = "ping" \/ kind[r].external => carried[r].how = "none"
     /\ role[r] = "own" => detect = "ok"

(* A bearer token is for the scopes of its request, and had not expired    *)
(* when it was taken from the cache, unless it was fetched for it.         *)
TokensFit ==
  \A r \in Requests : pc[r] = "send" /\ carried[r].how = "token" =>
     /\ carried[r].token.scopes = {NoScope, extra[r]}
     /\ carried[r].token.expires >= checked[r] \/ carried[r].fresh

(* Only the goroutine inside sync.Once pings.                              *)
OnePing == \A r, q \in Requests : role[r] = "ping" /\ role[q] = "ping" /\ pc[r] # "done" /\ pc[q] # "done" => r = q

(* Whatever the registry answers and however requests interleave, each    *)
(* makeRequest sends its body once, a bounded number of times anything     *)
(* else, credentials only to the registry, and a token of its own scopes.  *)
RequestsAreSound ==
  /\ TypeOK
  /\ BodySentOnce
  /\ LoadIsBounded
  /\ CredentialsStayHome
  /\ TokensFit
  /\ OnePing

(* Every makeRequest returns: whoever waits for the detection gets its     *)
(* result, and the retries end.                                            *)
EveryRequestReturns ==
  \A r \in Requests : kind[r].external \/ <>(pc[r] = "done")
=============================================================================
