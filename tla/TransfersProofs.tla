--------------------------- MODULE TransfersProofs ---------------------------
(***************************************************************************)
(* Proofs about the parts of MCTransfers.  A behaviour is about one part,  *)
(* so a part's invariant is an invariant of the whole if the part's Init   *)
(* establishes it and the part's Next preserves it.                        *)
(***************************************************************************)
EXTENDS MCTransfers, FiniteSetTheorems, WellFoundedInduction, TLAPS

-----------------------------------------------------------------------------
(* Resumed downloads *)

(* While the caller may read on, the connection continues exactly where    *)
(* the caller is, and it ends with the blob if the length is known.        *)
ConnectionContinues ==
  result = "reading" =>
    /\ body.pos = offset /\ body.pos <= body.end
    /\ lengthKnown => body.end = DownloadSize

(* What DownloadIsExact needs to be inductive.                             *)
DownloadInvariant == Download!DownloadIsExact /\ ConnectionContinues

(* A new connection satisfies the invariant.                               *)
LEMMA DownloadInit == Download!Init => DownloadInvariant
BY DownloadAssumption DEF Download!Init, DownloadInvariant, Download!DownloadIsExact, Download!TypeOK,
   Download!NoGapsNoRepeats, Download!EOFMeansComplete, ConnectionContinues

(* What the concatenation of two sequences is.                             *)
LEMMA ConcatFacts ==
  ASSUME NEW S, NEW s \in Seq(S), NEW t \in Seq(S)
  PROVE  /\ s \o t \in Seq(S) /\ Len(s \o t) = Len(s) + Len(t)
         /\ Len(s) \in Nat /\ Len(t) \in Nat
         /\ \A k \in 1..Len(s) : (s \o t)[k] = s[k]
         /\ \A k \in 1..Len(t) : (s \o t)[Len(s) + k] = t[k]
OBVIOUS

(* Appending the next n bytes of the blob keeps what was received exact.   *)
LEMMA AppendingIsExact ==
  ASSUME NEW N \in Nat, NEW s \in Seq(0..(N - 1)), NEW n \in Nat, Len(s) + n <= N,
         \A k \in 1..Len(s) : s[k] = k - 1,
         NEW more \in Seq(0..(N - 1)), Len(more) = n,
         \A k \in 1..n : more[k] = Len(s) + k - 1
  PROVE  /\ s \o more \in Seq(0..(N - 1))
         /\ Len(s \o more) = Len(s) + n
         /\ \A k \in 1..Len(s \o more) : (s \o more)[k] = k - 1
<1>1. /\ s \o more \in Seq(0..(N - 1)) /\ Len(s \o more) = Len(s) + n /\ Len(s) \in Nat
      /\ \A k \in 1..Len(s) : (s \o more)[k] = s[k]
      /\ \A k \in 1..n : (s \o more)[Len(s) + k] = more[k]
  BY ConcatFacts, SMTT(30)
<1>2. ASSUME NEW k \in 1..(Len(s) + n) PROVE (s \o more)[k] = k - 1
  <2>1. CASE k \in 1..Len(s)
    BY <1>1, <2>1
  <2>2. CASE k \notin 1..Len(s)
    <3>1. k - Len(s) \in 1..n /\ k = Len(s) + (k - Len(s))
      BY <1>1, <2>2
    <3> QED
      BY <1>1, <3>1
  <2> QED
    BY <2>1, <2>2
<1> QED
  BY <1>1, <1>2

(* Every step of the reader keeps the invariant.                           *)
LEMMA DownloadNext == DownloadInvariant /\ Download!Next => DownloadInvariant'
<1> SUFFICES ASSUME DownloadInvariant, Download!Next PROVE DownloadInvariant'
  OBVIOUS
<1> USE DownloadAssumption
<1>1. CASE Download!Read
  <2>1. PICK n \in 0..(body.end - body.pos), err \in {"none", "EOF", "broken", "other"} :
          /\ err = "EOF" => body.pos + n = body.end
          /\ received' = received \o [k \in 1..n |-> body.pos + k - 1]
          /\ offset' = offset + n
          /\ result' = CASE err = "none"   -> "reading"
                         [] err = "EOF"    -> "EOF"
                         [] err = "broken" -> IF Download!reconnecting(offset + n)
                                              THEN "reconnect" ELSE "error"
                         [] OTHER          -> "error"
          /\ body' = IF result' = "reconnect" THEN Download!Closed
                     ELSE [body EXCEPT !.pos = @ + n]
    BY <1>1 DEF Download!Read
  <2>2. /\ result = "reading"
        /\ UNCHANGED <<lastRetryOffset, lastRetryTime, now, retries, lengthKnown>>
    BY <1>1 DEF Download!Read
  <2>3. /\ result' \in {"reading", "reconnect", "EOF", "error"}
        /\ result' = "reading" => err = "none"
        /\ result' = "EOF" <=> err = "EOF"
    BY <2>1
  <2>4. /\ body \in [pos : -1..DownloadSize, end : -1..DownloadSize]
        /\ offset \in 0..DownloadSize
        /\ body.pos \in Int /\ body.end \in Int /\ body.end <= DownloadSize
    BY DEF DownloadInvariant, Download!TypeOK, Download!DownloadIsExact
  <2>5. /\ body.pos = offset /\ offset + n <= body.end
        /\ offset + n \in 0..DownloadSize /\ n \in Nat
        /\ offset' = offset + n
        /\ lengthKnown => body.end = DownloadSize
    BY <2>1, <2>2, <2>4 DEF DownloadInvariant, ConnectionContinues
  <2>6. /\ received' \in Seq(0..(DownloadSize - 1))
        /\ Len(received') = offset + n
        /\ \A k \in 1..Len(received') : received'[k] = k - 1
    <3>1. received \in Seq(0..(DownloadSize - 1)) /\ Len(received) = offset
      BY DEF DownloadInvariant, Download!DownloadIsExact, Download!TypeOK,
         Download!NoGapsNoRepeats
    <3>2. \A k \in 1..Len(received) : received[k] = k - 1
      BY DEF DownloadInvariant, Download!DownloadIsExact, Download!NoGapsNoRepeats
    <3>3. received' = received \o [k \in 1..n |-> Len(received) + k - 1]
      BY <2>1, <2>5, <3>1
    <3>4. n \in Nat /\ Len(received) + n <= DownloadSize
      BY <2>5, <3>1
    <3>5. /\ received' \in Seq(0..(DownloadSize - 1))
          /\ Len(received') = Len(received) + n
          /\ \A k \in 1..Len(received') : received'[k] = k - 1
      <4>1. DownloadSize \in Nat
        BY DEF DownloadAssumption
      <4> DEFINE more == [k \in 1..n |-> Len(received) + k - 1]
      <4>2. more \in Seq(0..(DownloadSize - 1)) /\ Len(more) = n
        BY <3>1, <3>4, <4>1
      <4>3. \A k \in 1..n : more[k] = Len(received) + k - 1
        OBVIOUS
      <4>4. received' = received \o more
        BY <3>3
      <4> HIDE DownloadAssumption DEF more
      <4>5. /\ received \o more \in Seq(0..(DownloadSize - 1))
            /\ Len(received \o more) = Len(received) + n
            /\ \A k \in 1..Len(received \o more) : (received \o more)[k] = k - 1
        BY <3>1, <3>2, <3>4, <4>1, <4>2, <4>3, AppendingIsExact
      <4> QED
        BY <4>4, <4>5
    <3> QED
      BY <3>1, <3>5
  <2>7. body' \in [pos : -1..DownloadSize, end : -1..DownloadSize]
    <3>1. body' = Download!Closed \/ body' = [body EXCEPT !.pos = @ + n]
      BY <2>1
    <3>2. body.pos + n \in -1..DownloadSize
      BY <2>5
    <3> QED
      BY <2>4, <3>1, <3>2 DEF Download!Closed
  <2>8. Download!TypeOK'
    BY <2>2, <2>3, <2>5, <2>6, <2>7 DEF DownloadInvariant, Download!TypeOK,
       Download!DownloadIsExact
  <2>9. Download!NoGapsNoRepeats'
    BY <2>5, <2>6 DEF Download!NoGapsNoRepeats
  <2>10. Download!EOFMeansComplete'
    BY <2>1, <2>2, <2>3, <2>5 DEF Download!EOFMeansComplete
  <2>11. ConnectionContinues'
    <3> SUFFICES ASSUME result' = "reading" PROVE ConnectionContinues'
      BY DEF ConnectionContinues
    <3>1. body' = [body EXCEPT !.pos = @ + n]
      BY <2>1
    <3> QED
      BY <2>1, <2>2, <2>4, <2>5, <3>1 DEF ConnectionContinues
  <2> QED
    BY <2>8, <2>9, <2>10, <2>11 DEF DownloadInvariant, Download!DownloadIsExact
<1>2. CASE Download!Reconnect
  <2>1. Download!TypeOK /\ Download!NoGapsNoRepeats /\ Download!EOFMeansComplete
    BY DEF DownloadInvariant, Download!DownloadIsExact
  <2>2. retries' = retries + 1 /\ UNCHANGED <<offset, now, received>>
    BY <1>2 DEF Download!Reconnect
  <2>3. Download!NoGapsNoRepeats'
    BY <2>1, <2>2 DEF Download!NoGapsNoRepeats
  <2>4. CASE result' = "error" /\ UNCHANGED <<body, lastRetryOffset, lastRetryTime, lengthKnown>>
    BY <2>1, <2>2, <2>3, <2>4 DEF DownloadInvariant, Download!DownloadIsExact, Download!TypeOK,
       Download!EOFMeansComplete, ConnectionContinues
  <2>5. ASSUME NEW r \in Download!Responses, Download!acceptable(r),
               body' = [pos |-> r.first, end |-> r.last + 1],
               lastRetryOffset' = offset, lastRetryTime' = now,
               lengthKnown' = (lengthKnown /\ r.complete # -1), result' = "reading"
        PROVE  DownloadInvariant'
    <3>1. /\ r.first = offset /\ r.first \in Int /\ r.last \in 0..(DownloadSize - 1)
          /\ r.first <= r.last
          /\ r.complete # -1 => r.last + 1 = DownloadSize
      BY <2>5 DEF Download!acceptable, Download!Responses
    <3>2. Download!TypeOK'
      BY <2>1, <2>2, <2>5, <3>1 DEF Download!TypeOK
    <3>3. lengthKnown' => r.complete # -1
      BY <2>5, Zenon
    <3>4. body'.pos = offset /\ body'.end = r.last + 1
      BY <2>5, <3>1
    <3>5. Download!EOFMeansComplete' /\ ConnectionContinues'
      BY <2>2, <2>5, <3>1, <3>3, <3>4 DEF Download!EOFMeansComplete, ConnectionContinues
    <3> QED
      BY <2>3, <3>2, <3>5 DEF DownloadInvariant, Download!DownloadIsExact
  <2> QED
    BY <1>2, <2>4, <2>5 DEF Download!Reconnect
<1>3. CASE Download!Tick
  BY <1>3 DEF Download!Tick, DownloadInvariant, Download!DownloadIsExact, Download!TypeOK,
     Download!NoGapsNoRepeats, Download!EOFMeansComplete, ConnectionContinues
<1>4. CASE Download!Close
  BY <1>4 DEF Download!Close, Download!Closed, DownloadInvariant, Download!DownloadIsExact, Download!TypeOK,
     Download!NoGapsNoRepeats, Download!EOFMeansComplete, ConnectionContinues
<1> QED
  BY <1>1, <1>2, <1>3, <1>4 DEF Download!Next

(* However often the connection breaks and is resumed, the caller gets the *)
(* bytes of the blob in order, and EOF only after the last of them.        *)
THEOREM DownloadsAreExact == Spec => []DownloadIsExact
<1> DEFINE Inv == part = "download" => DownloadInvariant
<1>1. Init => Inv
  BY DownloadInit DEF Init, downloadInit
<1>2. Inv /\ [Next]_vars => Inv'
  <2> SUFFICES ASSUME Inv, [Next]_vars, part' = "download" PROVE DownloadInvariant'
    OBVIOUS
  <2>1. CASE DownloadStep
    BY <2>1, DownloadNext DEF DownloadStep
  <2>2. CASE UNCHANGED <<part, downloadVars>>
    BY <2>2 DEF downloadVars, DownloadInvariant, Download!DownloadIsExact, Download!TypeOK,
       Download!NoGapsNoRepeats, Download!EOFMeansComplete, ConnectionContinues
  <2> QED
    BY <2>1, <2>2 DEF Next, vars, ChunksStep, UploadStep, SignaturesStep, LayoutStep, BoltStep,
       MayStop
<1>3. Inv => DownloadIsExact
  BY DEF DownloadInvariant, DownloadIsExact
<1> QED
  BY <1>1, <1>2, <1>3, PTL DEF Spec

(* Cancelling a positive factor of an inequality.                          *)
LEMMA QuotientOrder ==
  ASSUME NEW m \in Nat \ {0}, NEW p \in Int, NEW q \in Int, m * p < m * q + m
  PROVE  p <= q
<1> SUFFICES ASSUME p - q - 1 \in Nat PROVE FALSE
  OBVIOUS
<1> DEFINE e == p - q - 1
<1>1. m * p = m * q + m + m * e
  OBVIOUS
<1>2. m * e >= 0
  OBVIOUS
<1> HIDE DEF e
<1> QED
  BY <1>1, <1>2

(* What \div promises.                                                     *)
LEMMA QuotientBounds ==
  ASSUME NEW a \in Nat, NEW m \in Nat \ {0}
  PROVE  a \div m \in Nat /\ m * (a \div m) <= a /\ a < m * (a \div m) + m
OBVIOUS

(* Quotients grow with the dividend, and by one with the divisor.          *)
LEMMA QuotientGrows ==
  ASSUME NEW a \in Nat, NEW b \in Nat, NEW m \in Nat \ {0}
  PROVE  /\ a <= b => a \div m <= b \div m
         /\ a + m <= b => a \div m + 1 <= b \div m
<1> DEFINE p == a \div m
           q == b \div m
<1>1. p \in Int /\ q \in Int /\ m * p <= a /\ b < m * q + m
  BY QuotientBounds
<1> HIDE DEF p, q
<1>2. a <= b => p <= q
  <2>1. a <= b => m * p < m * q + m
    BY <1>1
  <2> QED
    BY <1>1, <2>1, QuotientOrder
<1>3. a + m <= b => p + 1 <= q
  <2>1. a + m <= b => m * (p + 1) < m * q + m
    BY <1>1
  <2> QED
    BY <1>1, <2>1, QuotientOrder
<1> QED
  BY <1>2, <1>3 DEF p, q

(* The retries the bytes read up to o and the time t have paid for.        *)
Allowed(o, t) == (o \div MinimumProgress) + (t \div SinceLastRetry)

(* A successful retry was paid for by the bytes and the time before it; a  *)
(* retry that is about to be made is paid for by those before now.         *)
RetriesArePaidFor ==
  /\ lastRetryTime = -1 <=> lastRetryOffset = -1
  /\ lastRetryOffset <= offset /\ lastRetryTime <= now
  /\ lastRetryTime = -1 /\ result # "error" => retries = 0
  /\ lastRetryTime # -1 /\ result # "error" =>
       retries <= 1 + Allowed(lastRetryOffset, lastRetryTime)
  /\ result = "reconnect" => retries <= Allowed(offset, now)
  /\ retries <= 2 + Allowed(offset, now)

(* Progress and time pay for retries, and are never taken back.            *)
LEMMA AllowedGrows ==
  ASSUME NEW o \in Nat, NEW t \in Nat, NEW o2 \in Nat, NEW t2 \in Nat, o <= o2, t <= t2
  PROVE  /\ Allowed(o, t) \in Nat /\ Allowed(o2, t2) \in Nat
         /\ Allowed(o, t) <= Allowed(o2, t2)
         /\ o + MinimumProgress <= o2 \/ t + SinceLastRetry <= t2
              => Allowed(o, t) + 1 <= Allowed(o2, t2)
<1> DEFINE po == o \div MinimumProgress
           po2 == o2 \div MinimumProgress
           pt == t \div SinceLastRetry
           pt2 == t2 \div SinceLastRetry
<1>1. /\ po \in Nat /\ po2 \in Nat /\ po <= po2
      /\ o + MinimumProgress <= o2 => po + 1 <= po2
  BY DownloadAssumption, QuotientBounds, QuotientGrows
<1>2. /\ pt \in Nat /\ pt2 \in Nat /\ pt <= pt2
      /\ t + SinceLastRetry <= t2 => pt + 1 <= pt2
  BY DownloadAssumption, QuotientBounds, QuotientGrows
<1>3. Allowed(o, t) = po + pt /\ Allowed(o2, t2) = po2 + pt2
  BY DEF Allowed
<1> HIDE DEF po, po2, pt, pt2
<1> QED
  BY <1>1, <1>2, <1>3

(* A retry is made only after progress, after a while, or for the first    *)
(* time, so it is paid for.                                                *)
LEMMA RetriesStayPaidFor ==
  Download!TypeOK /\ Download!TypeOK' /\ RetriesArePaidFor /\ Download!Next => RetriesArePaidFor'
<1> SUFFICES ASSUME Download!TypeOK, Download!TypeOK', RetriesArePaidFor, Download!Next
             PROVE  RetriesArePaidFor'
  OBVIOUS
<1>1. /\ offset \in Nat /\ offset' \in Nat /\ now \in Nat /\ now' \in Nat
      /\ retries \in Nat /\ lastRetryOffset \in Int /\ lastRetryTime \in Int
      /\ MinimumProgress \in Int /\ SinceLastRetry \in Int
      /\ lastRetryTime # -1 => lastRetryTime \in Nat /\ lastRetryOffset \in Nat
  BY DownloadAssumption DEF Download!TypeOK, RetriesArePaidFor
<1>2. CASE Download!Read
  <2>1. /\ UNCHANGED <<lastRetryOffset, lastRetryTime, now, retries>> /\ offset <= offset'
        /\ result = "reading"
        /\ result' = "reconnect" => Download!reconnecting(offset')
    BY <1>2, DownloadAssumption DEF Download!Read, Download!TypeOK
  <2>6. /\ Allowed(offset, now) \in Nat /\ Allowed(offset', now) \in Nat
        /\ Allowed(offset, now) <= Allowed(offset', now)
    BY <1>1, <2>1, AllowedGrows, SMTT(30)
  <2>2. /\ lastRetryOffset <= offset' /\ retries <= 2 + Allowed(offset', now)
        /\ lastRetryTime = -1 => retries = 0
        /\ lastRetryTime # -1 => retries <= 1 + Allowed(lastRetryOffset, lastRetryTime)
    BY <1>1, <2>1, <2>6 DEF RetriesArePaidFor
  <2>3. ASSUME result' = "reconnect" PROVE retries <= Allowed(offset', now)
    <3>1. CASE lastRetryTime = -1
      BY <2>2, <2>6, <3>1
    <3>2. CASE lastRetryTime # -1
      <4>1. \/ lastRetryOffset + MinimumProgress <= offset'
            \/ lastRetryTime + SinceLastRetry <= now
        <5>1. \/ offset' - lastRetryOffset >= MinimumProgress
              \/ now - lastRetryTime >= SinceLastRetry
          BY <2>1, <2>3, <3>2 DEF Download!reconnecting
        <5> DEFINE o == offset'
        <5>2. \/ o - lastRetryOffset >= MinimumProgress
              \/ now - lastRetryTime >= SinceLastRetry
          BY <5>1
        <5>4. o \in Nat
          BY <1>1
        <5> HIDE DEF o
        <5>3. \/ lastRetryOffset + MinimumProgress <= o
              \/ lastRetryTime + SinceLastRetry <= now
          BY <1>1, <5>2, <5>4
        <5> QED
          BY <5>3 DEF o
      <4>2. lastRetryOffset <= offset' /\ lastRetryTime <= now
        BY <2>2 DEF RetriesArePaidFor
      <4>3. /\ Allowed(lastRetryOffset, lastRetryTime) \in Nat
            /\ Allowed(lastRetryOffset, lastRetryTime) + 1 <= Allowed(offset', now)
        BY <1>1, <3>2, <4>1, <4>2, AllowedGrows
      <4> QED
        BY <1>1, <2>2, <2>6, <3>2, <4>3
    <3> QED
      BY <3>1, <3>2
  <2> QED
    BY <1>1, <2>1, <2>2, <2>3 DEF RetriesArePaidFor
<1>3. CASE Download!Reconnect
  <2>1. /\ retries' = retries + 1 /\ UNCHANGED <<offset, now>> /\ retries <= Allowed(offset, now)
        /\ \/ result' = "error" /\ UNCHANGED <<lastRetryOffset, lastRetryTime>>
           \/ result' = "reading" /\ lastRetryOffset' = offset /\ lastRetryTime' = now
    BY <1>3 DEF Download!Reconnect, RetriesArePaidFor
  <2>2. Allowed(offset, now) \in Nat
    <3>1. offset <= offset /\ now <= now
      BY <1>1
    <3> QED
      BY <1>1, <3>1, AllowedGrows
  <2>3. CASE result' = "error" /\ UNCHANGED <<lastRetryOffset, lastRetryTime>>
    BY <1>1, <2>1, <2>2, <2>3 DEF RetriesArePaidFor
  <2>4. CASE result' = "reading" /\ lastRetryOffset' = offset /\ lastRetryTime' = now
    <3>1. retries' <= 1 + Allowed(lastRetryOffset', lastRetryTime')
      BY <1>1, <2>1, <2>2, <2>4
    <3>2. retries' <= 2 + Allowed(offset', now')
      BY <1>1, <2>1, <2>2
    <3> QED
      BY <1>1, <2>1, <2>4, <3>1, <3>2 DEF RetriesArePaidFor
  <2> QED
    BY <2>1, <2>3, <2>4
<1>4. CASE Download!Tick
  <2>1. now' = now + 1 /\ UNCHANGED <<offset, lastRetryOffset, lastRetryTime, retries, result>>
    BY <1>4 DEF Download!Tick
  <2>2. /\ Allowed(offset, now) \in Nat /\ Allowed(offset, now') \in Nat
        /\ Allowed(offset, now) <= Allowed(offset, now')
    <3>1. offset <= offset /\ now <= now'
      BY <1>1, <2>1
    <3> QED
      BY <1>1, <3>1, AllowedGrows
  <2> QED
    BY <1>1, <2>1, <2>2 DEF RetriesArePaidFor
<1>5. CASE Download!Close
  BY <1>5 DEF Download!Close, RetriesArePaidFor
<1> QED
  BY <1>2, <1>3, <1>4, <1>5 DEF Download!Next

(* The heuristic cannot retry for ever: Range requests are bounded by the  *)
(* bytes read and the time passed, whatever the thresholds are.            *)
THEOREM RetriesBounded == Spec => []RetriesAreBounded
<1> DEFINE Inv == part = "download" => DownloadInvariant /\ RetriesArePaidFor
<1>1. Init => Inv
  <2>1. Download!Init => RetriesArePaidFor
    BY AllowedGrows DEF Download!Init, RetriesArePaidFor
  <2> QED
    BY <2>1, DownloadInit DEF Init, downloadInit
<1>2. Inv /\ [Next]_vars => Inv'
  <2> SUFFICES ASSUME Inv, [Next]_vars, part' = "download"
               PROVE  DownloadInvariant' /\ RetriesArePaidFor'
    OBVIOUS
  <2>1. CASE DownloadStep
    BY <2>1, DownloadNext, RetriesStayPaidFor
    DEF DownloadStep, DownloadInvariant, Download!DownloadIsExact
  <2>2. CASE UNCHANGED <<part, downloadVars>>
    BY <2>2 DEF downloadVars, DownloadInvariant, Download!DownloadIsExact, Download!TypeOK,
       Download!NoGapsNoRepeats, Download!EOFMeansComplete, ConnectionContinues,
       RetriesArePaidFor, Allowed
  <2> QED
    BY <2>1, <2>2 DEF Next, vars, ChunksStep, UploadStep, SignaturesStep, LayoutStep, BoltStep,
       MayStop
<1>3. Inv => RetriesAreBounded
  <2> SUFFICES ASSUME Inv, part = "download" PROVE Download!RetriesAreBounded
    BY DEF RetriesAreBounded
  <2>1. retries \in Nat /\ offset \in Nat /\ now \in Nat
    BY DownloadAssumption DEF DownloadInvariant, Download!DownloadIsExact, Download!TypeOK
  <2> DEFINE progress == offset \div MinimumProgress
             time == now \div SinceLastRetry
  <2>2. progress \in Nat /\ time \in Nat
    BY <2>1, DownloadAssumption, QuotientBounds
  <2>3. retries <= 2 + (progress + time)
    BY DEF RetriesArePaidFor, Allowed
  <2> HIDE DEF progress, time
  <2>4. retries <= 2 + progress + time
    BY <2>1, <2>2, <2>3
  <2> QED
    BY <2>4 DEF progress, time, Download!RetriesAreBounded
<1> QED
  BY <1>1, <1>2, <1>3, PTL DEF Spec

-----------------------------------------------------------------------------
(* Pushed blobs *)

(* The body is read only between the PATCH request and Terminate, under    *)
(* the mutex; a commit follows a body that was sent to its end.            *)
BodyIsRead ==
  /\ lock = "transport" <=> transport = "reading"
  /\ transport # "idle" => uploadPC \in {"patch", "terminate", "commit", "done"}
  /\ terminated => transport # "reading"
  /\ uploadPC = "commit" => terminated /\ response = "success"
  /\ uploadPC = "done" => terminated \/ transport = "idle"
  /\ response = "success" => transport = "sent"
  /\ transport = "sent" => stream = "EOF"
  /\ stream = "EOF" => pos = UploadSize

(* Only whole blobs are at the registry, and a candidate that is being     *)
(* tried is one of the list.                                               *)
CandidatesAreTried ==
  /\ \A r \in {"dest", "other"} : registry[r] \subseteq {UploadSize, UploadSize + 1}
  /\ next >= 1
  /\ uploadPC \in {"exists", "mount"} => next <= Len(job.candidates)

(* What UploadsAreSound needs to be inductive.                             *)
UploadInvariant == Upload!UploadsAreSound /\ BodyIsRead /\ CandidatesAreTried

(* A call that begins satisfies the invariant.                             *)
LEMMA UploadInit == Upload!Init => UploadInvariant
<1> SUFFICES ASSUME Upload!Init PROVE UploadInvariant
  OBVIOUS
<1>1. Upload!TypeOK
  <2>1. registry \in [Upload!Repos -> SUBSET Upload!BlobDigests]
    BY UploadAssumption DEF Upload!Init, Upload!BlobDigests, Upload!Variant
  <2>2. uploadPC \in {"try", "put"}
    BY DEF Upload!Init
  <2>3. digest \in BOOLEAN
    BY DEF Upload!Init
  <2>4. job \in [known : BOOLEAN, precompute : BOOLEAN, exact : BOOLEAN,
                 candidates : CandidateLists]
    BY DEF Upload!Init
  <2>5. /\ recorded = {} /\ next = 1 /\ missing = FALSE /\ pos = 0 /\ stream = "open"
        /\ transport = "idle" /\ lock = "free" /\ terminated = FALSE /\ response = "none"
        /\ uploadResult = -1
    BY DEF Upload!Init
  <2>6. recorded \in SUBSET Upload!BlobDigests /\ uploadResult \in Upload!BlobDigests \cup {-1}
    BY <2>5
  <2>7. next \in Nat /\ pos \in 0..UploadSize
    BY <2>5, UploadAssumption
  <2>8. missing \in BOOLEAN /\ terminated \in BOOLEAN /\ stream \in {"open", "EOF", "error"}
  /\ transport \in {"idle", "between", "reading", "sent", "stopped"}
  /\ lock \in {"free", "transport"}
  /\ response \in {"none", "success", "failure"}
    BY <2>5
  <2> QED
    BY <2>1, <2>2, <2>3, <2>4, <2>6, <2>7, <2>8 DEF Upload!TypeOK
<1>2. Upload!StreamIsReleased /\ BodyIsRead
  BY DEF Upload!Init, Upload!StreamIsReleased, BodyIsRead
<1>3. registry \in [{"dest", "other"} -> SUBSET {UploadSize, UploadSize + 1}]
  BY DEF Upload!Init, Upload!Repos, Upload!Variant
<1>4. Upload!VisibleBlobsAreComplete /\ CandidatesAreTried
  BY <1>3 DEF Upload!Init, Upload!VisibleBlobsAreComplete, CandidatesAreTried, Upload!Variant
<1>5. Upload!ReportsAreTrue
  BY DEF Upload!Init, Upload!ReportsAreTrue
<1> QED
  BY <1>1, <1>2, <1>4, <1>5 DEF UploadInvariant, Upload!UploadsAreSound

(* The candidate that is tried is in a repository of the registry.         *)
LEMMA CandidateIsListed ==
  ASSUME Upload!TypeOK, CandidatesAreTried, uploadPC \in {"exists", "mount"}
  PROVE  Upload!candidate.repo \in {"dest", "other"}
<1>1. job.candidates \in Seq([repo : {"dest", "other"}, digest : 0..(UploadSize + 1)])
  BY UploadAssumption DEF Upload!TypeOK
<1>2. next \in 1..Len(job.candidates)
  BY <1>1 DEF Upload!TypeOK, CandidatesAreTried
<1>3. job.candidates[next] \in [repo : {"dest", "other"}, digest : 0..(UploadSize + 1)]
  <2>1. \A S, l : l \in Seq(S) => \A n \in 1..Len(l) : l[n] \in S
    OBVIOUS
  <2> QED
    BY <1>1, <1>2, <2>1, Zenon
<1> QED
  BY <1>3 DEF Upload!candidate

(* The steps before the upload find or mount a blob, or go on.             *)
LEMMA ReuseNext ==
  ASSUME UploadInvariant,
         \/ Upload!TryExact \/ Upload!NextCandidate \/ Upload!CandidateExists
         \/ Upload!Mount \/ Upload!Collect \/ Upload!PutBlob \/ Upload!ExactBlob
  PROVE  UploadInvariant'
<1> USE UploadAssumption
<1>0. /\ Upload!TypeOK /\ Upload!StreamIsReleased /\ Upload!VisibleBlobsAreComplete
      /\ Upload!ReportsAreTrue /\ BodyIsRead /\ CandidatesAreTried
  BY DEF UploadInvariant, Upload!UploadsAreSound
<1>1. CASE Upload!TryExact
  <2>1. Upload!TypeOK'
    <3>1. UploadSize \in Upload!BlobDigests
      BY DEF Upload!BlobDigests, Upload!Variant
    <3>2. UNCHANGED <<job, registry, next, digest, Upload!upload>>
      BY <1>1 DEF Upload!TryExact
    <3>3. /\ uploadPC' \in {"candidates", "done"}
          /\ missing' \in BOOLEAN
          /\ recorded' \in {recorded, recorded \cup {UploadSize}}
          /\ uploadResult' \in {uploadResult, UploadSize, -1}
      BY <1>0, <1>1 DEF Upload!TryExact, Upload!Reuse, Upload!Return, Upload!TypeOK
    <3> QED
      BY <1>0, <3>1, <3>2, <3>3 DEF Upload!TypeOK, Upload!upload
  <2>2. Upload!StreamIsReleased' /\ BodyIsRead'
    BY <1>0, <1>1 DEF Upload!TryExact, Upload!StreamIsReleased, BodyIsRead, Upload!upload, Upload!Reuse,
       Upload!Return
  <2>3. Upload!VisibleBlobsAreComplete' /\ CandidatesAreTried'
    BY <1>0, <1>1 DEF Upload!TryExact, Upload!VisibleBlobsAreComplete, CandidatesAreTried, Upload!TypeOK,
       Upload!upload, Upload!Variant, Upload!Reuse, Upload!Return, Upload!Repos
  <2>4. Upload!ReportsAreTrue'
    BY <1>0, <1>1 DEF Upload!TryExact, Upload!ReportsAreTrue, Upload!Reuse, Upload!Return,
       Upload!blobExists, Upload!TypeOK, Upload!Repos
  <2> QED
    BY <2>1, <2>2, <2>3, <2>4 DEF UploadInvariant, Upload!UploadsAreSound
<1>2. CASE Upload!NextCandidate
  <2>1. Upload!TypeOK'
    BY <1>0, <1>2 DEF Upload!NextCandidate, Upload!TypeOK, Upload!upload, Upload!Reuse, Upload!Return,
       Upload!blobExists, Upload!BlobDigests, Upload!Variant, Upload!Repos
  <2>2. Upload!StreamIsReleased' /\ BodyIsRead'
    BY <1>0, <1>2 DEF Upload!NextCandidate, Upload!StreamIsReleased, BodyIsRead, Upload!upload, Upload!Reuse,
       Upload!Return
  <2>3. Upload!VisibleBlobsAreComplete' /\ CandidatesAreTried'
    BY <1>0, <1>2 DEF Upload!NextCandidate, Upload!VisibleBlobsAreComplete, CandidatesAreTried, Upload!TypeOK,
       Upload!upload, Upload!Variant, Upload!Reuse, Upload!Return, Upload!Repos
  <2>4. Upload!ReportsAreTrue'
    BY <1>0, <1>2 DEF Upload!NextCandidate, Upload!ReportsAreTrue, Upload!Reuse, Upload!Return,
       Upload!blobExists, Upload!TypeOK, Upload!Repos
  <2> QED
    BY <2>1, <2>2, <2>3, <2>4 DEF UploadInvariant, Upload!UploadsAreSound
<1>3. CASE Upload!CandidateExists
  <2>1. Upload!TypeOK'
    <3>1. UNCHANGED <<job, registry, missing, digest, Upload!upload>>
      BY <1>3 DEF Upload!CandidateExists
    <3>2. next' \in Nat
      BY <1>0, <1>3 DEF Upload!CandidateExists, Upload!TypeOK
    <3>3. \/ /\ uploadPC' \in {"candidates", "mount"}
             /\ UNCHANGED <<recorded, uploadResult>>
          \/ /\ Upload!candidate.digest \in registry[Upload!candidate.repo]
             /\ uploadPC' = "done"
             /\ recorded' = recorded \cup {Upload!candidate.digest}
             /\ uploadResult' = Upload!candidate.digest
      BY <1>3 DEF Upload!CandidateExists, Upload!Reuse, Upload!Return, Upload!blobExists
    <3>4. registry[Upload!candidate.repo] \subseteq Upload!BlobDigests
      BY <1>0, <1>3, CandidateIsListed DEF Upload!TypeOK, Upload!Repos, Upload!CandidateExists
    <3> QED
      BY <1>0, <3>1, <3>2, <3>3, <3>4 DEF Upload!TypeOK, Upload!upload
  <2>2. Upload!StreamIsReleased' /\ BodyIsRead'
    BY <1>0, <1>3 DEF Upload!CandidateExists, Upload!StreamIsReleased, BodyIsRead, Upload!upload, Upload!Reuse,
       Upload!Return
  <2>3. Upload!VisibleBlobsAreComplete' /\ CandidatesAreTried'
    BY <1>0, <1>3, CandidateIsListed DEF Upload!CandidateExists, Upload!VisibleBlobsAreComplete, CandidatesAreTried, Upload!TypeOK,
       Upload!upload, Upload!Variant, Upload!Reuse, Upload!Return, Upload!Repos
  <2>4. Upload!ReportsAreTrue'
    BY <1>0, <1>3, CandidateIsListed DEF Upload!CandidateExists, Upload!ReportsAreTrue, Upload!Reuse, Upload!Return,
       Upload!blobExists, Upload!TypeOK, Upload!Repos
  <2> QED
    BY <2>1, <2>2, <2>3, <2>4 DEF UploadInvariant, Upload!UploadsAreSound
<1>4. CASE Upload!Mount
  <2>1. Upload!TypeOK'
    <3>1. UNCHANGED <<job, missing, digest, Upload!upload>>
      BY <1>4 DEF Upload!Mount
    <3>2. next' \in Nat
      BY <1>0, <1>4 DEF Upload!Mount, Upload!TypeOK
    <3>3. \/ /\ uploadPC' = "candidates"
             /\ UNCHANGED <<registry, recorded, uploadResult>>
          \/ /\ Upload!candidate.digest \in registry[Upload!candidate.repo]
             /\ registry' = [registry EXCEPT !["dest"] = @ \cup {Upload!candidate.digest}]
             /\ uploadPC' = "done"
             /\ recorded' = recorded \cup {Upload!candidate.digest}
             /\ uploadResult' = Upload!candidate.digest
      BY <1>4 DEF Upload!Mount, Upload!mounted, Upload!Reuse, Upload!Return
    <3>4. registry[Upload!candidate.repo] \subseteq Upload!BlobDigests
      BY <1>0, <1>4, CandidateIsListed DEF Upload!TypeOK, Upload!Repos, Upload!Mount
    <3>5. registry' \in [Upload!Repos -> SUBSET Upload!BlobDigests]
      BY <1>0, <3>3, <3>4 DEF Upload!TypeOK, Upload!Repos
    <3> QED
      BY <1>0, <3>1, <3>2, <3>3, <3>4, <3>5 DEF Upload!TypeOK, Upload!upload
  <2>2. Upload!StreamIsReleased' /\ BodyIsRead'
    BY <1>0, <1>4 DEF Upload!Mount, Upload!StreamIsReleased, BodyIsRead, Upload!upload, Upload!Reuse,
       Upload!Return
  <2>3. Upload!VisibleBlobsAreComplete' /\ CandidatesAreTried'
    BY <1>0, <1>4, CandidateIsListed DEF Upload!Mount, Upload!VisibleBlobsAreComplete, CandidatesAreTried, Upload!TypeOK,
       Upload!upload, Upload!Variant, Upload!Reuse, Upload!Return, Upload!Repos, Upload!mounted
  <2>4. Upload!ReportsAreTrue'
    BY <1>0, <1>4, CandidateIsListed DEF Upload!Mount, Upload!ReportsAreTrue, Upload!Reuse, Upload!Return,
       Upload!blobExists, Upload!TypeOK, Upload!Repos, Upload!mounted
  <2> QED
    BY <2>1, <2>2, <2>3, <2>4 DEF UploadInvariant, Upload!UploadsAreSound
<1>5. CASE Upload!Collect
  <2>1. Upload!TypeOK'
    BY <1>0, <1>5 DEF Upload!Collect, Upload!TypeOK, Upload!upload, Upload!Reuse, Upload!Return,
       Upload!blobExists, Upload!BlobDigests, Upload!Variant, Upload!Repos
  <2>2. Upload!StreamIsReleased' /\ BodyIsRead'
    BY <1>0, <1>5 DEF Upload!Collect, Upload!StreamIsReleased, BodyIsRead, Upload!upload, Upload!Reuse,
       Upload!Return
  <2>3. Upload!VisibleBlobsAreComplete' /\ CandidatesAreTried'
    BY <1>0, <1>5 DEF Upload!Collect, Upload!VisibleBlobsAreComplete, CandidatesAreTried, Upload!TypeOK,
       Upload!upload, Upload!Variant, Upload!Reuse, Upload!Return, Upload!Repos
  <2>4. Upload!ReportsAreTrue'
    BY <1>0, <1>5 DEF Upload!Collect, Upload!ReportsAreTrue, Upload!Reuse, Upload!Return,
       Upload!blobExists, Upload!TypeOK, Upload!Repos
  <2> QED
    BY <2>1, <2>2, <2>3, <2>4 DEF UploadInvariant, Upload!UploadsAreSound
<1>6. CASE Upload!PutBlob
  <2>1. Upload!TypeOK'
    <3>1. UNCHANGED <<job, registry, recorded, next, missing, Upload!upload>>
      BY <1>6 DEF Upload!PutBlob
    <3>2. /\ uploadPC' \in {"exact", "post", "done"}
          /\ uploadResult' \in {uploadResult, -1}
      BY <1>6 DEF Upload!PutBlob, Upload!Return
    <3>3. digest' \in BOOLEAN
      BY <1>0, <1>6 DEF Upload!PutBlob, Upload!TypeOK
    <3> QED
      BY <1>0, <3>1, <3>2, <3>3 DEF Upload!TypeOK, Upload!upload
  <2>2. Upload!StreamIsReleased' /\ BodyIsRead'
    BY <1>0, <1>6 DEF Upload!PutBlob, Upload!StreamIsReleased, BodyIsRead, Upload!upload, Upload!Reuse,
       Upload!Return
  <2>3. Upload!VisibleBlobsAreComplete' /\ CandidatesAreTried'
    BY <1>0, <1>6 DEF Upload!PutBlob, Upload!VisibleBlobsAreComplete, CandidatesAreTried, Upload!TypeOK,
       Upload!upload, Upload!Variant, Upload!Reuse, Upload!Return, Upload!Repos
  <2>4. Upload!ReportsAreTrue'
    BY <1>0, <1>6 DEF Upload!PutBlob, Upload!ReportsAreTrue, Upload!Reuse, Upload!Return,
       Upload!blobExists, Upload!TypeOK, Upload!Repos
  <2> QED
    BY <2>1, <2>2, <2>3, <2>4 DEF UploadInvariant, Upload!UploadsAreSound
<1>7. CASE Upload!ExactBlob
  <2>1. Upload!TypeOK'
    BY <1>0, <1>7 DEF Upload!ExactBlob, Upload!TypeOK, Upload!upload, Upload!Reuse, Upload!Return,
       Upload!blobExists, Upload!BlobDigests, Upload!Variant, Upload!Repos
  <2>2. Upload!StreamIsReleased' /\ BodyIsRead'
    BY <1>0, <1>7 DEF Upload!ExactBlob, Upload!StreamIsReleased, BodyIsRead, Upload!upload, Upload!Reuse,
       Upload!Return
  <2>3. Upload!VisibleBlobsAreComplete' /\ CandidatesAreTried'
    BY <1>0, <1>7 DEF Upload!ExactBlob, Upload!VisibleBlobsAreComplete, CandidatesAreTried, Upload!TypeOK,
       Upload!upload, Upload!Variant, Upload!Reuse, Upload!Return, Upload!Repos
  <2>4. Upload!ReportsAreTrue'
    BY <1>0, <1>7 DEF Upload!ExactBlob, Upload!ReportsAreTrue, Upload!Reuse, Upload!Return,
       Upload!blobExists, Upload!TypeOK, Upload!Repos
  <2> QED
    BY <2>1, <2>2, <2>3, <2>4 DEF UploadInvariant, Upload!UploadsAreSound
<1> QED
  BY <1>1, <1>2, <1>3, <1>4, <1>5, <1>6, <1>7

(* The steps of the upload and of the transport that reads its body.       *)
LEMMA TransmitNext ==
  ASSUME UploadInvariant,
         \/ Upload!Post \/ Upload!ReadLock \/ Upload!ReadStream \/ Upload!DoReturns
         \/ Upload!Terminate \/ Upload!Commit
  PROVE  UploadInvariant'
<1> USE UploadAssumption
<1>0. /\ Upload!TypeOK /\ Upload!StreamIsReleased /\ Upload!VisibleBlobsAreComplete
      /\ Upload!ReportsAreTrue /\ BodyIsRead /\ CandidatesAreTried
  BY DEF UploadInvariant, Upload!UploadsAreSound
<1>1. CASE Upload!Post
  <2>1. Upload!TypeOK'
    BY <1>0, <1>1 DEF Upload!Post, Upload!TypeOK, Upload!upload, Upload!Return, Upload!Repos,
       Upload!BlobDigests, Upload!Variant
  <2>2. Upload!StreamIsReleased' /\ BodyIsRead'
    BY <1>0, <1>1 DEF Upload!Post, Upload!StreamIsReleased, BodyIsRead, Upload!upload,
       Upload!Return, Upload!TypeOK
  <2>3. Upload!VisibleBlobsAreComplete' /\ CandidatesAreTried'
    BY <1>0, <1>1 DEF Upload!Post, Upload!VisibleBlobsAreComplete, CandidatesAreTried, Upload!TypeOK,
       Upload!upload, Upload!Variant, BodyIsRead, Upload!Return, Upload!Repos
  <2>4. Upload!ReportsAreTrue'
    BY <1>0, <1>1 DEF Upload!Post, Upload!ReportsAreTrue, Upload!Return, Upload!TypeOK, Upload!Repos
  <2> QED
    BY <2>1, <2>2, <2>3, <2>4 DEF UploadInvariant, Upload!UploadsAreSound
<1>2. CASE Upload!ReadLock
  <2>1. Upload!TypeOK'
    BY <1>0, <1>2 DEF Upload!ReadLock, Upload!TypeOK, Upload!upload, Upload!Return, Upload!Repos,
       Upload!BlobDigests, Upload!Variant
  <2>2. Upload!StreamIsReleased' /\ BodyIsRead'
    BY <1>0, <1>2 DEF Upload!ReadLock, Upload!StreamIsReleased, BodyIsRead, Upload!upload,
       Upload!Return, Upload!TypeOK
  <2>3. Upload!VisibleBlobsAreComplete' /\ CandidatesAreTried'
    BY <1>0, <1>2 DEF Upload!ReadLock, Upload!VisibleBlobsAreComplete, CandidatesAreTried, Upload!TypeOK,
       Upload!upload, Upload!Variant, BodyIsRead, Upload!Return, Upload!Repos
  <2>4. Upload!ReportsAreTrue'
    BY <1>0, <1>2 DEF Upload!ReadLock, Upload!ReportsAreTrue, Upload!Return, Upload!TypeOK, Upload!Repos
  <2> QED
    BY <2>1, <2>2, <2>3, <2>4 DEF UploadInvariant, Upload!UploadsAreSound
<1>3. CASE Upload!ReadStream
  <2>1. Upload!TypeOK'
    BY <1>0, <1>3 DEF Upload!ReadStream, Upload!TypeOK, Upload!upload, Upload!Return, Upload!Repos,
       Upload!BlobDigests, Upload!Variant
  <2>2. Upload!StreamIsReleased' /\ BodyIsRead'
    BY <1>0, <1>3 DEF Upload!ReadStream, Upload!StreamIsReleased, BodyIsRead, Upload!upload,
       Upload!Return, Upload!TypeOK
  <2>3. Upload!VisibleBlobsAreComplete' /\ CandidatesAreTried'
    BY <1>0, <1>3 DEF Upload!ReadStream, Upload!VisibleBlobsAreComplete, CandidatesAreTried, Upload!TypeOK,
       Upload!upload, Upload!Variant, BodyIsRead, Upload!Return, Upload!Repos
  <2>4. Upload!ReportsAreTrue'
    BY <1>0, <1>3 DEF Upload!ReadStream, Upload!ReportsAreTrue, Upload!Return, Upload!TypeOK, Upload!Repos
  <2> QED
    BY <2>1, <2>2, <2>3, <2>4 DEF UploadInvariant, Upload!UploadsAreSound
<1>4. CASE Upload!DoReturns
  <2>1. Upload!TypeOK'
    BY <1>0, <1>4 DEF Upload!DoReturns, Upload!TypeOK, Upload!upload, Upload!Return, Upload!Repos,
       Upload!BlobDigests, Upload!Variant
  <2>2. Upload!StreamIsReleased' /\ BodyIsRead'
    BY <1>0, <1>4 DEF Upload!DoReturns, Upload!StreamIsReleased, BodyIsRead, Upload!upload,
       Upload!Return, Upload!TypeOK
  <2>3. Upload!VisibleBlobsAreComplete' /\ CandidatesAreTried'
    BY <1>0, <1>4 DEF Upload!DoReturns, Upload!VisibleBlobsAreComplete, CandidatesAreTried, Upload!TypeOK,
       Upload!upload, Upload!Variant, BodyIsRead, Upload!Return, Upload!Repos
  <2>4. Upload!ReportsAreTrue'
    BY <1>0, <1>4 DEF Upload!DoReturns, Upload!ReportsAreTrue, Upload!Return, Upload!TypeOK, Upload!Repos
  <2> QED
    BY <2>1, <2>2, <2>3, <2>4 DEF UploadInvariant, Upload!UploadsAreSound
<1>5. CASE Upload!Terminate
  <2>1. Upload!TypeOK'
    BY <1>0, <1>5 DEF Upload!Terminate, Upload!TypeOK, Upload!upload, Upload!Return, Upload!Repos,
       Upload!BlobDigests, Upload!Variant, Upload!MutexFree
  <2>2. Upload!StreamIsReleased' /\ BodyIsRead'
    BY <1>0, <1>5 DEF Upload!Terminate, Upload!StreamIsReleased, BodyIsRead, Upload!upload,
       Upload!Return, Upload!TypeOK, Upload!MutexFree
  <2>3. Upload!VisibleBlobsAreComplete' /\ CandidatesAreTried'
    BY <1>0, <1>5 DEF Upload!Terminate, Upload!VisibleBlobsAreComplete, CandidatesAreTried, Upload!TypeOK,
       Upload!upload, Upload!Variant, BodyIsRead, Upload!Return, Upload!Repos, Upload!MutexFree
  <2>4. Upload!ReportsAreTrue'
    BY <1>0, <1>5 DEF Upload!Terminate, Upload!ReportsAreTrue, Upload!Return, Upload!TypeOK, Upload!Repos, Upload!MutexFree
  <2> QED
    BY <2>1, <2>2, <2>3, <2>4 DEF UploadInvariant, Upload!UploadsAreSound
<1>6. CASE Upload!Commit
  <2>1. Upload!TypeOK'
    <3>1. pos \in Upload!BlobDigests
      BY <1>0 DEF Upload!TypeOK, Upload!BlobDigests, Upload!Variant
    <3>2. UNCHANGED <<job, next, missing, digest, Upload!upload>> /\ uploadPC' = "done"
      BY <1>6 DEF Upload!Commit, Upload!Reuse, Upload!Return
    <3>3. \/ UNCHANGED <<registry, recorded>> /\ uploadResult' = -1
          \/ /\ registry' = [registry EXCEPT !["dest"] = @ \cup {pos}]
             /\ recorded' = recorded \cup {pos} /\ uploadResult' = pos
      BY <1>6 DEF Upload!Commit, Upload!Reuse, Upload!Return
    <3>4. registry' \in [Upload!Repos -> SUBSET Upload!BlobDigests]
      BY <1>0, <3>1, <3>3 DEF Upload!TypeOK, Upload!Repos
    <3>5. /\ recorded' \in SUBSET Upload!BlobDigests
          /\ uploadResult' \in Upload!BlobDigests \cup {-1}
      BY <1>0, <3>1, <3>3 DEF Upload!TypeOK
    <3> QED
      BY <1>0, <3>2, <3>4, <3>5 DEF Upload!TypeOK, Upload!upload
  <2>2. Upload!StreamIsReleased' /\ BodyIsRead'
    BY <1>0, <1>6 DEF Upload!Commit, Upload!StreamIsReleased, BodyIsRead, Upload!upload,
       Upload!Return, Upload!TypeOK, Upload!blobDigest, Upload!Reuse
  <2>3. Upload!VisibleBlobsAreComplete' /\ CandidatesAreTried'
    BY <1>0, <1>6 DEF Upload!Commit, Upload!VisibleBlobsAreComplete, CandidatesAreTried, Upload!TypeOK,
       Upload!upload, Upload!Variant, BodyIsRead, Upload!Return, Upload!Repos, Upload!blobDigest, Upload!Reuse
  <2>4. Upload!ReportsAreTrue'
    BY <1>0, <1>6 DEF Upload!Commit, Upload!ReportsAreTrue, Upload!Return, Upload!TypeOK, Upload!Repos, Upload!blobDigest, Upload!Reuse
  <2> QED
    BY <2>1, <2>2, <2>3, <2>4 DEF UploadInvariant, Upload!UploadsAreSound
<1> QED
  BY <1>1, <1>2, <1>3, <1>4, <1>5, <1>6

(* Whatever the registry answers, the stream does and the transport still  *)
(* reads, a push reports and records only blobs that are completely at the *)
(* registry, and nobody reads its stream afterwards.                       *)
THEOREM UploadsSound == Spec => []UploadsAreSound
<1> DEFINE Inv == part = "upload" => UploadInvariant
<1>1. Init => Inv
  BY UploadInit DEF Init, uploadInit
<1>2. Inv /\ [Next]_vars => Inv'
  <2> SUFFICES ASSUME Inv, [Next]_vars, part' = "upload" PROVE UploadInvariant'
    OBVIOUS
  <2>1. CASE UNCHANGED <<part, uploadVars>>
    BY <2>1 DEF uploadVars, UploadInvariant, Upload!UploadsAreSound, Upload!TypeOK,
       Upload!StreamIsReleased, Upload!VisibleBlobsAreComplete, Upload!ReportsAreTrue,
       BodyIsRead, CandidatesAreTried
  <2>2. CASE UploadStep
    <3>1. CASE Upload!Finished
      BY <2>1, <2>2, <3>1 DEF UploadStep, Upload!Finished, Upload!vars, Upload!upload, uploadVars
    <3> QED
      BY <2>2, <3>1, ReuseNext, TransmitNext DEF UploadStep, Upload!Next
  <2> QED
    BY <2>1, <2>2 DEF Next, vars, DownloadStep, ChunksStep, SignaturesStep, LayoutStep, BoltStep,
       MayStop
<1>3. Inv => UploadsAreSound
  BY DEF UploadInvariant, UploadsAreSound
<1> QED
  BY <1>1, <1>2, <1>3, PTL DEF Spec

-----------------------------------------------------------------------------
(* The locks of the BoltDB cache *)

(* The goroutines between lockPath and unlockPath.                         *)
Users == {g \in Goroutines : mine[g] # Bolt!NoLock}
UsingPCs == {"waiting", "locked", "open", "orphan", "closed"}

LockTypes ==
  /\ pathLocks \in Locks \cup {Bolt!NoLock}
  /\ refCount \in [Locks -> 0..Cardinality(Goroutines)]
  /\ owner \in [Locks -> Goroutines \cup {Bolt!Nobody}]
  /\ pc \in [Goroutines -> Bolt!PCs]
  /\ mine \in [Goroutines -> Locks \cup {Bolt!NoLock}]

(* The map has a lock exactly while somebody uses it, all use that one,    *)
(* and refCount counts them.                                               *)
LockIsCounted ==
  /\ \A g \in Goroutines : mine[g] # Bolt!NoLock <=> pc[g] \in UsingPCs
  /\ \A g \in Users : mine[g] = pathLocks
  /\ pathLocks = Bolt!NoLock <=> Users = {}
  /\ pathLocks # Bolt!NoLock => refCount[pathLocks] = Cardinality(Users)

(* Who is past pl.mutex.Lock() owns the mutex of the lock it was given.    *)
OwnersHold == \A g \in Bolt!Owning : owner[mine[g]] = g

LockInvariant == LockTypes /\ LockIsCounted /\ OwnersHold

(* There are finitely many users, and joining or leaving them is counted.  *)
LEMMA UsersAreCounted ==
  /\ IsFiniteSet(Users) /\ Cardinality(Users) \in Nat
  /\ Cardinality(Users) <= Cardinality(Goroutines) /\ Cardinality(Goroutines) \in Nat
  /\ Users = {} <=> Cardinality(Users) = 0
  /\ \A g \in Goroutines \ Users :
       /\ Cardinality(Users \cup {g}) = Cardinality(Users) + 1
       /\ Cardinality(Users \cup {g}) <= Cardinality(Goroutines)
  /\ \A g \in Users : Cardinality(Users \ {g}) = Cardinality(Users) - 1
<1>1. IsFiniteSet(Goroutines) /\ Users \subseteq Goroutines
  BY BoltAssumption DEF Users
<1>2. /\ IsFiniteSet(Users) /\ Cardinality(Users) <= Cardinality(Goroutines)
  BY <1>1, FS_Subset
<1>3. Cardinality(Users) \in Nat /\ Cardinality(Goroutines) \in Nat
  BY <1>1, <1>2, FS_CardinalityType
<1>4. ASSUME NEW g \in Goroutines \ Users
      PROVE  /\ Cardinality(Users \cup {g}) = Cardinality(Users) + 1
             /\ Cardinality(Users \cup {g}) <= Cardinality(Goroutines)
  BY <1>1, <1>2, FS_AddElement, FS_Subset
<1>5. ASSUME NEW g \in Users PROVE Cardinality(Users \ {g}) = Cardinality(Users) - 1
  BY <1>2, FS_RemoveElement
<1>6. Users = {} <=> Cardinality(Users) = 0
  BY <1>2, FS_EmptySet
<1> QED
  BY <1>2, <1>3, <1>4, <1>5, <1>6

(* Nobody uses the path: a new lock is found.                              *)
LEMMA NewLockIsFree ==
  ASSUME LockInvariant, pathLocks = Bolt!NoLock PROVE Bolt!NewLock \in Locks
<1>1. \A g \in Goroutines : mine[g] = Bolt!NoLock
  BY DEF LockInvariant, LockIsCounted, Users
<1>2. \E l \in Locks : l # pathLocks /\ \A g \in Goroutines : mine[g] # l
  BY <1>1, BoltAssumption
<1> QED
  BY <1>2 DEF Bolt!NewLock

(* All who own the mutex are the same goroutine.                           *)
LEMMA OwnerIsUnique ==
  ASSUME LockInvariant
  PROVE  /\ Bolt!Owning \subseteq Users
         /\ \A g, h \in Bolt!Owning : g = h
         /\ \A g \in Bolt!Owning : owner[pathLocks] = g
BY DEF LockInvariant, LockIsCounted, OwnersHold, Bolt!Owning, UsingPCs, Users

(* lockPath's first half gives a goroutine the lock that all others use.   *)
LEMMA GetPathLockKeeps ==
  ASSUME LockInvariant, NEW g \in Goroutines, pc[g] \in {"idle", "checked"},
         Bolt!getPathLock(g), pc' = [pc EXCEPT ![g] = "waiting"]
  PROVE  LockInvariant'
<1> DEFINE pl == IF pathLocks # Bolt!NoLock THEN pathLocks ELSE Bolt!NewLock
<1>0. LockTypes /\ LockIsCounted /\ OwnersHold
  BY DEF LockInvariant
<1>1. pl \in Locks /\ pl # Bolt!NoLock
  BY <1>0, NewLockIsFree, BoltAssumption DEF LockTypes
<1>2. /\ pathLocks' = pl
      /\ mine' = [mine EXCEPT ![g] = pl]
      /\ refCount' = [refCount EXCEPT ![pl] = IF pathLocks # Bolt!NoLock THEN @ + 1 ELSE 1]
      /\ owner' = owner
  BY DEF Bolt!getPathLock
<1> HIDE DEF pl
<1>3. g \in Goroutines \ Users
  BY <1>0 DEF LockIsCounted, Users, UsingPCs
<1>4. Users' = Users \cup {g}
  BY <1>0, <1>1, <1>2 DEF Users, LockTypes
<1>5. refCount'[pl] = Cardinality(Users')
  <2>1. CASE pathLocks # Bolt!NoLock
    BY <1>0, <1>1, <1>2, <1>3, <1>4, <2>1, UsersAreCounted DEF LockIsCounted, LockTypes, pl
  <2>2. CASE pathLocks = Bolt!NoLock
    <3>1. Users = {} /\ Cardinality(Users) = 0
      BY <1>0, <2>2, UsersAreCounted DEF LockIsCounted
    <3>2. Cardinality(Users') = 1
      BY <1>3, <1>4, <3>1, UsersAreCounted
    <3> QED
      BY <1>0, <1>1, <1>2, <2>2, <3>2 DEF LockTypes
  <2> QED
    BY <2>1, <2>2
<1>6. refCount'[pl] \in 0..Cardinality(Goroutines)
  BY <1>3, <1>4, <1>5, UsersAreCounted
<1>7. LockTypes'
  BY <1>0, <1>1, <1>2, <1>6 DEF LockTypes, Bolt!PCs
<1>8. LockIsCounted'
  <2>1. \A h \in Goroutines : mine'[h] # Bolt!NoLock <=> pc'[h] \in UsingPCs
    BY <1>0, <1>1, <1>2 DEF LockIsCounted, LockTypes, UsingPCs
  <2>2. \A h \in Users' : mine'[h] = pathLocks'
    <3>1. \A h \in Users : mine[h] = pl
      BY <1>0 DEF LockIsCounted, pl
    <3> QED
      BY <1>0, <1>2, <1>3, <1>4, <3>1 DEF LockTypes, Users
  <2> QED
    BY <1>1, <1>2, <1>4, <1>5, <2>1, <2>2 DEF LockIsCounted
<1>9. OwnersHold'
  <2>1. Bolt!Owning' = Bolt!Owning /\ g \notin Bolt!Owning
    BY <1>0 DEF Bolt!Owning, LockTypes
  <2> QED
    BY <1>0, <1>2, <2>1 DEF OwnersHold, Bolt!Owning, LockTypes
<1> QED
  BY <1>7, <1>8, <1>9 DEF LockInvariant

(* Nobody owned the mutex: now this goroutine does.                        *)
LEMMA LockPathKeeps ==
  ASSUME LockInvariant, NEW g \in Goroutines, Bolt!lockPath(g) PROVE LockInvariant'
<1>0. LockTypes /\ LockIsCounted /\ OwnersHold
  BY DEF LockInvariant
<1>1. /\ pc[g] = "waiting" /\ owner[mine[g]] = Bolt!Nobody
      /\ owner' = [owner EXCEPT ![mine[g]] = g]
      /\ pc' = [pc EXCEPT ![g] = "locked"]
      /\ UNCHANGED <<pathLocks, refCount, mine>>
  BY DEF Bolt!lockPath
<1>2. g \in Users /\ mine[g] = pathLocks /\ mine[g] \in Locks
  BY <1>0, <1>1 DEF LockIsCounted, Users, UsingPCs, LockTypes
<1>3. Bolt!Owning = {}
  BY <1>1, <1>2, OwnerIsUnique, BoltAssumption DEF Users
<1>4. Bolt!Owning' = {g}
  BY <1>0, <1>1, <1>3 DEF Bolt!Owning, LockTypes
<1>5. LockTypes'
  BY <1>0, <1>1, <1>2 DEF LockTypes, Bolt!PCs
<1>6. LockIsCounted'
  BY <1>0, <1>1 DEF LockIsCounted, LockTypes, Users, UsingPCs
<1>7. OwnersHold'
  BY <1>0, <1>1, <1>2, <1>4 DEF OwnersHold, LockTypes
<1> QED
  BY <1>5, <1>6, <1>7 DEF LockInvariant

(* The owner leaves; the lock is dropped with the last user.               *)
LEMMA UnlockPathKeeps ==
  ASSUME LockInvariant, NEW g \in Goroutines, Bolt!unlockPath(g) PROVE LockInvariant'
<1>0. LockTypes /\ LockIsCounted /\ OwnersHold
  BY DEF LockInvariant
<1>1. /\ pc[g] = "closed" /\ pathLocks # Bolt!NoLock
      /\ owner' = [owner EXCEPT ![pathLocks] = Bolt!Nobody]
      /\ refCount' = [refCount EXCEPT ![pathLocks] = @ - 1]
      /\ pathLocks' = IF refCount[pathLocks] - 1 = 0 THEN Bolt!NoLock ELSE pathLocks
      /\ mine' = [mine EXCEPT ![g] = Bolt!NoLock]
      /\ pc' = [pc EXCEPT ![g] = "idle"]
  BY DEF Bolt!unlockPath, Bolt!unused
<1>2. g \in Users /\ pathLocks \in Locks /\ g \in Bolt!Owning
  BY <1>0, <1>1 DEF LockIsCounted, Users, UsingPCs, LockTypes, Bolt!Owning
<1>3. Users' = Users \ {g} /\ Cardinality(Users') = Cardinality(Users) - 1
  BY <1>0, <1>1, <1>2, UsersAreCounted DEF Users, LockTypes
<1>4. refCount[pathLocks] - 1 = Cardinality(Users')
  BY <1>0, <1>1, <1>3 DEF LockIsCounted
<1>5. Cardinality(Users') \in Nat /\ (Users' = {} <=> Cardinality(Users') = 0)
  <2>1. IsFiniteSet(Users \ {g})
    BY UsersAreCounted, FS_Subset
  <2> QED
    BY <1>3, <2>1, FS_EmptySet, FS_CardinalityType
<1>6. refCount[pathLocks] - 1 \in 0..Cardinality(Goroutines)
  BY <1>2, <1>3, <1>4, <1>5, UsersAreCounted
<1>7. LockTypes'
  BY <1>0, <1>1, <1>2, <1>6 DEF LockTypes, Bolt!PCs
<1>8. LockIsCounted'
  <2>1. \A h \in Goroutines : mine'[h] # Bolt!NoLock <=> pc'[h] \in UsingPCs
    BY <1>0, <1>1 DEF LockIsCounted, LockTypes, UsingPCs
  <2>2. pathLocks' = Bolt!NoLock <=> Users' = {}
    BY <1>1, <1>4, <1>5
  <2>3. \A h \in Users' : mine'[h] = pathLocks'
    BY <1>0, <1>1, <1>3, <1>4, <1>5 DEF LockIsCounted, LockTypes, Users
  <2>4. pathLocks' # Bolt!NoLock => refCount'[pathLocks'] = Cardinality(Users')
    BY <1>0, <1>1, <1>2, <1>4 DEF LockTypes
  <2> QED
    BY <2>1, <2>2, <2>3, <2>4 DEF LockIsCounted
<1>9. OwnersHold'
  <2>1. Bolt!Owning = {g}
    BY <1>2, OwnerIsUnique
  <2>2. Bolt!Owning' = {}
    BY <1>0, <1>1, <2>1 DEF Bolt!Owning, LockTypes
  <2> QED
    BY <2>2 DEF OwnersHold
<1> QED
  BY <1>7, <1>8, <1>9 DEF LockInvariant

(* Steps that move a goroutine from one place outside, or under, the lock  *)
(* to another one.                                                         *)
LEMMA LocksUnchanged ==
  ASSUME LockInvariant, UNCHANGED <<pathLocks, refCount, owner, mine>>,
         pc' \in [Goroutines -> Bolt!PCs], Bolt!Owning' = Bolt!Owning,
         \A g \in Goroutines : pc'[g] \in UsingPCs <=> pc[g] \in UsingPCs
  PROVE  LockInvariant'
BY DEF LockInvariant, LockTypes, LockIsCounted, Users, OwnersHold

(* Every step of the cache keeps the locks in order.                       *)
LEMMA LockNext == LockInvariant /\ Bolt!Next => LockInvariant'
<1> SUFFICES ASSUME LockInvariant, Bolt!Next PROVE LockInvariant'
  OBVIOUS
<1>0. pc \in [Goroutines -> Bolt!PCs]
  BY DEF LockInvariant, LockTypes
<1>1. CASE Bolt!RemoveFile
  <2>1. /\ pc' = [g \in Goroutines |-> IF pc[g] = "open" THEN "orphan" ELSE pc[g]]
        /\ UNCHANGED <<pathLocks, refCount, owner, mine>>
    BY <1>1 DEF Bolt!RemoveFile, Bolt!lockVars
  <2> QED
    BY <1>0, <2>1, LocksUnchanged DEF Bolt!PCs, Bolt!Owning, UsingPCs
<1>2. ASSUME NEW g \in Goroutines, Bolt!Lexists(g) PROVE LockInvariant'
  <2>1. /\ pc[g] = "idle" /\ pc' = [pc EXCEPT ![g] = "checked"]
        /\ UNCHANGED <<pathLocks, refCount, owner, mine>>
    BY <1>2 DEF Bolt!Lexists, Bolt!lockVars
  <2> QED
    BY <1>0, <2>1, LocksUnchanged DEF Bolt!PCs, Bolt!Owning, UsingPCs
<1>3. ASSUME NEW g \in Goroutines, Bolt!Open(g) PROVE LockInvariant'
  <2>1. /\ pc[g] = "locked"
        /\ pc' = [pc EXCEPT ![g] = "open"] \/ pc' = [pc EXCEPT ![g] = "closed"]
        /\ UNCHANGED <<pathLocks, refCount, owner, mine>>
    BY <1>3 DEF Bolt!Open, Bolt!lockVars
  <2> QED
    BY <1>0, <2>1, LocksUnchanged DEF Bolt!PCs, Bolt!Owning, UsingPCs
<1>4. ASSUME NEW g \in Goroutines, Bolt!Finish(g) PROVE LockInvariant'
  <2>1. /\ pc[g] \in {"open", "orphan"} /\ pc' = [pc EXCEPT ![g] = "closed"]
        /\ UNCHANGED <<pathLocks, refCount, owner, mine>>
    BY <1>4 DEF Bolt!Finish, Bolt!lockVars
  <2> QED
    BY <1>0, <2>1, LocksUnchanged DEF Bolt!PCs, Bolt!Owning, UsingPCs
<1>5. ASSUME NEW g \in Goroutines, Bolt!view(g) \/ Bolt!update(g) PROVE LockInvariant'
  BY <1>5, GetPathLockKeeps DEF Bolt!view, Bolt!update
<1> QED
  BY <1>1, <1>2, <1>3, <1>4, <1>5, LockPathKeeps, UnlockPathKeeps
  DEF Bolt!Next, Bolt!NoEffect, Bolt!Commit, Bolt!RecordDigestUncompressedPair,
      Bolt!RecordTOCUncompressedPair, Bolt!RecordKnownLocation, Bolt!RecordDigestCompressorData

-----------------------------------------------------------------------------
(* The buckets of the BoltDB cache *)

(* The constants of BlobFacts are those of the instance.                   *)
LEMMA BoltConstants ==
  /\ Bolt!NoDigest = NoDigest /\ Bolt!Algorithms = Algorithms
  /\ Bolt!Uncompressed = Uncompressed /\ Bolt!UnknownCompression = UnknownCompression
  /\ Bolt!NoCompressorData = NoCompressorData
  /\ \A d : Bolt!VerifiedCompressorData(d) = VerifiedCompressorData(d)
<1>1. /\ Bolt!NoDigest = NoDigest /\ Bolt!Algorithms = Algorithms
      /\ Bolt!Uncompressed = Uncompressed /\ Bolt!UnknownCompression = UnknownCompression
  BY DEF Bolt!NoDigest, NoDigest, Bolt!Algorithms, Algorithms, Bolt!Uncompressed, Uncompressed,
     Bolt!UnknownCompression, UnknownCompression
<1>2. Bolt!NoCompressorData = NoCompressorData
  BY <1>1 DEF Bolt!NoCompressorData, NoCompressorData
<1>3. \A d : Bolt!VerifiedCompressorData(d) = VerifiedCompressorData(d)
  BY <1>1, <1>2 DEF Bolt!VerifiedCompressorData, VerifiedCompressorData
<1> QED
  BY <1>1, <1>2, <1>3

BucketTypes ==
  /\ writes \in [Goroutines -> BOOLEAN] /\ file \in Bolt!FileStates
  /\ uncompressedDigest \in [Digests -> Digests \cup {NoDigest}]
  /\ uncompressedDigestByTOC \in [TOCs -> Digests \cup {NoDigest}]
  /\ digestByUncompressed \in [Digests -> SUBSET Digests]
  /\ digestCompressor \in
       [Digests -> Algorithms \cup {Uncompressed, UnknownCompression, Bolt!NoEntry}]
  /\ digestSpecificVariantCompressor \in [Digests -> Algorithms \cup {Bolt!NoEntry}]
  /\ knownLocations \in [Scopes \X Digests -> [Locations -> 0..MaxTime]]
  /\ clock \in 0..MaxTime

(* The digests of the two buckets of uncompressed digests agree, and are   *)
(* true.                                                                   *)
PairsAgree ==
  \A d \in Digests :
    /\ uncompressedDigest[d] \in {NoDigest, TrueUncompressed[d]}
    /\ digestByUncompressed[d] = {e \in Digests : uncompressedDigest[e] = d}

(* A specific variant is recorded only with its base variant.              *)
CompressorsAgree ==
  \A d \in Digests :
    /\ digestCompressor[d] \in {Bolt!NoEntry, UnknownCompression, TrueCompressor[d].base}
    /\ digestSpecificVariantCompressor[d] \in {Bolt!NoEntry, TrueCompressor[d].specific}
    /\ digestSpecificVariantCompressor[d] # Bolt!NoEntry =>
         digestCompressor[d] = TrueCompressor[d].base

BucketInvariant == BucketTypes /\ PairsAgree /\ CompressorsAgree

(* A new, or a removed, file has empty buckets.                            *)
LEMMA EmptyBuckets ==
  ASSUME uncompressedDigest = [d \in Digests |-> NoDigest],
         digestByUncompressed = [d \in Digests |-> {}],
         digestCompressor = Bolt!NoBucket, digestSpecificVariantCompressor = Bolt!NoBucket
  PROVE  PairsAgree /\ CompressorsAgree
BY DigestsAssumption DEF PairsAgree, CompressorsAgree, Bolt!NoBucket, NoDigest

(* No step of the cache makes its buckets disagree.                        *)
LEMMA BucketNext == BucketInvariant /\ Bolt!Next => BucketInvariant'
<1> SUFFICES ASSUME BucketInvariant, Bolt!Next PROVE BucketInvariant'
  OBVIOUS
<1>0. BucketTypes /\ PairsAgree /\ CompressorsAgree
  BY DEF BucketInvariant
<1>1. CASE Bolt!RemoveFile
  <2>1. /\ uncompressedDigest' = [d \in Digests |-> NoDigest]
        /\ digestByUncompressed' = [d \in Digests |-> {}]
        /\ digestCompressor' = Bolt!NoBucket /\ digestSpecificVariantCompressor' = Bolt!NoBucket
    BY <1>1, BoltConstants DEF Bolt!RemoveFile
  <2>2. BucketTypes'
    BY <1>0, <1>1, <2>1, TimeAssumption, BoltConstants
    DEF BucketTypes, Bolt!RemoveFile, Bolt!NoBucket, Bolt!NoLocations, Bolt!FileStates
  <2>3. PairsAgree' /\ CompressorsAgree'
    BY <2>1, DigestsAssumption DEF PairsAgree, CompressorsAgree, Bolt!NoBucket, NoDigest
  <2> QED
    BY <2>2, <2>3 DEF BucketInvariant
<1>2. ASSUME NEW g \in Goroutines, UNCHANGED <<Bolt!buckets, clock>>,
             writes' \in [Goroutines -> BOOLEAN], file' \in Bolt!FileStates
      PROVE  BucketInvariant'
  BY <1>0, <1>2 DEF BucketInvariant, BucketTypes, PairsAgree, CompressorsAgree, Bolt!buckets
<1>3. ASSUME NEW g \in Goroutines,
             \/ Bolt!Lexists(g) \/ Bolt!view(g) \/ Bolt!update(g) \/ Bolt!lockPath(g)
             \/ Bolt!unlockPath(g) \/ Bolt!Open(g) \/ Bolt!NoEffect(g)
      PROVE  BucketInvariant'
  <2>1. UNCHANGED <<Bolt!buckets, clock>>
    BY <1>3 DEF Bolt!Lexists, Bolt!view, Bolt!update, Bolt!lockPath, Bolt!unlockPath, Bolt!Open,
       Bolt!NoEffect
  <2>2. writes' \in [Goroutines -> BOOLEAN]
    BY <1>0, <1>3 DEF Bolt!Lexists, Bolt!view, Bolt!update, Bolt!lockPath, Bolt!unlockPath,
       Bolt!Open, Bolt!NoEffect, Bolt!Finish, BucketTypes
  <2>3. file' \in Bolt!FileStates
    BY <1>0, <1>3 DEF Bolt!Lexists, Bolt!view, Bolt!update, Bolt!lockPath, Bolt!unlockPath,
       Bolt!Open, Bolt!NoEffect, Bolt!Finish, BucketTypes, Bolt!FileStates
  <2> QED
    BY <1>2, <1>3, <2>1, <2>2, <2>3
<1>4. ASSUME NEW g \in Goroutines, NEW d \in Digests,
             Bolt!RecordDigestUncompressedPair(g, d, TrueUncompressed[d])
      PROVE  BucketInvariant'
  <2>1. /\ uncompressedDigest' = [uncompressedDigest EXCEPT ![d] = TrueUncompressed[d]]
        /\ digestByUncompressed' =
             [digestByUncompressed EXCEPT ![TrueUncompressed[d]] = @ \cup {d}]
        /\ UNCHANGED <<writes, file, uncompressedDigestByTOC, digestCompressor,
                       digestSpecificVariantCompressor, knownLocations, clock>>
    BY <1>4 DEF Bolt!RecordDigestUncompressedPair, Bolt!Commit, Bolt!Finish
  <2>2. TrueUncompressed[d] \in Digests
    BY TruthAssumption
  <2>3. BucketTypes'
    BY <1>0, <2>1, <2>2 DEF BucketTypes
  <2>4. ASSUME NEW u \in Digests
        PROVE  /\ uncompressedDigest'[u] \in {NoDigest, TrueUncompressed[u]}
               /\ digestByUncompressed'[u] = {e \in Digests : uncompressedDigest'[e] = u}
    <3>1. u # NoDigest
      BY DigestsAssumption DEF NoDigest
    <3>2. /\ uncompressedDigest[u] \in {NoDigest, TrueUncompressed[u]}
          /\ uncompressedDigest[d] \in {NoDigest, TrueUncompressed[d]}
          /\ digestByUncompressed[u] = {e \in Digests : uncompressedDigest[e] = u}
      BY <1>0 DEF PairsAgree
    <3> QED
      BY <1>0, <2>1, <2>2, <3>1, <3>2 DEF BucketTypes
  <2> QED
    BY <1>0, <2>1, <2>3, <2>4 DEF BucketInvariant, PairsAgree, CompressorsAgree
<1>5. ASSUME NEW g \in Goroutines, NEW t \in TOCs,
             Bolt!RecordTOCUncompressedPair(g, t, TrueTOC[t])
      PROVE  BucketInvariant'
  <2>1. BucketTypes'
    BY <1>0, <1>5, TruthAssumption
    DEF BucketTypes, Bolt!RecordTOCUncompressedPair, Bolt!Commit, Bolt!Finish
  <2> QED
    BY <1>0, <1>5, <2>1 DEF BucketInvariant, PairsAgree, CompressorsAgree,
       Bolt!RecordTOCUncompressedPair
<1>6. ASSUME NEW g \in Goroutines, NEW sc \in Scopes, NEW d \in Digests, NEW l \in Locations,
             Bolt!RecordKnownLocation(g, sc, d, l)
      PROVE  BucketInvariant'
  <2>1. clock' \in 0..MaxTime /\ clock + 1 \in 0..MaxTime
    BY <1>0, <1>6, TimeAssumption DEF BucketTypes, Bolt!RecordKnownLocation
  <2>2. knownLocations' \in [Scopes \X Digests -> [Locations -> 0..MaxTime]]
    BY <1>0, <1>6, <2>1 DEF BucketTypes, Bolt!RecordKnownLocation
  <2>3. BucketTypes'
    BY <1>0, <1>6, <2>1, <2>2 DEF BucketTypes, Bolt!RecordKnownLocation, Bolt!Commit, Bolt!Finish
  <2> QED
    BY <1>0, <1>6, <2>3 DEF BucketInvariant, PairsAgree, CompressorsAgree,
       Bolt!RecordKnownLocation
<1>7. ASSUME NEW g \in Goroutines, NEW d \in Digests, NEW data \in VerifiedCompressorData(d),
             Bolt!RecordDigestCompressorData(g, d, data)
      PROVE  BucketInvariant'
  <2>1. /\ data.base \in {UnknownCompression, TrueCompressor[d].base}
        /\ data.specific \in {UnknownCompression, TrueCompressor[d].specific}
        /\ data.base = UnknownCompression => data.specific = UnknownCompression
        /\ data.base \in Algorithms \cup {Uncompressed, UnknownCompression}
        /\ data.specific \in Algorithms \cup {UnknownCompression}
    BY TruthAssumption DEF VerifiedCompressorData, NoCompressorData, DigestCompressorData
  <2>2. /\ digestCompressor' = [digestCompressor EXCEPT ![d] = data.base]
        /\ digestSpecificVariantCompressor' =
             [digestSpecificVariantCompressor EXCEPT ![d] =
                IF data.specific # UnknownCompression THEN data.specific
                ELSE IF data.base = UnknownCompression THEN Bolt!NoEntry ELSE @]
        /\ UNCHANGED <<writes, file, uncompressedDigest, uncompressedDigestByTOC,
                       digestByUncompressed, knownLocations, clock>>
    BY <1>7, BoltConstants DEF Bolt!RecordDigestCompressorData, Bolt!Commit, Bolt!Finish
  <2>3. BucketTypes'
    BY <1>0, <2>1, <2>2 DEF BucketTypes
  <2>4. CompressorsAgree'
    BY <1>0, <2>1, <2>2 DEF BucketTypes, CompressorsAgree
  <2> QED
    BY <1>0, <2>2, <2>3, <2>4 DEF BucketInvariant, PairsAgree
<1> QED
  BY <1>1, <1>3, <1>4, <1>5, <1>6, <1>7, BoltConstants DEF Bolt!Next

(* The operators of Prioritize are the same in the cache and in its        *)
(* abstraction.                                                            *)
LEMMA BoltTemplates ==
  ASSUME NEW opts, NEW data
  PROVE  Bolt!Facts!CandidateTemplateWithCompression(opts, data)
         = Bolt!CandidateTemplateWithCompression(opts, data)
<1>1. ASSUME NEW algo
      PROVE  Bolt!Facts!CandidateCompressionMatchesReuseConditions(opts, algo)
             <=> Bolt!CandidateCompressionMatchesReuseConditions(opts, algo)
  BY DEF Bolt!CandidateCompressionMatchesReuseConditions,
     Bolt!Facts!CandidateCompressionMatchesReuseConditions,
     Bolt!MIMETypeSupportsCompressionAlgorithm,
     Bolt!Facts!MIMETypeSupportsCompressionAlgorithm,
     Bolt!CompressionAlgorithmIsUniversallySupported,
     Bolt!Facts!CompressionAlgorithmIsUniversallySupported,
     Bolt!BaseVariantName, Bolt!Facts!BaseVariantName, Bolt!NoAlgorithm,
     Bolt!Facts!NoAlgorithm, Bolt!AnyFormat, Bolt!Facts!AnyFormat, Bolt!OCI, Bolt!Facts!OCI
<1> QED
  BY <1>1 DEF Bolt!CandidateTemplateWithCompression,
     Bolt!Facts!CandidateTemplateWithCompression, Bolt!Algorithms, Bolt!Facts!Algorithms,
     Bolt!NoAlgorithm, Bolt!Facts!NoAlgorithm, Bolt!Uncompressed, Bolt!Facts!Uncompressed,
     Bolt!UnknownCompression, Bolt!Facts!UnknownCompression

(* A digest has the same candidates in both.                               *)
LEMMA BoltCandidates ==
  ASSUME NEW opts, NEW d, NEW data, NEW times
  PROVE  Bolt!Facts!Candidates(opts, d, data, times) = Bolt!Candidates(opts, d, data, times)
<1> DEFINE abstract == Bolt!Facts!CandidateTemplateWithCompression(opts, data)
           concrete == Bolt!CandidateTemplateWithCompression(opts, data)
           known == {l \in DOMAIN times : times[l] > 0}
           Of(algorithms) ==
             IF known # {}
             THEN {[digest |-> d, algorithm |-> a, location |-> l, lastSeen |-> times[l]] :
                     a \in algorithms, l \in known}
             ELSE IF opts.v2
             THEN {[digest |-> d, algorithm |-> a, location |-> Bolt!UnknownLocation,
                    lastSeen |-> 0] : a \in algorithms}
             ELSE {}
<1>1. abstract = concrete
  BY BoltTemplates
<1>2. Bolt!Candidates(opts, d, data, times) = Of(concrete)
  BY DEF Bolt!Candidates
<1>3. Bolt!Facts!Candidates(opts, d, data, times) = Of(abstract)
  BY DEF Bolt!Facts!Candidates, Bolt!UnknownLocation, Bolt!Facts!UnknownLocation
<1> HIDE DEF abstract, concrete, Of
<1> QED
  BY <1>1, <1>2, <1>3

(* Candidates are sorted and cut the same way in both.                     *)
LEMMA BoltPriorities ==
  ASSUME NEW cs, NEW p, NEW u
  PROVE  Bolt!Facts!DestructivelyPrioritizeReplacementCandidates(cs, p, u)
         = Bolt!DestructivelyPrioritizeReplacementCandidates(cs, p, u)
<1>1. \A S : Bolt!Facts!Cardinality(S) = Bolt!Cardinality(S)
  BY DEF Bolt!Facts!Cardinality, Bolt!Cardinality, Bolt!Facts!IsFiniteSet, Bolt!IsFiniteSet
<1>2. Bolt!Facts!Sorted(cs, p, u) = Bolt!Sorted(cs, p, u)
  <2> DEFINE Abstract(i) == CHOOSE x \in cs :
               Bolt!Facts!Cardinality({y \in cs : Bolt!Facts!Before(p, u, y, x)}) = i - 1
             Concrete(i) == CHOOSE x \in cs :
               Bolt!Cardinality({y \in cs : Bolt!Before(p, u, y, x)}) = i - 1
  <2>1. \A x, y : Bolt!Facts!Before(p, u, y, x) <=> Bolt!Before(p, u, y, x)
    BY DEF Bolt!Before, Bolt!Facts!Before, Bolt!NoDigest, Bolt!Facts!NoDigest
  <2>2. \A x : {y \in cs : Bolt!Facts!Before(p, u, y, x)} = {y \in cs : Bolt!Before(p, u, y, x)}
    BY <2>1
  <2>3. \A i, x : Bolt!Facts!Cardinality({y \in cs : Bolt!Facts!Before(p, u, y, x)}) = i - 1
                  <=> Bolt!Cardinality({y \in cs : Bolt!Before(p, u, y, x)}) = i - 1
    BY <1>1, <2>2
  <2>4. \A i : Abstract(i) = Concrete(i)
    BY <2>3, Zenon
  <2>5. Bolt!Sorted(cs, p, u) = [i \in 1..Bolt!Cardinality(cs) |-> Concrete(i)]
    BY DEF Bolt!Sorted
  <2>6. Bolt!Facts!Sorted(cs, p, u) = [i \in 1..Bolt!Facts!Cardinality(cs) |-> Abstract(i)]
    BY DEF Bolt!Facts!Sorted
  <2> HIDE DEF Abstract, Concrete
  <2> QED
    BY <1>1, <2>4, <2>5, <2>6
<1> QED
  BY <1>2 DEF Bolt!DestructivelyPrioritizeReplacementCandidates,
     Bolt!Facts!DestructivelyPrioritizeReplacementCandidates,
     Bolt!MinOf, Bolt!Facts!MinOf, Bolt!UnknownLocation, Bolt!Facts!UnknownLocation

(* Buckets that agree answer every lookup as the recorded facts do.        *)
LEMMA BoltLookups == BucketInvariant => Bolt!LookupsAgree
<1> SUFFICES ASSUME BucketInvariant, NEW p \in Digests
             PROVE  /\ Bolt!uncompressedDigestOf(p) = Bolt!Facts!UncompressedDigest(p)
                    /\ Bolt!uncompressedDigestOf(p) \in {Bolt!NoDigest, TrueUncompressed[p]}
                    /\ Bolt!compressionData(p) \in Bolt!VerifiedCompressorData(p)
                    /\ \A s \in Scopes, sub, v2 \in BOOLEAN :
                         LET opts == [Bolt!NoOptions EXCEPT !.v2 = v2]
                         IN Bolt!candidateLocations(s, p, sub, opts)
                            = Bolt!Facts!CandidateLocations2(s, p, sub, opts)
  BY DEF Bolt!LookupsAgree
<1>0. BucketTypes /\ PairsAgree /\ CompressorsAgree
  BY DEF BucketInvariant
<1>1. Bolt!NoDigest = NoDigest /\ Bolt!Facts!NoDigest = NoDigest
  BY DEF Bolt!NoDigest, Bolt!Facts!NoDigest, NoDigest
<1>2. \A d \in Digests : digestByUncompressed[d] = {e \in Digests : uncompressedDigest[e] = d}
  BY <1>0 DEF PairsAgree
<1>3. Bolt!uncompressedDigestOf(p) = Bolt!Facts!UncompressedDigest(p)
  BY <1>1, <1>2 DEF Bolt!uncompressedDigestOf, Bolt!Facts!UncompressedDigest
<1>4. Bolt!uncompressedDigestOf(p) \in {NoDigest, TrueUncompressed[p]}
  <2>1. ASSUME NEW e \in Digests, uncompressedDigest[e] = p PROVE TrueUncompressed[p] = p
    <3>1. p # NoDigest
      BY DigestsAssumption DEF NoDigest
    <3>2. TrueUncompressed[e] = p
      BY <1>0, <2>1, <3>1 DEF PairsAgree
    <3> QED
      BY <3>2, TruthAssumption
  <2> QED
    BY <1>0, <1>1, <1>2, <2>1 DEF Bolt!uncompressedDigestOf, PairsAgree
<1>5. Bolt!compressionData(p) \in Bolt!VerifiedCompressorData(p)
  <2>1. TrueCompressor[p] \in DigestCompressorData
    BY TruthAssumption
  <2>2. /\ digestCompressor[p] \in {Bolt!NoEntry, UnknownCompression, TrueCompressor[p].base}
        /\ digestSpecificVariantCompressor[p] \in {Bolt!NoEntry, TrueCompressor[p].specific}
        /\ digestSpecificVariantCompressor[p] # Bolt!NoEntry =>
             digestCompressor[p] = TrueCompressor[p].base
    BY <1>0 DEF CompressorsAgree
  <2>3. TrueCompressor[p].base # Bolt!NoEntry /\ TrueCompressor[p].specific # Bolt!NoEntry
    BY <2>1 DEF DigestCompressorData, Algorithms, Uncompressed, UnknownCompression, Bolt!NoEntry
  <2>4. Bolt!compressionData(p) \in VerifiedCompressorData(p)
    BY <2>1, <2>2, <2>3, BoltConstants DEF Bolt!compressionData, VerifiedCompressorData,
       NoCompressorData, DigestCompressorData
  <2> QED
    BY <2>4, BoltConstants
<1>6. ASSUME NEW s \in Scopes, NEW sub \in BOOLEAN, NEW v2 \in BOOLEAN
      PROVE  Bolt!candidateLocations(s, p, sub, [Bolt!NoOptions EXCEPT !.v2 = v2])
             = Bolt!Facts!CandidateLocations2(s, p, sub, [Bolt!NoOptions EXCEPT !.v2 = v2])
  <2> DEFINE opts == [Bolt!NoOptions EXCEPT !.v2 = v2]
             u == IF sub THEN Bolt!uncompressedDigestOf(p) ELSE Bolt!NoDigest
             digests == {p} \cup (IF u # Bolt!NoDigest THEN digestByUncompressed[u] \cup {u}
                                  ELSE {})
             compressors == [d \in Digests |-> Bolt!compressionData(d)]
             Concrete(d) == Bolt!Candidates(opts, d, Bolt!compressionData(d),
                                            knownLocations[<<s, d>>])
             Abstract(d) == Bolt!Facts!Candidates(opts, d, compressors[d],
                                                  knownLocations[<<s, d>>])
  <2>1. u # NoDigest => u \in Digests
    BY <1>1, <1>4, TruthAssumption
  <2>2. digests = Bolt!Facts!CandidateDigests(p, sub)
    BY <1>1, <1>2, <1>3, <2>1 DEF Bolt!Facts!CandidateDigests
  <2>3. digests \subseteq Digests
    BY <1>0, <1>1, <2>1 DEF BucketTypes
  <2>4. ASSUME NEW d \in digests PROVE Abstract(d) = Concrete(d)
    BY <2>3, BoltCandidates
  <2>5. Bolt!candidateLocations(s, p, sub, opts)
        = Bolt!DestructivelyPrioritizeReplacementCandidates(
            UNION {Concrete(d) : d \in digests}, p, u)
    BY DEF Bolt!candidateLocations
  <2>6. Bolt!Facts!CandidateLocations2(s, p, sub, opts)
        = Bolt!Facts!DestructivelyPrioritizeReplacementCandidates(
            UNION {Abstract(d) : d \in digests}, p, u)
    BY <1>1, <1>3, <2>2 DEF Bolt!Facts!CandidateLocations2
  <2> HIDE DEF opts, u, digests, Abstract, Concrete
  <2>7. UNION {Abstract(d) : d \in digests} = UNION {Concrete(d) : d \in digests}
    BY <2>4
  <2>8. Bolt!candidateLocations(s, p, sub, opts)
        = Bolt!Facts!CandidateLocations2(s, p, sub, opts)
    BY <2>5, <2>6, <2>7, BoltPriorities
  <2> QED
    BY <2>8 DEF opts
<1> QED
  BY <1>1, <1>3, <1>4, <1>5, <1>6

(* What the two invariants say of the cache.                               *)
LEMMA BoltInvariants == LockInvariant /\ BucketInvariant => Bolt!BoltIsSound
<1> SUFFICES ASSUME LockInvariant, BucketInvariant PROVE Bolt!BoltIsSound
  OBVIOUS
<1>1. \A S : Bolt!Cardinality(S) = Cardinality(S)
  BY DEF Bolt!Cardinality, Cardinality, Bolt!IsFiniteSet, IsFiniteSet
<1>2. Bolt!TypeOK
  BY <1>1, BoltConstants DEF Bolt!TypeOK, LockInvariant, LockTypes, BucketInvariant, BucketTypes
<1>3. Bolt!OneAtATime
  BY OwnerIsUnique DEF Bolt!OneAtATime
<1>4. Bolt!UnlockIsPossible
  BY <1>1 DEF Bolt!UnlockIsPossible, LockInvariant, LockIsCounted, OwnersHold, Users
<1> QED
  BY <1>2, <1>3, <1>4, BoltLookups DEF Bolt!BoltIsSound

(* However many goroutines come and go, at most one uses the database, the *)
(* lock it took is the one it releases, and the buckets answer what was    *)
(* recorded since the file was created.                                    *)
THEOREM BoltSound == Spec => []BoltIsSound
<1> DEFINE Inv == part = "bolt" => LockInvariant /\ BucketInvariant
<1>1. Init => Inv
  <2>1. Bolt!Init => LockInvariant
    <3> SUFFICES ASSUME Bolt!Init PROVE LockInvariant
      OBVIOUS
    <3>1. LockTypes
      BY UsersAreCounted, BoltAssumption DEF Bolt!Init, LockTypes, Bolt!PCs
    <3>2. Users = {} /\ Bolt!Owning = {}
      BY DEF Bolt!Init, Users, Bolt!Owning
    <3> QED
      BY <3>1, <3>2 DEF Bolt!Init, LockInvariant, LockIsCounted, OwnersHold, Users, UsingPCs
  <2>2. Bolt!Init => BucketInvariant
    <3> SUFFICES ASSUME Bolt!Init PROVE BucketInvariant
      OBVIOUS
    <3>1. BucketTypes
      BY BoltConstants, TimeAssumption DEF Bolt!Init, BucketTypes, Bolt!NoBucket,
         Bolt!NoLocations, Bolt!FileStates
    <3>2. PairsAgree /\ CompressorsAgree
      BY BoltConstants, EmptyBuckets DEF Bolt!Init
    <3> QED
      BY <3>1, <3>2 DEF BucketInvariant
  <2> QED
    BY <2>1, <2>2 DEF Init, boltInit
<1>2. Inv /\ [Next]_vars => Inv'
  <2> SUFFICES ASSUME Inv, [Next]_vars, part' = "bolt"
               PROVE  LockInvariant' /\ BucketInvariant'
    OBVIOUS
  <2>1. CASE BoltStep
    BY <2>1, LockNext, BucketNext DEF BoltStep
  <2>2. CASE UNCHANGED <<part, boltVars>>
    <3>1. LockInvariant'
      BY <2>2 DEF boltVars, LockInvariant, LockTypes, LockIsCounted, OwnersHold, Users,
         Bolt!Owning
    <3>2. BucketInvariant'
      BY <2>2 DEF boltVars, BucketInvariant, BucketTypes, PairsAgree, CompressorsAgree
    <3> QED
      BY <3>1, <3>2
  <2> QED
    BY <2>1, <2>2 DEF Next, vars, DownloadStep, ChunksStep, UploadStep, SignaturesStep,
       LayoutStep, MayStop
<1>3. Inv => BoltIsSound
  BY BoltInvariants DEF BoltIsSound
<1> QED
  BY <1>1, <1>2, <1>3, PTL DEF Spec

-----------------------------------------------------------------------------
(* The signatures of a manifest *)

(* The first n files of d hold the first n signatures of the list.         *)
Holds(d, n, sigs) == \A i \in 0..(n - 1) : lookaside[d][i] = {sigs[i + 1]}

(* A source that has read n files of d stops.                              *)
EndsAt(d, n) == n > MaxFiles \/ lookaside[d][n] = {}

CallIsKnown ==
  /\ call.sigs \in Lists \cup {<<>>}
  /\ sigsPC \notin {"idle", "ended", "failed"} => call.digest \in Manifests
  /\ sigsPC \in {"idle", "manifest"} => sigsIndex = 0
  /\ sigsPC = "manifest" => call.sigs = <<>>
  /\ sigsPC = "extend" => sigsIndex <= Len(call.sigs)

(* Files are written from the first to the last of the list; then files    *)
(* left over are removed, the one after the list first, which ends what a  *)
(* source reads wherever the removal stops.                                *)
FilesAreWritten ==
  /\ sigsPC = "write" =>
       /\ sigsIndex <= Len(call.sigs)
       /\ Holds(call.digest, sigsIndex, call.sigs)
  /\ sigsPC = "clear" =>
       /\ Len(call.sigs) <= sigsIndex
       /\ Holds(call.digest, Len(call.sigs), call.sigs)
       /\ Len(call.sigs) < sigsIndex => EndsAt(call.digest, Len(call.sigs))
  /\ sigsPC \in {"write", "clear"} => ~written[call.digest].known
  /\ \A d \in Manifests : written[d].known =>
       /\ Holds(d, Len(written[d].sigs), written[d].sigs)
       /\ EndsAt(d, Len(written[d].sigs))

(* What was read before a write is still there when it is replaced, unless *)
(* two destinations write at once.                                         *)
SharedPlaces(d) ==
  (IF config.extension THEN extension[d] ELSE {}) \cup (IF config.attachments THEN attached[d] ELSE {})
SharedIsRead ==
  /\ sigsPC = "upload" =>
       /\ config.attachments
       /\ call.digest \notin overlapped =>
            attached[call.digest] \subseteq fetched /\ other.digest # call.digest
  /\ other # Sigs!Nothing =>
       /\ config.attachments /\ other.digest \in Manifests
       /\ other.digest \notin overlapped => attached[other.digest] \subseteq other.sigs
  /\ sigsPC = "extend" => config.extension /\ fetched \subseteq extension[call.digest]
  /\ \A d \in Manifests \ overlapped : kept[d] \subseteq SharedPlaces(d)

SignaturesInvariant == Sigs!TypeOK /\ CallIsKnown /\ FilesAreWritten /\ SharedIsRead

(* The lists are short enough for the files there can be.                  *)
LEMMA ListFacts ==
  ASSUME SignaturesInvariant
  PROVE  /\ call.sigs \in Seq(Signatures) /\ Len(call.sigs) \in Nat /\ Len(call.sigs) <= MaxFiles + 1
         /\ MaxFiles \in Nat /\ sigsIndex \in Nat
         /\ \A k \in 1..Len(call.sigs) : call.sigs[k] \in Signatures
<1>1. call.sigs \in Seq(Signatures) /\ sigsIndex \in Nat /\ MaxFiles \in Nat
  BY SignaturesAssumption DEF SignaturesInvariant, Sigs!TypeOK
<1>2. CASE call.sigs \in Lists
  BY <1>1, <1>2, SignaturesAssumption
<1>3. CASE call.sigs = <<>>
  BY <1>1, <1>3
<1> QED
  BY <1>1, <1>2, <1>3 DEF SignaturesInvariant, CallIsKnown

(* A new registry has no signatures.                                       *)
LEMMA SignaturesInit == Sigs!Init => SignaturesInvariant
<1> SUFFICES ASSUME Sigs!Init PROVE SignaturesInvariant
  OBVIOUS
<1> USE DEF Sigs!Init
<1>1. <<>> \in Seq(Signatures)
  OBVIOUS
<1>2. Sigs!Unknown \in [known : BOOLEAN, sigs : Seq(Signatures)] /\ ~Sigs!Unknown.known
  BY <1>1 DEF Sigs!Unknown
<1>3. Sigs!TypeOK
  BY <1>1, <1>2, SignaturesAssumption DEF Sigs!TypeOK, Sigs!NoCall, Sigs!Nothing
<1>4. CallIsKnown /\ FilesAreWritten /\ SharedIsRead
  BY <1>2 DEF CallIsKnown, FilesAreWritten, SharedIsRead, SharedPlaces, Sigs!NoCall, Sigs!Nothing
<1> QED
  BY <1>3, <1>4 DEF SignaturesInvariant

(* Calls that begin and end, manifests that are put and deleted.           *)
LEMMA CallsKeep ==
  ASSUME SignaturesInvariant,
         \/ \E d \in Manifests : Sigs!PutManifest(d)
         \/ \E d, m \in Manifests : Sigs!PutInstance(d, m)
         \/ \E sigs \in Lists, i \in Manifests \cup {NoManifest} : Sigs!PutSignatures(sigs, i)
         \/ Sigs!Fail \/ Sigs!Returned \/ Sigs!Delete
         \/ UNCHANGED signaturesVars
  PROVE  SignaturesInvariant'
<1> Sigs!TypeOK /\ CallIsKnown /\ FilesAreWritten /\ SharedIsRead
  BY DEF SignaturesInvariant
<1>1. /\ UNCHANGED <<config, lookaside, attached, extension, written, kept, other, overlapped>>
      /\ fetched' \in SUBSET Signatures
      /\ sigsPC' \in {"idle", "attach", "others", "manifest", "failed"} \/ UNCHANGED <<sigsPC, call, sigsIndex, fetched>>
  BY DEF Sigs!PutManifest, Sigs!PutInstance, Sigs!PutSignatures, Sigs!Fail, Sigs!Returned, Sigs!Delete,
     Sigs!End, Sigs!store, Sigs!others, signaturesVars, Sigs!TypeOK
<1>2. FilesAreWritten'
  BY <1>1 DEF FilesAreWritten, Holds, EndsAt
<1>3. SharedIsRead'
  BY <1>1 DEF SharedIsRead, SharedPlaces
<1>4. ASSUME NEW d, NEW op, NEW sigs, d \in Manifests \cup {NoManifest}, op \in {"none", "put", "delete"},
             sigs \in Lists \cup {<<>>}, call' = [op |-> op, digest |-> d, sigs |-> sigs]
      PROVE  /\ call'.op \in {"none", "put", "delete"} /\ call'.digest = d
             /\ call'.sigs \in Seq(Signatures) /\ call'.sigs \in Lists \cup {<<>>}
  <2>1. <<>> \in Seq(Signatures)
    OBVIOUS
  <2>2. sigs \in Seq(Signatures)
    BY <1>4, <2>1, SignaturesAssumption
  <2> QED
    BY <1>4, <2>2
<1>5. CASE \E d \in Manifests : Sigs!PutManifest(d) \/ \E m \in Manifests : Sigs!PutInstance(d, m)
  <2>1. /\ UNCHANGED <<config, lookaside, attached, extension, call, sigsIndex, fetched, written, kept>>
        /\ sigsPC' = sigsPC \/ (sigsPC = "idle" /\ sigsPC' = "failed")
        /\ manifests' \in SUBSET Manifests /\ tag' \in Manifests \cup {NoManifest}
        /\ manifestDigest' \in Manifests \cup {NoManifest} /\ calls' \in 0..MaxCalls
    BY <1>5, SignaturesAssumption DEF Sigs!PutManifest, Sigs!PutInstance, Sigs!End, Sigs!TypeOK
  <2> QED
    BY <1>1, <1>2, <1>3, <2>1, SMTT(30) DEF SignaturesInvariant, Sigs!TypeOK, CallIsKnown
<1>6. CASE \E sigs \in Lists, i \in Manifests \cup {NoManifest} : Sigs!PutSignatures(sigs, i)
  <2> PICK sigs \in Lists, i \in Manifests \cup {NoManifest} : Sigs!PutSignatures(sigs, i)
    BY <1>6
  <2> DEFINE d == IF i # NoManifest THEN i ELSE manifestDigest
  <2>1. d \in Manifests \cup {NoManifest}
    BY DEF Sigs!TypeOK
  <2>2. /\ UNCHANGED <<config, tag, manifests, lookaside, attached, extension, manifestDigest, sigsIndex,
                       fetched, written, kept>>
        /\ call' = [op |-> "put", digest |-> d, sigs |-> sigs]
        /\ sigsPC' \in {"failed", "attach", "others"}
        /\ sigsPC' # "failed" => d \in Manifests
        /\ calls' \in 0..MaxCalls
    BY <2>1, SignaturesAssumption DEF Sigs!PutSignatures, Sigs!store, Sigs!TypeOK
  <2> HIDE DEF d
  <2>3. /\ call'.op \in {"none", "put", "delete"} /\ call'.digest = d
        /\ call'.sigs \in Seq(Signatures) /\ call'.sigs \in Lists \cup {<<>>}
    BY <1>4, <2>1, <2>2
  <2>4. Sigs!TypeOK'
    BY <1>1, <2>1, <2>2, <2>3 DEF Sigs!TypeOK
  <2> QED
    BY <1>2, <1>3, <2>2, <2>3, <2>4 DEF SignaturesInvariant, CallIsKnown
<1>7. CASE Sigs!Fail
  BY <1>1, <1>2, <1>3, <1>7 DEF Sigs!Fail, Sigs!End, Sigs!store, SignaturesInvariant, Sigs!TypeOK, CallIsKnown
<1>8. CASE Sigs!Returned
  <2>1. /\ UNCHANGED <<config, tag, manifests, lookaside, attached, extension, manifestDigest, written, kept, calls>>
        /\ call' = [op |-> "none", digest |-> NoManifest, sigs |-> <<>>]
        /\ sigsPC' = "idle" /\ sigsIndex' = 0 /\ fetched' = {}
    BY <1>8 DEF Sigs!Returned, Sigs!store, Sigs!NoCall
  <2>2. /\ call'.op \in {"none", "put", "delete"} /\ call'.digest = NoManifest
        /\ call'.sigs \in Seq(Signatures) /\ call'.sigs \in Lists \cup {<<>>}
    BY <1>4, <2>1
  <2>3. Sigs!TypeOK'
    BY <1>1, <2>1, <2>2 DEF Sigs!TypeOK
  <2> QED
    BY <1>2, <1>3, <2>1, <2>2, <2>3 DEF SignaturesInvariant, CallIsKnown
<1>9. CASE Sigs!Delete
  <2>1. /\ UNCHANGED <<config, tag, manifests, lookaside, attached, extension, manifestDigest, sigsIndex,
                       fetched, written, kept>>
        /\ call' = [op |-> "delete", digest |-> tag, sigs |-> <<>>]
        /\ sigsPC = "idle" /\ sigsPC' = "manifest" /\ tag \in Manifests /\ calls' \in 0..MaxCalls
    BY <1>9, SignaturesAssumption DEF Sigs!Delete, Sigs!store, Sigs!TypeOK
  <2>2. /\ call'.op \in {"none", "put", "delete"} /\ call'.digest = tag
        /\ call'.sigs \in Seq(Signatures) /\ call'.sigs \in Lists \cup {<<>>}
    BY <1>4, <2>1
  <2>3. Sigs!TypeOK'
    BY <1>1, <2>1, <2>2 DEF Sigs!TypeOK
  <2> QED
    BY <1>2, <1>3, <2>1, <2>2, <2>3 DEF SignaturesInvariant, CallIsKnown
<1>10. CASE UNCHANGED signaturesVars
  BY <1>1, <1>2, <1>3, <1>10 DEF signaturesVars, SignaturesInvariant, Sigs!TypeOK, CallIsKnown
<1> QED
  BY <1>5, <1>6, <1>7, <1>8, <1>9, <1>10

(* Signatures in places shared with others are only added to, unless two   *)
(* destinations write at once.                                             *)
LEMMA SharedKeeps ==
  ASSUME SignaturesInvariant,
         \/ Sigs!Attach \/ Sigs!UploadAttachments \/ Sigs!Others \/ Sigs!Extend \/ Sigs!DeleteManifest
         \/ \E d \in Manifests : Sigs!OtherAttaches(d)
         \/ \E s \in Sigstore : Sigs!OtherUploads(s)
         \/ Sigs!OtherFails
  PROVE  SignaturesInvariant'
<1> Sigs!TypeOK /\ CallIsKnown /\ FilesAreWritten /\ SharedIsRead
  BY DEF SignaturesInvariant
<1>1. Sigs!Unknown \in [known : BOOLEAN, sigs : Seq(Signatures)] /\ ~Sigs!Unknown.known
  BY DEF Sigs!Unknown
<1>2. /\ Len(call.sigs) \in Nat /\ sigsIndex \in Nat /\ call.sigs \in Seq(Signatures)
      /\ \A k \in 1..Len(call.sigs) : call.sigs[k] \in Signatures
  BY ListFacts
<1>3. Sigs!SigstoreOf(call.sigs) \subseteq Signatures
  BY <1>2 DEF Sigs!SigstoreOf
<1>4. CASE Sigs!Attach
  <2>1. /\ UNCHANGED <<config, tag, manifests, lookaside, attached, extension, manifestDigest, call, sigsIndex,
                       written, kept, calls, other>>
        /\ sigsPC = "attach" /\ call.digest \in Manifests
        /\ \/ /\ sigsPC' = "upload" /\ config.attachments /\ fetched' = attached[call.digest]
              /\ overlapped' = overlapped \cup ({call.digest} \cap {other.digest})
           \/ sigsPC' = "failed" /\ fetched' = fetched /\ overlapped' = overlapped
    BY <1>4 DEF Sigs!Attach, Sigs!End, Sigs!store, CallIsKnown
  <2>2. Sigs!TypeOK' /\ CallIsKnown'
    <3>1. /\ overlapped' \in SUBSET Manifests /\ sigsPC' \in {"upload", "failed"}
          /\ fetched' \in SUBSET Signatures
      BY <2>1 DEF Sigs!TypeOK
    <3> QED
      BY <2>1, <3>1 DEF Sigs!TypeOK, CallIsKnown
  <2>3. SharedIsRead'
    BY <2>1 DEF SharedIsRead, SharedPlaces
  <2>4. FilesAreWritten'
    BY <2>1 DEF FilesAreWritten, Holds, EndsAt
  <2> QED
    BY <2>2, <2>3, <2>4 DEF SignaturesInvariant
<1>5. CASE Sigs!UploadAttachments
  <2>1. /\ UNCHANGED <<config, tag, manifests, lookaside, extension, manifestDigest, call, sigsIndex,
                       fetched, written, calls, other, overlapped>>
        /\ sigsPC = "upload" /\ sigsPC' = "others" /\ call.digest \in Manifests
        /\ attached' = [attached EXCEPT ![call.digest] = fetched \cup Sigs!SigstoreOf(call.sigs)]
        /\ kept' = [kept EXCEPT ![call.digest] = @ \cup Sigs!SigstoreOf(call.sigs)]
    BY <1>5 DEF Sigs!UploadAttachments, Sigs!others, CallIsKnown
  <2>2. Sigs!TypeOK'
    BY <1>3, <2>1 DEF Sigs!TypeOK
  <2>3. \A d \in Manifests \ overlapped : /\ attached[d] \subseteq attached'[d]
                                          /\ kept'[d] \subseteq kept[d] \cup attached'[d]
    BY <1>3, <2>1 DEF Sigs!TypeOK, SharedIsRead
  <2>4. SharedIsRead'
    <3>1. \A d \in Manifests : d # call.digest => attached'[d] = attached[d]
      BY <2>1 DEF Sigs!TypeOK
    <3>2. other # Sigs!Nothing /\ other.digest \notin overlapped => other.digest # call.digest
      BY <2>1 DEF SharedIsRead
    <3> QED
      BY <2>1, <2>3, <3>1, <3>2 DEF SharedIsRead, SharedPlaces
  <2> QED
    BY <2>1, <2>2, <2>4 DEF SignaturesInvariant, FilesAreWritten, Holds, EndsAt, CallIsKnown
<1>6. CASE Sigs!Others
  <2>1. /\ UNCHANGED <<config, tag, manifests, lookaside, attached, extension, manifestDigest, call, kept, calls,
                       other, overlapped>>
        /\ sigsPC = "others" /\ sigsIndex' = 0 /\ call.digest \in Manifests
        /\ \/ sigsPC' = "ended" /\ UNCHANGED <<fetched, written>>
           \/ sigsPC' = "extend" /\ config.extension /\ fetched' = extension[call.digest] /\ UNCHANGED written
           \/ sigsPC' = "write" /\ written' = [written EXCEPT ![call.digest] = Sigs!Unknown] /\ UNCHANGED fetched
    BY <1>6 DEF Sigs!Others, Sigs!End, Sigs!store, Sigs!others, CallIsKnown
  <2>2. Sigs!TypeOK' /\ CallIsKnown'
    <3>0. [written EXCEPT ![call.digest] = Sigs!Unknown] \in [Manifests -> [known : BOOLEAN, sigs : Seq(Signatures)]]
      BY <1>1 DEF Sigs!TypeOK
    <3>1. /\ sigsPC' \in {"ended", "extend", "write"} /\ fetched' \in SUBSET Signatures
          /\ written' \in [Manifests -> [known : BOOLEAN, sigs : Seq(Signatures)]]
      BY <2>1, <3>0 DEF Sigs!TypeOK
    <3>2. CallIsKnown'
      BY <1>2, <2>1, <3>1 DEF CallIsKnown
    <3> QED
      BY <2>1, <3>1, <3>2 DEF Sigs!TypeOK
  <2>3. SharedIsRead'
    BY <2>1 DEF SharedIsRead, SharedPlaces
  <2>4. /\ \A d \in Manifests : written'[d].known => written'[d] = written[d] /\ written[d].known
        /\ sigsPC' = "write" => ~written'[call.digest].known
    BY <1>1, <2>1 DEF Sigs!TypeOK
  <2>5. ASSUME NEW d \in Manifests, written'[d].known
        PROVE  (Holds(d, Len(written[d].sigs), written[d].sigs) /\ EndsAt(d, Len(written[d].sigs)))'
    <3>1. Holds(d, Len(written[d].sigs), written[d].sigs) /\ EndsAt(d, Len(written[d].sigs))
      BY <2>4, <2>5 DEF FilesAreWritten
    <3>2. written'[d] = written[d] /\ lookaside' = lookaside
      BY <2>1, <2>4, <2>5
    <3> QED
      BY <3>1, <3>2 DEF Holds, EndsAt
  <2>6. sigsPC' = "write" => Holds(call.digest, 0, call.sigs)'
    BY DEF Holds
  <2>7. FilesAreWritten'
    BY <1>2, <2>1, <2>4, <2>5, <2>6 DEF FilesAreWritten
  <2> QED
    BY <2>2, <2>3, <2>7 DEF SignaturesInvariant
<1>7. CASE Sigs!Extend
  <2>1. /\ UNCHANGED <<config, tag, manifests, lookaside, attached, manifestDigest, call, fetched, written, calls,
                       other, overlapped>>
        /\ sigsPC = "extend" /\ sigsPC' \in {"extend", "ended", "failed"} /\ call.digest \in Manifests
        /\ \/ UNCHANGED <<extension, sigsIndex, kept>>
           \/ /\ sigsIndex # Len(call.sigs)
              /\ extension' = [extension EXCEPT ![call.digest] = @ \cup ({call.sigs[sigsIndex + 1]} \ fetched)]
              /\ kept' = [kept EXCEPT ![call.digest] = @ \cup {call.sigs[sigsIndex + 1]}]
              /\ sigsIndex' = sigsIndex + 1
    BY <1>7 DEF Sigs!Extend, Sigs!End, Sigs!others, CallIsKnown
  <2>2. FilesAreWritten'
    BY <2>1 DEF FilesAreWritten, Holds, EndsAt
  <2>3. CASE UNCHANGED <<extension, sigsIndex, kept>>
    BY <2>1, <2>2, <2>3 DEF SignaturesInvariant, Sigs!TypeOK, CallIsKnown, SharedIsRead, SharedPlaces
  <2>4. CASE ~UNCHANGED <<extension, sigsIndex, kept>>
    <3>1. /\ sigsIndex + 1 \in 1..Len(call.sigs) /\ sigsIndex + 1 \in Nat
          /\ call.sigs[sigsIndex + 1] \in Signatures
      BY <1>2, <2>1, <2>4 DEF CallIsKnown
    <3> DEFINE s == call.sigs[sigsIndex + 1]
    <3> HIDE DEF s
    <3>2. /\ extension' = [extension EXCEPT ![call.digest] = @ \cup ({s} \ fetched)]
          /\ kept' = [kept EXCEPT ![call.digest] = @ \cup {s}]
          /\ sigsIndex' = sigsIndex + 1 /\ s \in Signatures
      BY <2>1, <2>4, <3>1 DEF s
    <3>3. Sigs!TypeOK' /\ CallIsKnown'
      BY <1>2, <2>1, <3>1, <3>2 DEF Sigs!TypeOK, CallIsKnown
    <3>4. \A d \in Manifests : extension[d] \subseteq extension'[d] /\ kept'[d] \subseteq kept[d] \cup extension'[d]
      BY <2>1, <3>2 DEF Sigs!TypeOK, SharedIsRead
    <3>5. SharedIsRead'
      BY <2>1, <3>4 DEF SharedIsRead, SharedPlaces
    <3> QED
      BY <2>2, <3>3, <3>5 DEF SignaturesInvariant
  <2> QED
    BY <2>3, <2>4
<1>8. CASE Sigs!DeleteManifest
  <2>1. /\ UNCHANGED <<config, lookaside, attached, extension, manifestDigest, call, sigsIndex, fetched, kept, calls,
                       other, overlapped>>
        /\ sigsPC = "manifest" /\ sigsPC' = "clear" /\ call.digest \in Manifests
        /\ sigsIndex = 0 /\ Len(call.sigs) = 0
        /\ manifests' \subseteq manifests /\ tag' \in {tag, NoManifest}
        /\ written' = [written EXCEPT ![call.digest] = Sigs!Unknown]
    BY <1>8 DEF Sigs!DeleteManifest, Sigs!others, CallIsKnown
  <2>2. Sigs!TypeOK' /\ CallIsKnown'
    BY <1>1, <2>1 DEF Sigs!TypeOK, CallIsKnown
  <2>3. SharedIsRead'
    BY <2>1 DEF SharedIsRead, SharedPlaces
  <2>4. /\ \A d \in Manifests : written'[d].known => written'[d] = written[d] /\ written[d].known
        /\ ~written'[call.digest].known
    BY <1>1, <2>1 DEF Sigs!TypeOK
  <2>5. ASSUME NEW d \in Manifests, written'[d].known
        PROVE  (Holds(d, Len(written[d].sigs), written[d].sigs) /\ EndsAt(d, Len(written[d].sigs)))'
    <3>1. Holds(d, Len(written[d].sigs), written[d].sigs) /\ EndsAt(d, Len(written[d].sigs))
      BY <2>4, <2>5 DEF FilesAreWritten
    <3>2. written'[d] = written[d] /\ lookaside' = lookaside
      BY <2>1, <2>4, <2>5
    <3> QED
      BY <3>1, <3>2 DEF Holds, EndsAt
  <2>6. sigsPC' = "clear" => Holds(call.digest, 0, call.sigs)'
    BY DEF Holds
  <2>7. FilesAreWritten'
    BY <1>2, <2>1, <2>4, <2>5, <2>6 DEF FilesAreWritten
  <2> QED
    BY <2>2, <2>3, <2>7 DEF SignaturesInvariant
<1>9. ASSUME NEW d \in Manifests, Sigs!OtherAttaches(d) PROVE SignaturesInvariant'
  <2>1. /\ UNCHANGED <<config, tag, manifests, lookaside, attached, extension, manifestDigest, call, sigsPC,
                       sigsIndex, fetched, written, kept>>
        /\ config.attachments /\ other = Sigs!Nothing /\ calls' \in 0..MaxCalls
        /\ other' = [digest |-> d, sigs |-> attached[d]]
        /\ overlapped' = IF sigsPC = "upload" THEN overlapped \cup ({d} \cap {call.digest}) ELSE overlapped
    BY <1>9, SignaturesAssumption DEF Sigs!OtherAttaches, Sigs!store, Sigs!TypeOK
  <2>2. /\ other' \in [digest : Manifests \cup {NoManifest}, sigs : SUBSET Signatures]
        /\ other'.digest = d /\ other'.sigs = attached[d]
        /\ overlapped \subseteq overlapped' /\ overlapped' \in SUBSET Manifests
        /\ sigsPC = "upload" /\ call.digest = d => d \in overlapped'
    BY <2>1 DEF Sigs!TypeOK
  <2>3. Sigs!TypeOK' /\ CallIsKnown'
    BY <2>1, <2>2 DEF Sigs!TypeOK, CallIsKnown
  <2>4. SharedIsRead'
    BY <2>1, <2>2 DEF SharedIsRead, SharedPlaces
  <2>5. FilesAreWritten'
    BY <2>1 DEF FilesAreWritten, Holds, EndsAt
  <2> QED
    BY <2>3, <2>4, <2>5 DEF SignaturesInvariant
<1>10. ASSUME NEW s \in Sigstore, Sigs!OtherUploads(s) PROVE SignaturesInvariant'
  <2>1. /\ UNCHANGED <<config, tag, manifests, lookaside, extension, manifestDigest, call, sigsPC,
                       sigsIndex, fetched, overlapped, written, calls>>
        /\ other # Sigs!Nothing /\ other' = Sigs!Nothing /\ other.digest \in Manifests /\ config.attachments
        /\ attached' = [attached EXCEPT ![other.digest] = other.sigs \cup {s}]
        /\ kept' = [kept EXCEPT ![other.digest] = @ \cup {s}]
    BY <1>10 DEF Sigs!OtherUploads, SharedIsRead
  <2>2. s \in Signatures
    BY SignaturesAssumption
  <2>3. Sigs!TypeOK' /\ CallIsKnown'
    BY <2>1, <2>2 DEF Sigs!TypeOK, Sigs!Nothing, CallIsKnown
  <2>4. \A d \in Manifests \ overlapped : /\ attached[d] \subseteq attached'[d]
                                          /\ kept'[d] \subseteq kept[d] \cup attached'[d]
                                          /\ d # other.digest => attached'[d] = attached[d]
    BY <2>1 DEF Sigs!TypeOK, SharedIsRead
  <2>5. SharedIsRead'
    <3>1. sigsPC = "upload" /\ call.digest \notin overlapped => attached'[call.digest] = attached[call.digest]
      BY <2>1 DEF SharedIsRead, Sigs!TypeOK
    <3>2. sigsPC = "upload" => call.digest # other'.digest
      BY <2>1, SignaturesAssumption DEF CallIsKnown, Sigs!Nothing
    <3> QED
      BY <2>1, <2>4, <3>1, <3>2 DEF SharedIsRead, SharedPlaces
  <2>6. FilesAreWritten'
    BY <2>1 DEF FilesAreWritten, Holds, EndsAt
  <2> QED
    BY <2>3, <2>5, <2>6 DEF SignaturesInvariant
<1>11. CASE Sigs!OtherFails
  <2>1. /\ UNCHANGED <<config, tag, manifests, lookaside, attached, extension, manifestDigest, call, sigsPC,
                       sigsIndex, fetched, overlapped, written, kept, calls>>
        /\ other' = Sigs!Nothing
    BY <1>11 DEF Sigs!OtherFails, Sigs!store
  <2>2. Sigs!TypeOK' /\ CallIsKnown'
    BY <2>1 DEF Sigs!TypeOK, Sigs!Nothing, CallIsKnown
  <2>3. SharedIsRead'
    <3>1. sigsPC = "upload" => call.digest # other'.digest
      BY <2>1, SignaturesAssumption DEF CallIsKnown, Sigs!Nothing
    <3> QED
      BY <2>1, <3>1 DEF SharedIsRead, SharedPlaces
  <2>4. FilesAreWritten'
    BY <2>1 DEF FilesAreWritten, Holds, EndsAt
  <2> QED
    BY <2>2, <2>3, <2>4 DEF SignaturesInvariant
<1> QED
  BY <1>4, <1>5, <1>6, <1>7, <1>8, <1>9, <1>10, <1>11

(* The files of one manifest are written and removed.                      *)
LEMMA FilesKeep ==
  ASSUME SignaturesInvariant, Sigs!WriteFile \/ Sigs!Clear
  PROVE  SignaturesInvariant'
<1> Sigs!TypeOK /\ CallIsKnown /\ FilesAreWritten /\ SharedIsRead
  BY DEF SignaturesInvariant
<1> DEFINE d == call.digest
           n == Len(call.sigs)
<1>1. /\ n \in Nat /\ n <= MaxFiles + 1 /\ MaxFiles \in Nat /\ sigsIndex \in Nat
      /\ call.sigs \in Seq(Signatures) /\ \A k \in 1..n : call.sigs[k] \in Signatures
  BY ListFacts
<1>2. /\ UNCHANGED <<config, tag, manifests, attached, extension, manifestDigest, call, fetched, kept, calls,
                     other, overlapped>>
      /\ sigsPC \in {"write", "clear"} /\ sigsPC' \in {"write", "clear", "ended"}
      /\ d \in Manifests /\ ~written[d].known
  BY DEF Sigs!WriteFile, Sigs!Clear, Sigs!End, Sigs!others, CallIsKnown, FilesAreWritten
<1>3. SharedIsRead' /\ CallIsKnown'
  BY <1>2 DEF SharedIsRead, SharedPlaces, CallIsKnown
<1>4. ASSUME lookaside' \in [Manifests -> [Sigs!Index -> SUBSET Signatures]], sigsIndex' \in Nat,
             written' \in [Manifests -> [known : BOOLEAN, sigs : Seq(Signatures)]]
      PROVE  Sigs!TypeOK'
  BY <1>2, <1>4, SMTT(30) DEF Sigs!TypeOK
<1>5. ASSUME NEW i \in Sigs!Index, NEW f \in SUBSET Signatures,
             lookaside' = [lookaside EXCEPT ![d][i] = f], written' = written
      PROVE  /\ lookaside' \in [Manifests -> [Sigs!Index -> SUBSET Signatures]]
             /\ lookaside'[d][i] = f
             /\ \A k \in Sigs!Index : k # i => lookaside'[d][k] = lookaside[d][k]
             /\ \A e \in Manifests : written'[e].known =>
                  (Holds(e, Len(written[e].sigs), written[e].sigs) /\ EndsAt(e, Len(written[e].sigs)))'
  <2>1. /\ lookaside' \in [Manifests -> [Sigs!Index -> SUBSET Signatures]]
        /\ lookaside'[d][i] = f
        /\ \A k \in Sigs!Index : k # i => lookaside'[d][k] = lookaside[d][k]
        /\ \A e \in Manifests : e # d => lookaside'[e] = lookaside[e]
    BY <1>2, <1>5 DEF Sigs!TypeOK
  <2>2. ASSUME NEW e \in Manifests, written'[e].known
        PROVE  (Holds(e, Len(written[e].sigs), written[e].sigs) /\ EndsAt(e, Len(written[e].sigs)))'
    <3>1. Holds(e, Len(written[e].sigs), written[e].sigs) /\ EndsAt(e, Len(written[e].sigs))
      BY <1>5, <2>2 DEF FilesAreWritten
    <3>2. written'[e] = written[e] /\ lookaside'[e] = lookaside[e]
      BY <1>2, <1>5, <2>1, <2>2
    <3> QED
      BY <3>1, <3>2 DEF Holds, EndsAt
  <2> QED
    BY <2>1, <2>2
<1>6. CASE Sigs!WriteFile /\ sigsIndex < n
  <2>1. /\ lookaside' = [lookaside EXCEPT ![d][sigsIndex] = {call.sigs[sigsIndex + 1]}]
        /\ sigsIndex' = sigsIndex + 1 /\ sigsPC = "write" /\ sigsPC' = "write" /\ written' = written
    BY <1>6 DEF Sigs!WriteFile
  <2>2. sigsIndex \in Sigs!Index /\ {call.sigs[sigsIndex + 1]} \in SUBSET Signatures
    BY <1>1, <1>6 DEF Sigs!Index
  <2> DEFINE f == {call.sigs[sigsIndex + 1]}
  <2>effect. /\ lookaside' \in [Manifests -> [Sigs!Index -> SUBSET Signatures]]
             /\ lookaside'[d][sigsIndex] = f
             /\ \A k \in Sigs!Index : k # sigsIndex => lookaside'[d][k] = lookaside[d][k]
             /\ \A e \in Manifests : written'[e].known =>
                  (Holds(e, Len(written[e].sigs), written[e].sigs) /\ EndsAt(e, Len(written[e].sigs)))'
    <3> HIDE DEF f
    <3>1. f \in SUBSET Signatures /\ lookaside' = [lookaside EXCEPT ![d][sigsIndex] = f] /\ written' = written
      BY <2>1, <2>2 DEF f
    <3> QED
      BY <1>5, <2>2, <3>1
  <2>types. sigsIndex' \in Nat /\ written' \in [Manifests -> [known : BOOLEAN, sigs : Seq(Signatures)]]
    BY <1>1, <2>1 DEF Sigs!TypeOK
  <2>3. Sigs!TypeOK'
    BY <1>4, <2>effect, <2>types
  <2>4. \A k \in 0..(sigsIndex' - 1) : lookaside'[d][k] = {call.sigs[k + 1]}
    <3> SUFFICES ASSUME NEW k \in 0..sigsIndex PROVE lookaside'[d][k] = {call.sigs[k + 1]}
      BY <1>1, <2>1
    <3>1. k \in Sigs!Index /\ (k # sigsIndex => k \in 0..(sigsIndex - 1))
      BY <1>1, <1>6 DEF Sigs!Index
    <3>2. k # sigsIndex => lookaside[d][k] = {call.sigs[k + 1]}
      BY <2>1, <3>1 DEF FilesAreWritten, Holds
    <3> QED
      BY <2>effect, <3>1, <3>2
  <2>5. Holds(call.digest, sigsIndex, call.sigs)'
    BY <1>2, <2>4 DEF Holds
  <2>6. \A e \in Manifests : written'[e].known =>
          (Holds(e, Len(written[e].sigs), written[e].sigs) /\ EndsAt(e, Len(written[e].sigs)))'
    BY <2>effect
  <2>7. FilesAreWritten'
    BY <1>1, <1>2, <1>6, <2>1, <2>5, <2>6 DEF FilesAreWritten
  <2> QED
    BY <1>3, <2>3, <2>7 DEF SignaturesInvariant
<1>7. CASE Sigs!WriteFile /\ ~(sigsIndex < n)
  <2>1. /\ UNCHANGED <<lookaside, sigsIndex, written>> /\ sigsPC = "write" /\ sigsPC' = "clear"
        /\ sigsIndex = n
    BY <1>1, <1>7 DEF Sigs!WriteFile, FilesAreWritten
  <2>2. Sigs!TypeOK'
    BY <1>4, <2>1 DEF Sigs!TypeOK
  <2>3. FilesAreWritten'
    BY <1>1, <1>2, <2>1, SMTT(30) DEF FilesAreWritten, Holds, EndsAt
  <2> QED
    BY <1>3, <2>2, <2>3 DEF SignaturesInvariant
<1>8. CASE Sigs!Clear /\ sigsIndex \in Sigs!Index /\ lookaside[d][sigsIndex] # {}
  <2>1. /\ lookaside' = [lookaside EXCEPT ![d][sigsIndex] = {}]
        /\ sigsIndex' = sigsIndex + 1 /\ sigsPC = "clear" /\ sigsPC' = "clear" /\ written' = written
    BY <1>8 DEF Sigs!Clear, Sigs!ToDelete
  <2>2. {} \in SUBSET Signatures
    OBVIOUS
  <2>effect. /\ lookaside' \in [Manifests -> [Sigs!Index -> SUBSET Signatures]]
             /\ lookaside'[d][sigsIndex] = {}
             /\ \A k \in Sigs!Index : k # sigsIndex => lookaside'[d][k] = lookaside[d][k]
             /\ \A e \in Manifests : written'[e].known =>
                  (Holds(e, Len(written[e].sigs), written[e].sigs) /\ EndsAt(e, Len(written[e].sigs)))'
    BY <1>5, <1>8, <2>1, <2>2
  <2>types. sigsIndex' \in Nat /\ written' \in [Manifests -> [known : BOOLEAN, sigs : Seq(Signatures)]]
    BY <1>1, <2>1 DEF Sigs!TypeOK
  <2>3. Sigs!TypeOK'
    BY <1>4, <2>effect, <2>types
  <2>4. Holds(d, n, call.sigs) /\ n <= sigsIndex /\ (n < sigsIndex => EndsAt(d, n))
    BY <2>1 DEF FilesAreWritten
  <2>5. \A k \in 0..(n - 1) : lookaside'[d][k] = {call.sigs[k + 1]}
    <3> SUFFICES ASSUME NEW k \in 0..(n - 1) PROVE lookaside'[d][k] = {call.sigs[k + 1]}
      OBVIOUS
    <3>1. k \in Sigs!Index /\ k # sigsIndex
      BY <1>1, <2>4 DEF Sigs!Index
    <3> QED
      BY <2>effect, <2>4, <3>1 DEF Holds
  <2>6. n > MaxFiles \/ lookaside'[d][n] = {}
    <3>1. CASE n = sigsIndex
      BY <2>effect, <3>1
    <3>2. CASE n # sigsIndex
      <4>1. n < sigsIndex
        BY <1>1, <2>4, <3>2
      <4>2. CASE n > MaxFiles
        BY <4>2
      <4>3. CASE ~(n > MaxFiles)
        <5>1. lookaside[d][n] = {} /\ n \in Sigs!Index
          BY <1>1, <2>4, <4>1, <4>3 DEF EndsAt, Sigs!Index
        <5> QED
          BY <2>effect, <3>2, <5>1
      <4> QED
        BY <4>2, <4>3
    <3> QED
      BY <3>1, <3>2
  <2>7. Holds(call.digest, Len(call.sigs), call.sigs)' /\ EndsAt(call.digest, Len(call.sigs))'
    BY <1>2, <2>5, <2>6 DEF Holds, EndsAt
  <2>8. FilesAreWritten'
    <3>1. \A e \in Manifests : written'[e].known =>
            (Holds(e, Len(written[e].sigs), written[e].sigs) /\ EndsAt(e, Len(written[e].sigs)))'
      BY <2>effect
    <3>2. Len(call.sigs)' <= sigsIndex' /\ ~written'[call.digest'].known
      BY <1>1, <1>2, <2>1, <2>4
    <3> QED
      BY <2>1, <2>7, <3>1, <3>2 DEF FilesAreWritten
  <2> QED
    BY <1>3, <2>3, <2>8 DEF SignaturesInvariant
<1>9. CASE Sigs!Clear /\ ~(sigsIndex \in Sigs!Index /\ lookaside[d][sigsIndex] # {})
  <2>1. /\ UNCHANGED <<lookaside, sigsIndex>> /\ sigsPC = "clear" /\ sigsPC' = "ended"
        /\ written' = [written EXCEPT ![d] = [known |-> TRUE, sigs |-> call.sigs]]
    BY <1>9 DEF Sigs!Clear, Sigs!ToDelete, Sigs!End
  <2>2. [known |-> TRUE, sigs |-> call.sigs] \in [known : BOOLEAN, sigs : Seq(Signatures)]
    BY <1>1
  <2>3. Sigs!TypeOK'
    BY <1>1, <1>4, <2>1, <2>2 DEF Sigs!TypeOK
  <2>4. Holds(d, n, call.sigs) /\ EndsAt(d, n)
    BY <1>1, <1>9, <2>1 DEF FilesAreWritten, EndsAt, Sigs!Index
  <2>5. \A e \in Manifests : IF e = d THEN written'[e].sigs = call.sigs ELSE written'[e] = written[e]
    BY <1>2, <2>1 DEF Sigs!TypeOK
  <2>6. ASSUME NEW e \in Manifests, written'[e].known
        PROVE  (Holds(e, Len(written[e].sigs), written[e].sigs) /\ EndsAt(e, Len(written[e].sigs)))'
    <3>1. CASE e = d
      BY <2>1, <2>4, <2>5, <3>1 DEF Holds, EndsAt
    <3>2. CASE e # d
      <4>1. Holds(e, Len(written[e].sigs), written[e].sigs) /\ EndsAt(e, Len(written[e].sigs))
        BY <2>5, <2>6, <3>2 DEF FilesAreWritten
      <4>2. written'[e] = written[e] /\ lookaside' = lookaside
        BY <2>1, <2>5, <3>2
      <4> QED
        BY <4>1, <4>2 DEF Holds, EndsAt
    <3> QED
      BY <3>1, <3>2
  <2>7. FilesAreWritten'
    BY <2>1, <2>6 DEF FilesAreWritten
  <2> QED
    BY <1>3, <2>3, <2>7 DEF SignaturesInvariant
<1> QED
  BY <1>6, <1>7, <1>8, <1>9

(* A source that finds the files of a list, and then none, reads the list. *)
LEMMA ListIsRead ==
  ASSUME Sigs!TypeOK, NEW d \in Manifests, NEW sigs \in Seq(Signatures), Len(sigs) < MaxFiles,
         Holds(d, Len(sigs), sigs), EndsAt(d, Len(sigs))
  PROVE  ~Sigs!TooMany(d) /\ Sigs!Visible(d) = sigs
<1> DEFINE n == Len(sigs)
           Stops(k) == /\ \A i \in 0..(k - 1) : lookaside[d][i] # {}
                       /\ k = MaxFiles \/ lookaside[d][k] = {}
<1>1. MaxFiles \in Nat /\ n \in Nat /\ n < MaxFiles /\ n \in 0..MaxFiles
  BY SignaturesAssumption
<1>2. \A i \in 0..(n - 1) : lookaside[d][i] = {sigs[i + 1]}
  BY DEF Holds
<1>3. lookaside[d][n] = {}
  BY <1>1 DEF EndsAt
<1>4. Stops(n)
  BY <1>2, <1>3
<1>5. \A k \in 0..MaxFiles : Stops(k) => k = n
  <2> SUFFICES ASSUME NEW k \in 0..MaxFiles, Stops(k), k # n PROVE FALSE
    OBVIOUS
  <2>1. CASE k < n
    <3>1. k \in 0..(n - 1)
      BY <1>1, <2>1
    <3>2. lookaside[d][k] = {sigs[k + 1]}
      BY <1>2, <3>1
    <3>3. k # MaxFiles /\ (k = MaxFiles \/ lookaside[d][k] = {})
      BY <1>1, <2>1
    <3> QED
      BY <3>2, <3>3
  <2>2. CASE n < k
    BY <1>1, <1>3, <2>2
  <2> QED
    BY <1>1, <2>1, <2>2
<1>6. Sigs!Files(d) = CHOOSE k \in 0..MaxFiles : Stops(k)
  BY DEF Sigs!Files
<1> HIDE DEF Stops
<1>7. Sigs!Files(d) = n
  BY <1>1, <1>4, <1>5, <1>6
<1>8. Sigs!Visible(d) = [k \in 1..n |-> sigs[k]]
  <2>1. ASSUME NEW k \in 1..n PROVE (CHOOSE s \in lookaside[d][k - 1] : TRUE) = sigs[k]
    <3>1. k - 1 \in 0..(n - 1) /\ (k - 1) + 1 = k
      BY <1>1
    <3>2. lookaside[d][k - 1] = {sigs[k]}
      BY <1>2, <3>1
    <3> QED
      BY <3>2
  <2> QED
    BY <1>7, <2>1 DEF Sigs!Visible
<1>9. sigs = [k \in 1..n |-> sigs[k]]
  OBVIOUS
<1> QED
  BY <1>1, <1>7, <1>8, <1>9 DEF Sigs!TooMany

(* What was written completely is what is read.                            *)
LEMMA SignaturesFollow == SignaturesInvariant => Sigs!SignaturesAreExact
<1> SUFFICES ASSUME SignaturesInvariant PROVE Sigs!SignaturesAreExact
  OBVIOUS
<1>1. Sigs!LookasideIsExact
  <2> SUFFICES ASSUME NEW d \in Manifests, written[d].known, Len(written[d].sigs) < MaxFiles
               PROVE  LET sigs == written[d].sigs
                          read == {Sigs!Visible(d)[k] : k \in DOMAIN Sigs!Visible(d)}
                      IN  /\ ~Sigs!TooMany(d)
                          /\ Sigs!OthersOf(sigs) \subseteq read /\ read \subseteq {sigs[k] : k \in DOMAIN sigs}
                          /\ Sigs!SigstoreOf(sigs) = {} => Sigs!Visible(d) = sigs
    BY Zenon DEF Sigs!LookasideIsExact
  <2>1. ~Sigs!TooMany(d) /\ Sigs!Visible(d) = written[d].sigs
    BY ListIsRead DEF SignaturesInvariant, FilesAreWritten, Sigs!TypeOK
  <2> QED
    BY <2>1, Zenon DEF Sigs!OthersOf
<1>2. Sigs!SharedSignaturesStay
  BY DEF SignaturesInvariant, SharedIsRead, SharedPlaces, Sigs!SharedSignaturesStay, Sigs!SignaturesOf
<1> QED
  BY <1>1, <1>2 DEF SignaturesInvariant, Sigs!SignaturesAreExact

(* Whatever calls failed half way before: once PutSignaturesWithFormat has *)
(* succeeded a source reads from the lookaside the signatures written, in  *)
(* order, and no others, if they are few enough to be read, and none after *)
(* deleteImage; signatures attached to a manifest by this or by another    *)
(* process, or added to the extension, are read, unless two processes      *)
(* attached signatures to that manifest at once.                           *)
THEOREM SignaturesExact == Spec => []SignaturesAreExact
<1> DEFINE Inv == part = "signatures" => SignaturesInvariant
<1>1. Init => Inv
  BY SignaturesInit DEF Init, signaturesInit
<1>2. Inv /\ [Next]_vars => Inv'
  <2> SUFFICES ASSUME Inv, [Next]_vars, part' = "signatures" PROVE SignaturesInvariant'
    OBVIOUS
  <2>1. CASE UNCHANGED <<part, signaturesVars>>
    BY <2>1, CallsKeep
  <2>2. CASE SignaturesStep
    BY <2>2, CallsKeep, SharedKeeps, FilesKeep DEF SignaturesStep, Sigs!Next
  <2> QED
    BY <2>1, <2>2 DEF Next, vars, DownloadStep, ChunksStep, UploadStep, LayoutStep, BoltStep, MayStop
<1>3. Inv => SignaturesAreExact
  BY SignaturesFollow DEF SignaturesAreExact
<1> QED
  BY <1>1, <1>2, <1>3, PTL DEF Spec
-----------------------------------------------------------------------------
(* Partial downloads *)

(* The place in the body up to which the tokens were taken, and whether    *)
(* nothing more can be taken because the network failed.                   *)
PlaceAt(i) == IF i <= Len(ready) THEN ready[i].at ELSE chunksBody
Reached    == PlaceAt(1)
Failing    == {"error", "error with data"}
Lost       == IF ready = <<>> THEN handler = "ended" ELSE ready[1].kind \in Failing
Least(a, b) == IF a <= b THEN a ELSE b

(* The buffers hold what follows each other in the body, up to where the   *)
(* network was read; the end and a failure come last.                      *)
TokenInOrder(i) ==
  /\ ready[i].at.nr <= Len(Chunks!Part(ready[i].at.part))
  /\ ready[i].kind \in Failing \cup {Chunks!Following(ready[i].at)}
  /\ ready[i].kind \in Failing \cup {"EOF"} => i = Len(ready) /\ handler = "ended"
  /\ PlaceAt(i + 1) = Chunks!Behind(ready[i].at, ready[i].kind)
TokensInOrder ==
  /\ chunksBody.nr <= Len(Chunks!Part(chunksBody.part))
  /\ \A i \in 1..Len(ready) : TokenInOrder(i)

BuffersAreCounted == empty + Len(ready) + (IF handler = "reading" THEN 1 ELSE 0) <= Buffers

(* The chunk of the last stream, and the end of what was read of it.       *)
LastChunk == chunks[Len(got)]
LastEnd   == ended[Len(got)]

(* splitHTTP200ResponseToPartial: where the one body is, unless the        *)
(* network failed; beyond its end it stays at the end.                     *)
OffsetIsReached(n) == ~Lost => Reached.nr = Least(n, ChunksSize)

WholeIsSplit ==
  reply.form = "200" =>
    /\ chunksBody.part = 1 /\ \A i \in 1..Len(ready) : ready[i].at.part = 1
    /\ producer = "next" => OffsetIsReached(chunksOffset)
    /\ producer \in {"skip", "offer"} =>
         Len(got) < Len(chunks) /\ chunksOffset = Chunks!current.off
    /\ producer = "skip" => skip <= chunksOffset /\ OffsetIsReached(chunksOffset - skip)
    /\ producer = "offer" => left = Chunks!current.len /\ OffsetIsReached(chunksOffset)
    /\ producer = "wait" =>
         /\ chunksOffset = LastChunk.off
         /\ left = Rest <=> LastChunk.len = Rest
         /\ left # Rest => left <= LastChunk.len
         /\ LastEnd = "reading" =>
              /\ left # Rest => left + Len(got[Len(got)]) = LastChunk.len
              /\ ~Lost => Reached.nr = Least(LastChunk.off, ChunksSize) + Len(got[Len(got)])
         /\ LastEnd = "EOF" =>
              /\ OffsetIsReached(IF left = Rest THEN ChunksSize ELSE LastChunk.off + LastChunk.len)
              /\ left # 0 => OffsetIsReached(ChunksSize)
         /\ LastEnd = "early" /\ left # Rest =>
              OffsetIsReached(LastChunk.off + LastChunk.len - left)
         /\ LastEnd = "error" => Lost

(* handle206Response: the stream before the parts left to do.              *)
PartsAreSplit ==
  reply.form = "multipart" =>
    /\ producer \in {"next", "offer"} => Len(got) = chunksOffset
    /\ producer = "next" => Reached.part = chunksOffset
    /\ producer = "offer" =>
         Reached = Chunks!Place(chunksOffset + 1, 0) /\ left = Rest /\ chunksOffset < Len(chunks)
    /\ producer = "wait" =>
         /\ Len(got) = chunksOffset + 1 /\ Reached.part = Len(got) /\ left = Rest
         /\ LastEnd = "reading" => Reached.nr = Len(got[Len(got)])

(* handle206Response with one range: the consumer has the body itself.     *)
BodyIsHandedOut ==
  reply.form = "single" =>
    /\ ready = <<>> /\ chunksBody.part = 1 /\ handler = "ended" /\ Len(chunks) > 0
    /\ Len(chunks) = 1 => reply.span = chunks[1]
    /\ producer = "next" => chunksBody.nr = 0
    /\ producer = "direct" =>
         Len(got) = 1 /\ (ended[1] = "reading" => chunksBody.nr = Len(got[1]))

(* The number of bytes the blob has in a chunk, and what the streams hold. *)
LengthOf(c) ==
  LET end == IF c.len = Rest \/ c.off + c.len > ChunksSize THEN ChunksSize ELSE c.off + c.len
  IN  IF end > c.off THEN end - c.off ELSE 0

StreamIsExact(k) ==
  /\ Chunks!Copied(k) <= LengthOf(chunks[k])
  /\ \A j \in 1..Chunks!Copied(k) : got[k][j] = chunks[k].off + j - 1
  /\ ended[k] = "EOF" => Len(got[k]) = LengthOf(chunks[k])
StreamsAreExact == ~Chunks!Coalesced => \A k \in 1..Len(got) : StreamIsExact(k)

(* No stream is left open, and the producer does not stop without telling. *)
StreamsAreClosed ==
  /\ Len(got) <= Len(chunks)
  /\ producer = "wait" => Len(got) > 0
  /\ \A k \in 1..Len(ended) :
       ended[k] = "reading" => k = Len(ended) /\ producer \in {"wait", "direct", "crashed"}
  /\ producer = "skip" => reply.form = "200"
  /\ reply.form = "single" => producer \in {"next", "direct", "done"}
  /\ reply.form = "no boundary" => producer \in {"next", "done"}
  /\ producer = "direct" => reply.form = "single"
  /\ producer = "next" /\ reply.form \in {"single", "no boundary"} => got = <<>>
  /\ producer = "close" => errors > 0 \/ Len(got) = Len(chunks)
EndIsTold == ~Chunks!Coalesced => Chunks!EndIsReported

(* What ChunksAreExact needs to be inductive.                              *)
ChunksInvariant ==
  /\ Chunks!TypeOK /\ EndIsTold /\ StreamsAreExact
  /\ TokensInOrder /\ BuffersAreCounted /\ StreamsAreClosed
  /\ WholeIsSplit /\ PartsAreSplit /\ BodyIsHandedOut

(* What callers may ask for, and what a server may answer with             *)
ChunkRecords == [off : Nat, len : Nat \cup {-1}]
SpanRecords  == [off : Nat, len : Int]

(* Sequences with the same elements are equal.                             *)
LEMMA SameElements ==
  ASSUME NEW S, NEW s \in Seq(S), NEW t \in Seq(S), Len(s) = Len(t),
         \A i \in 1..Len(s) : s[i] = t[i]
  PROVE  s = t
<1>1. s = [i \in 1..Len(s) |-> s[i]] /\ t = [i \in 1..Len(t) |-> t[i]]
  OBVIOUS
<1> QED
  BY <1>1, Zenon

(* One entry of a sequence is replaced.                                    *)
LEMMA EntryReplaced ==
  ASSUME NEW S, NEW s \in Seq(S), NEW i \in 1..Len(s), NEW x \in S
  PROVE  LET t == [s EXCEPT ![i] = x] IN t \in Seq(S) /\ Len(t) = Len(s) /\ t[i] = x
OBVIOUS

(* What BytesOf gives for a chunk: consecutive bytes from its offset.      *)
LEMMA ChunkBytes ==
  ASSUME NEW c \in SpanRecords
  PROVE  /\ LengthOf(c) \in Nat
         /\ Chunks!BytesOf(c) \in Seq(Nat) /\ Len(Chunks!BytesOf(c)) = LengthOf(c)
         /\ \A j \in 1..LengthOf(c) : Chunks!BytesOf(c)[j] = c.off + j - 1
<1> DEFINE end == IF c.len = -1 \/ c.off + c.len > ChunksSize THEN ChunksSize ELSE c.off + c.len
           n == end - c.off
<1>1. /\ c.off \in Nat /\ end \in Int /\ n \in Int
      /\ LengthOf(c) = IF end > c.off THEN n ELSE 0
      /\ Chunks!BytesOf(c) = [k \in 1..n |-> c.off + k - 1]
  BY ChunksAssumption DEF SpanRecords, LengthOf, Chunks!BytesOf, Chunks!Rest, Rest
<1> HIDE DEF end, n
<1>2. LengthOf(c) \in Nat /\ 1..n = 1..LengthOf(c)
  BY <1>1 DEF n
<1>3. \A k \in 1..LengthOf(c) : c.off + k - 1 \in Nat
  BY <1>1, <1>2
<1>4. Chunks!BytesOf(c) = [k \in 1..LengthOf(c) |-> c.off + k - 1]
  BY <1>1, <1>2, Zenon
<1> QED
  BY <1>2, <1>3, <1>4

(* A chunk is a span.                                                      *)
LEMMA ChunksAreSpans == ChunkRecords \subseteq SpanRecords
BY DEF ChunkRecords, SpanRecords

(* A stream whose bytes are numbered right is the beginning of its chunk.  *)
LEMMA ExactStreams == ChunksInvariant => Chunks!ChunksAreExact
<1> SUFFICES ASSUME ChunksInvariant, ~Chunks!Coalesced PROVE Chunks!StreamsHoldTheirChunks
  BY DEF ChunksInvariant, Chunks!ChunksAreExact, EndIsTold
<1>5. got \in Seq(Seq(Int)) /\ DOMAIN got = 1..Len(got)
  BY DEF ChunksInvariant, Chunks!TypeOK
<1> SUFFICES ASSUME NEW k \in 1..Len(got)
             PROVE  /\ Chunks!Copied(k) <= Len(Chunks!BytesOf(chunks[k]))
                    /\ \A j \in 1..Chunks!Copied(k) : got[k][j] = Chunks!BytesOf(chunks[k])[j]
                    /\ ended[k] = "EOF" => got[k] = Chunks!BytesOf(chunks[k])
  BY <1>5 DEF Chunks!StreamsHoldTheirChunks
<1> DEFINE c == chunks[k]
           s == got[k]
           b == Chunks!BytesOf(c)
           m == Chunks!Copied(k)
<1>1. c \in ChunkRecords /\ s \in Seq(Int)
  <2>1. chunks \in Seq(ChunkRecords)
    BY ChunksAssumption DEF ChunksInvariant, Chunks!TypeOK, ChunkRecords
  <2>2. got \in Seq(Seq(Int)) /\ Len(got) <= Len(chunks)
    BY DEF ChunksInvariant, Chunks!TypeOK, StreamsAreClosed
  <2> QED
    BY <2>1, <2>2
<1>2. b \in Seq(Nat) /\ Len(b) = LengthOf(c) /\ \A j \in 1..Len(b) : b[j] = c.off + j - 1
  BY <1>1, ChunkBytes, ChunksAreSpans
<1>3. /\ m <= Len(b) /\ (\A j \in 1..m : s[j] = b[j])
      /\ ended[k] = "EOF" => Len(s) = Len(b) /\ m = Len(s)
  <2>1. /\ m <= LengthOf(c) /\ \A j \in 1..m : s[j] = c.off + j - 1
        /\ ended[k] = "EOF" => Len(s) = LengthOf(c)
    BY Zenon DEF ChunksInvariant, StreamsAreExact, StreamIsExact
  <2>2. m \in Int /\ Len(b) \in Nat /\ (ended[k] = "EOF" => m = Len(s))
    BY <1>1, <1>2 DEF Chunks!Copied
  <2> HIDE DEF c, s, b, m
  <2>3. \A j \in 1..m : j \in 1..Len(b)
    BY <1>2, <2>1, <2>2
  <2> QED
    BY <1>2, <2>1, <2>2, <2>3, Zenon
<1> HIDE DEF c, s, b, m
<1>4. ASSUME ended[k] = "EOF" PROVE s = b
  <2>1. b \in Seq(Int)
    BY <1>2
  <2> QED
    BY <1>1, <1>3, <1>4, <2>1, SameElements
<1> QED
  BY <1>3, <1>4 DEF s, b, c, m

(* What the answer of a server spans.                                      *)
LEMMA ReplyFacts ==
  ASSUME reply \in Chunks!Replies
  PROVE  /\ reply.form \in {"200", "single", "multipart", "no boundary"}
         /\ reply.form # "multipart" => reply.parts = 1
         /\ reply.form # "single" => reply.span = [off |-> 0, len |-> -1]
         /\ reply.parts \in Nat /\ reply.span \in SpanRecords
<1>1. ASSUME NEW r \in [form : {"200", "no boundary"}, parts : {1}, span : {[off |-> 0, len |-> -1]}]
      PROVE  /\ r.form \in {"200", "no boundary"} /\ r.parts = 1
             /\ r.span = [off |-> 0, len |-> -1]
  OBVIOUS
<1>2. ASSUME NEW r \in [form : {"single"}, parts : {1}, span : SpanRecords]
      PROVE  r.form = "single" /\ r.parts = 1 /\ r.span \in SpanRecords
  OBVIOUS
<1>3. ASSUME NEW r \in [form : {"multipart"}, parts : Nat, span : {[off |-> 0, len |-> -1]}]
      PROVE  r.form = "multipart" /\ r.parts \in Nat /\ r.span = [off |-> 0, len |-> -1]
  OBVIOUS
<1>4. [off |-> 0, len |-> -1] \in SpanRecords /\ 1 \in Nat
  BY DEF SpanRecords
<1>5. Chunks!WholeBlob = [off |-> 0, len |-> -1]
  BY DEF Chunks!WholeBlob, Chunks!Rest
<1>6. \/ reply \in [form : {"200", "no boundary"}, parts : {1}, span : {[off |-> 0, len |-> -1]}]
      \/ reply \in [form : {"single"}, parts : {1}, span : SpanRecords]
      \/ reply \in [form : {"multipart"}, parts : Nat, span : {[off |-> 0, len |-> -1]}]
  BY <1>5, Zenon DEF Chunks!Replies, SpanRecords
<1> HIDE DEF SpanRecords
<1>7. CASE reply \in [form : {"200", "no boundary"}, parts : {1}, span : {[off |-> 0, len |-> -1]}]
  BY <1>1, <1>4, <1>7
<1>8. CASE reply \in [form : {"single"}, parts : {1}, span : SpanRecords]
  BY <1>2, <1>4, <1>8
<1>9. CASE reply \in [form : {"multipart"}, parts : Nat, span : {[off |-> 0, len |-> -1]}]
  BY <1>3, <1>4, <1>9
<1> QED
  BY <1>6, <1>7, <1>8, <1>9

(* The parts of a body are sequences; a whole blob has Size bytes.         *)
LEMMA PartFacts ==
  ASSUME Chunks!TypeOK, NEW k \in Nat
  PROVE  /\ Chunks!Part(k) \in Seq(Nat)
         /\ reply.form = "200" /\ k = 1 =>
              /\ Len(Chunks!Part(k)) = ChunksSize
              /\ \A j \in 1..ChunksSize : Chunks!Part(k)[j] = j - 1
         /\ reply.form = "multipart" /\ k \in 1..Len(chunks) =>
              Chunks!Part(k) = Chunks!BytesOf(chunks[k])
         /\ reply.form = "single" /\ k = 1 => Chunks!Part(k) = Chunks!BytesOf(reply.span)
<1>1. reply.span \in SpanRecords
  BY ReplyFacts DEF Chunks!TypeOK
<1>2. Chunks!BytesOf(reply.span) \in Seq(Nat)
  BY <1>1, ChunkBytes
<1>3. reply.form = "200" =>
        /\ Len(Chunks!BytesOf(reply.span)) = ChunksSize
        /\ \A j \in 1..ChunksSize : Chunks!BytesOf(reply.span)[j] = j - 1
  <2> SUFFICES ASSUME reply.form = "200"
               PROVE  /\ Len(Chunks!BytesOf(reply.span)) = ChunksSize
                      /\ \A j \in 1..ChunksSize : Chunks!BytesOf(reply.span)[j] = j - 1
    OBVIOUS
  <2>1. reply.span = [off |-> 0, len |-> -1]
    BY ReplyFacts DEF Chunks!TypeOK
  <2>2. LengthOf(reply.span) = ChunksSize /\ reply.span.off = 0
    BY <2>1, ChunksAssumption DEF LengthOf, Rest
  <2>3. \A j \in 1..ChunksSize : Chunks!BytesOf(reply.span)[j] = 0 + j - 1
    BY <1>1, <2>2, ChunkBytes
  <2> QED
    BY <1>1, <2>2, <2>3, ChunkBytes
<1>4. k \in 1..Len(chunks) => Chunks!BytesOf(chunks[k]) \in Seq(Nat)
  <2>1. chunks \in Seq(ChunkRecords)
    BY ChunksAssumption DEF Chunks!TypeOK, ChunkRecords
  <2>2. k \in 1..Len(chunks) => chunks[k] \in SpanRecords
    BY <2>1, ChunksAreSpans
  <2> QED
    BY <2>2, ChunkBytes
<1>5. Len(chunks) \in Nat
  BY ChunksAssumption DEF Chunks!TypeOK
<1> QED
  BY <1>2, <1>3, <1>4, <1>5 DEF Chunks!Part

(* The body does not change.                                               *)
LEMMA BodyIsKept ==
  ASSUME UNCHANGED <<chunks, reply>>
  PROVE  /\ \A k : Chunks!Part(k)' = Chunks!Part(k)
         /\ \A p : Chunks!Following(p)' = Chunks!Following(p)
         /\ Chunks!Coalesced' = Chunks!Coalesced
BY DEF Chunks!Part, Chunks!Following, Chunks!Coalesced

(* What does not touch the buffers keeps what they hold.                   *)
LEMMA TokensAreKept ==
  ASSUME TokensInOrder, UNCHANGED <<chunks, reply, chunksBody, ready>>,
         handler = "ended" => handler' = "ended"
  PROVE  /\ TokensInOrder' /\ Reached' = Reached /\ (Lost => Lost')
         /\ handler' = handler => Lost' = Lost
<1>1. \A i : PlaceAt(i)' = PlaceAt(i)
  BY DEF PlaceAt
<1>2. Reached' = Reached /\ (Lost => Lost') /\ (handler' = handler => Lost' = Lost)
  BY DEF Reached, PlaceAt, Lost
<1>3. \A p, kind : Chunks!Behind(p, kind)' = Chunks!Behind(p, kind)
  BY DEF Chunks!Behind
<1>4. TokensInOrder'
  BY <1>1, <1>3, BodyIsKept DEF TokensInOrder, TokenInOrder
<1> QED
  BY <1>2, <1>4

(* bufferedNetworkReader.read: the next token is taken and its buffer      *)
(* given back.                                                             *)
LEMMA TokenIsTaken ==
  ASSUME Chunks!TypeOK, TokensInOrder, BuffersAreCounted,
         ready # <<>>, ready[1].kind \in {"byte", "boundary"},
         Chunks!Take, UNCHANGED <<chunks, reply, chunksBody, handler>>
  PROVE  /\ ready' \in Seq(Chunks!Tokens) /\ empty' \in 0..Buffers
         /\ TokensInOrder' /\ BuffersAreCounted'
         /\ ready[1].kind = Chunks!Following(Reached)
         /\ Reached' = Chunks!Behind(Reached, ready[1].kind)
         /\ \A i \in 1..Len(ready') : i + 1 \in 1..Len(ready) /\ ready'[i] = ready[i + 1]
<1>1. ready \in Seq(Chunks!Tokens) /\ empty \in 0..Buffers
  BY DEF Chunks!TypeOK
<1>2. ready' = Tail(ready) /\ empty' = empty + 1
  BY DEF Chunks!Take
<1>3. /\ Len(ready) \in Nat /\ Len(ready) >= 1 /\ Len(ready') = Len(ready) - 1
      /\ ready' \in Seq(Chunks!Tokens)
      /\ \A i \in 1..Len(ready') : i + 1 \in 1..Len(ready) /\ ready'[i] = ready[i + 1]
  BY <1>1, <1>2
<1>4. empty' \in 0..Buffers /\ BuffersAreCounted'
  BY <1>1, <1>2, <1>3, ChunksAssumption DEF BuffersAreCounted
<1>5. \A i \in Nat \ {0} : PlaceAt(i)' = PlaceAt(i + 1)
  BY <1>3 DEF PlaceAt
<1>6. \A p, kind : Chunks!Behind(p, kind)' = Chunks!Behind(p, kind)
  BY DEF Chunks!Behind
<1>7. TokensInOrder'
  <2>1. (chunksBody.nr <= Len(Chunks!Part(chunksBody.part)))'
    BY BodyIsKept DEF TokensInOrder
  <2>2. ASSUME NEW i \in 1..Len(ready')
        PROVE  TokenInOrder(i)'
    <3>1. i + 1 \in 1..Len(ready) /\ ready'[i] = ready[i + 1] /\ i \in Nat \ {0} /\ i + 1 \in Nat \ {0}
      BY <1>3
    <3>2. /\ ready[i + 1].at.nr <= Len(Chunks!Part(ready[i + 1].at.part))
          /\ ready[i + 1].kind \in Failing \cup {Chunks!Following(ready[i + 1].at)}
          /\ ready[i + 1].kind \in Failing \cup {"EOF"} => i + 1 = Len(ready) /\ handler = "ended"
          /\ PlaceAt((i + 1) + 1) = Chunks!Behind(ready[i + 1].at, ready[i + 1].kind)
      BY <3>1 DEF TokensInOrder, TokenInOrder
    <3>3. PlaceAt(i + 1)' = PlaceAt((i + 1) + 1)
      BY <1>5, <3>1
    <3>4. ready'[i].kind \in Failing \cup {"EOF"} => i = Len(ready')
      BY <1>3, <3>1, <3>2
    <3> QED
      BY <1>6, <3>1, <3>2, <3>3, <3>4, BodyIsKept DEF TokenInOrder
  <2> QED
    BY <2>1, <2>2 DEF TokensInOrder
<1>8. 1 \in 1..Len(ready) /\ Reached = ready[1].at
  BY <1>3 DEF Reached, PlaceAt
<1>9. ready[1].kind = Chunks!Following(Reached)
  BY <1>8 DEF TokensInOrder, TokenInOrder, Failing
<1>10. Reached' = Chunks!Behind(Reached, ready[1].kind)
  <2>1. PlaceAt(1 + 1) = Chunks!Behind(ready[1].at, ready[1].kind)
    BY <1>8 DEF TokensInOrder, TokenInOrder
  <2>2. Reached' = PlaceAt(1 + 1)
    BY <1>5 DEF Reached
  <2> QED
    BY <1>8, <2>1, <2>2
<1> QED
  BY <1>3, <1>4, <1>7, <1>9, <1>10

(* One read of the network adds the token that follows.                    *)
LEMMA TokenIsRead ==
  ASSUME Chunks!TypeOK, TokensInOrder, BuffersAreCounted, Chunks!ReadNetwork
  PROVE  /\ ready' \in Seq(Chunks!Tokens) /\ chunksBody' \in Chunks!Places
         /\ TokensInOrder' /\ BuffersAreCounted'
         /\ Reached' = Reached /\ (Lost => Lost')
         /\ chunksBody.part = 1 /\ reply.parts = 1 => chunksBody'.part = 1
         /\ Len(ready') = Len(ready) + 1 /\ ready'[Len(ready')].at = chunksBody
         /\ \A i \in 1..Len(ready) : ready'[i] = ready[i]
<1>1. PICK kind \in {Chunks!Following(chunksBody)} \cup Failing :
        /\ ready' = Append(ready, [kind |-> kind, at |-> chunksBody])
        /\ chunksBody' = Chunks!Behind(chunksBody, kind)
        /\ handler' = IF kind \in {"EOF"} \cup Failing THEN "ended" ELSE "select"
  BY DEF Chunks!ReadNetwork, Chunks!Failures, Failing
<1>2. /\ handler = "reading" /\ UNCHANGED <<chunks, reply, empty>>
      /\ ready \in Seq(Chunks!Tokens) /\ chunksBody \in Chunks!Places /\ empty \in 0..Buffers
      /\ reply \in Chunks!Replies
  BY DEF Chunks!ReadNetwork, Chunks!TypeOK
<1> DEFINE new == [kind |-> kind, at |-> chunksBody]
<1>3. kind \in {"byte", "boundary", "EOF"} \cup Failing
  BY DEF Chunks!Following
<1>4. new \in Chunks!Tokens /\ new.kind = kind /\ new.at = chunksBody
  BY <1>2, <1>3 DEF Chunks!Tokens, Chunks!Failures, Failing
<1>5. chunksBody' \in Chunks!Places
  BY <1>1, <1>2 DEF Chunks!Places, Chunks!Behind, Chunks!Place
<1>6. ready' = Append(ready, new)
  BY <1>1
<1> HIDE DEF new
<1>7. /\ Len(ready) \in Nat /\ Len(ready') = Len(ready) + 1 /\ ready' \in Seq(Chunks!Tokens)
      /\ ready'[Len(ready) + 1] = new /\ \A i \in 1..Len(ready) : ready'[i] = ready[i]
  BY <1>2, <1>4, <1>6
<1>8. BuffersAreCounted'
  BY <1>1, <1>2, <1>7, ChunksAssumption DEF BuffersAreCounted
<1>9. \A i \in 1..(Len(ready) + 1) : PlaceAt(i)' = PlaceAt(i)
  BY <1>4, <1>7 DEF PlaceAt
<1>10. \A p, k : Chunks!Behind(p, k)' = Chunks!Behind(p, k)
  BY DEF Chunks!Behind
<1>11. /\ chunksBody.nr <= Len(Chunks!Part(chunksBody.part))
       /\ \A i \in 1..Len(ready) : ready[i].kind \notin Failing \cup {"EOF"}
  BY <1>2 DEF TokensInOrder, TokenInOrder
<1>12. TokensInOrder'
  <2>1. (chunksBody.nr <= Len(Chunks!Part(chunksBody.part)))'
    <3>1. chunksBody'.nr <= Len(Chunks!Part(chunksBody'.part))
      <4>1. Len(Chunks!Part(chunksBody.part)) \in Nat /\ Len(Chunks!Part(chunksBody.part + 1)) \in Nat
            /\ chunksBody.part \in Nat /\ chunksBody.nr \in Nat
        <5>1. chunksBody.part \in Nat /\ chunksBody.nr \in Nat /\ chunksBody.part + 1 \in Nat
          BY <1>2 DEF Chunks!Places
        <5>2. Chunks!Part(chunksBody.part) \in Seq(Nat) /\ Chunks!Part(chunksBody.part + 1) \in Seq(Nat)
          BY <5>1, PartFacts
        <5> QED
          BY <5>1, <5>2
      <4>2. CASE kind = "byte"
        <5>1. chunksBody' = Chunks!Place(chunksBody.part, chunksBody.nr + 1)
              /\ chunksBody.nr < Len(Chunks!Part(chunksBody.part))
          BY <1>1, <4>2 DEF Chunks!Behind, Chunks!Following, Failing
        <5>2. chunksBody'.part = chunksBody.part /\ chunksBody'.nr = chunksBody.nr + 1
          BY <5>1 DEF Chunks!Place
        <5> QED
          BY <4>1, <5>1, <5>2
      <4>3. CASE kind = "boundary"
        <5>1. chunksBody'.part = chunksBody.part + 1 /\ chunksBody'.nr = 0
          BY <1>1, <4>3 DEF Chunks!Behind, Chunks!Place
        <5> QED
          BY <4>1, <5>1
      <4>4. CASE kind \in Failing \cup {"EOF"}
        BY <1>1, <1>11, <4>4 DEF Chunks!Behind, Failing
      <4> QED
        BY <1>3, <4>2, <4>3, <4>4
    <3> QED
      BY <1>2, <3>1, BodyIsKept
  <2>2. ASSUME NEW i \in 1..Len(ready')
        PROVE  TokenInOrder(i)'
    <3>1. CASE i \in 1..Len(ready)
      <4>1. /\ ready[i].at.nr <= Len(Chunks!Part(ready[i].at.part))
            /\ ready[i].kind \in Failing \cup {Chunks!Following(ready[i].at)}
            /\ PlaceAt(i + 1) = Chunks!Behind(ready[i].at, ready[i].kind)
        BY <3>1 DEF TokensInOrder, TokenInOrder
      <4>2. PlaceAt(i + 1)' = PlaceAt(i + 1) /\ ready'[i] = ready[i]
        BY <1>7, <1>9, <3>1
      <4> QED
        BY <1>2, <1>10, <1>11, <3>1, <4>1, <4>2, BodyIsKept DEF TokenInOrder
    <3>2. CASE i = Len(ready) + 1
      <4>1. ready'[i] = new /\ PlaceAt(i + 1)' = chunksBody'
        BY <1>7, <3>2 DEF PlaceAt
      <4> QED
        BY <1>1, <1>2, <1>4, <1>7, <1>10, <1>11, <3>2, <4>1, BodyIsKept DEF TokenInOrder
    <3> QED
      BY <1>7, <3>1, <3>2
  <2> QED
    BY <2>1, <2>2 DEF TokensInOrder
<1>13. Reached' = Reached /\ (Lost => Lost')
  <2>1. Reached' = Reached
    BY <1>7, <1>9 DEF Reached
  <2>2. ~Lost
    BY <1>2, <1>7, <1>11 DEF Lost
  <2> QED
    BY <2>1, <2>2
<1>14. chunksBody.part = 1 /\ reply.parts = 1 => chunksBody'.part = 1
  <2> SUFFICES ASSUME chunksBody.part = 1, reply.parts = 1 PROVE chunksBody'.part = 1
    OBVIOUS
  <2>1. kind # "boundary"
    <3>1. CASE kind \in Failing
      BY <3>1 DEF Failing
    <3>2. CASE kind = Chunks!Following(chunksBody)
      BY <3>2 DEF Chunks!Following
    <3> QED
      BY <3>1, <3>2
  <2> QED
    BY <1>1, <2>1 DEF Chunks!Behind, Chunks!Place
<1> QED
  BY <1>4, <1>5, <1>7, <1>8, <1>12, <1>13, <1>14

(* A new request satisfies the invariant.                                  *)
LEMMA ChunksInitially == Chunks!Init => ChunksInvariant
<1> SUFFICES ASSUME Chunks!Init PROVE ChunksInvariant
  OBVIOUS
<1>1. /\ chunks \in Requests /\ closed = {} /\ empty = Buffers /\ ready = <<>>
      /\ handler = IF reply.form \in {"200", "multipart"} THEN "select" ELSE "ended"
      /\ producer = "next" /\ chunksOffset = 0 /\ skip = 0 /\ left = 0 /\ got = <<>> /\ ended = <<>>
      /\ errors = 0
  BY DEF Chunks!Init
<1>2. Len(chunks) \in Nat
  BY <1>1, ChunksAssumption
<1>3. /\ reply \in Chunks!Replies
      /\ reply.form = "single" => Len(chunks) > 0 /\ (Len(chunks) = 1 => reply.span = chunks[1])
      /\ chunksBody = Chunks!Place(IF reply.form = "multipart" THEN 0 ELSE 1, 0)
  <2>1. chunksBody = Chunks!Place(IF reply.form = "multipart" THEN 0 ELSE 1, 0)
    BY DEF Chunks!Init
  <2>2. CASE reply \in Chunks!Replies /\ reply.form # "single"
    BY <2>1, <2>2
  <2>3. ASSUME NEW i \in Chunks!Satisfiable, NEW j \in Chunks!Satisfiable, NEW span,
               span = Chunks!Span(i, j), reply = [form |-> "single", parts |-> 1, span |-> span]
        PROVE  reply \in Chunks!Replies /\ Len(chunks) > 0 /\ (Len(chunks) = 1 => span = chunks[1])
    <3>1. chunks \in Seq(ChunkRecords)
      BY <1>1, ChunksAssumption DEF ChunkRecords
    <3>2. span = [off |-> chunks[i].off,
                  len |-> IF chunks[j].len = -1 THEN -1
                          ELSE chunks[j].off + chunks[j].len - chunks[i].off]
      BY <2>3 DEF Chunks!Span, Chunks!Rest
    <3>3. i \in 1..Len(chunks) /\ j \in 1..Len(chunks)
      BY <2>3, <3>1 DEF Chunks!Satisfiable
    <3>4. chunks[i] \in ChunkRecords /\ chunks[j] \in ChunkRecords
      BY <3>1, <3>3
    <3>5. /\ chunks[i].off \in Nat /\ chunks[j].off \in Nat
          /\ chunks[i].len \in Int /\ chunks[j].len \in Int
      BY <3>4 DEF ChunkRecords
    <3>6. span \in SpanRecords
      BY <3>2, <3>5 DEF SpanRecords
    <3>7. reply \in Chunks!Replies
      BY <2>3, <3>6 DEF Chunks!Replies, SpanRecords
    <3>8. ASSUME Len(chunks) = 1 PROVE span = chunks[1]
      <4>1. i = 1 /\ j = 1
        BY <3>3, <3>8
      <4>2. span = [off |-> chunks[1].off,
                    len |-> IF chunks[1].len = -1 THEN -1
                            ELSE chunks[1].off + chunks[1].len - chunks[1].off]
        BY <3>2, <4>1
      <4>3. chunks[1].off + chunks[1].len - chunks[1].off = chunks[1].len
        BY <3>5, <4>1
      <4>4. span = [off |-> chunks[1].off, len |-> chunks[1].len]
        BY <4>2, <4>3
      <4> QED
        BY <3>4, <4>1, <4>4 DEF ChunkRecords
    <3>9. Len(chunks) > 0
      BY <1>2, <3>3
    <3> QED
      BY <3>7, <3>8, <3>9
  <2>4. \/ reply \in Chunks!Replies /\ reply.form # "single"
        \/ \E i, j \in Chunks!Satisfiable :
             reply = [form |-> "single", parts |-> 1, span |-> Chunks!Span(i, j)]
    <3>1. CASE reply = [form |-> "200", parts |-> 1, span |-> Chunks!WholeBlob]
      BY <3>1 DEF Chunks!Replies
    <3>2. CASE reply = [form |-> "no boundary", parts |-> 1, span |-> Chunks!WholeBlob]
      BY <3>2 DEF Chunks!Replies
    <3>3. ASSUME NEW n \in 0..(Len(chunks) + 1),
                 reply = [form |-> "multipart", parts |-> n, span |-> Chunks!WholeBlob]
          PROVE  reply \in Chunks!Replies /\ reply.form # "single"
      <4>1. n \in Nat
        BY <1>2
      <4> QED
        BY <3>3, <4>1 DEF Chunks!Replies
    <3> QED
      BY <3>1, <3>2, <3>3 DEF Chunks!Init
  <2> QED
    BY <2>1, <2>2, <2>3, <2>4
<1>4. chunksBody \in Chunks!Places /\ chunksBody.nr = 0
      /\ chunksBody.part = IF reply.form = "multipart" THEN 0 ELSE 1
  BY <1>3 DEF Chunks!Places, Chunks!Place
<1>5. ready \in Seq(Chunks!Tokens) /\ got \in Seq(Seq(Int))
      /\ ended \in Seq({"reading", "EOF", "error", "early"}) /\ Len(ready) = 0 /\ Len(got) = 0 /\ Len(ended) = 0
  BY <1>1
<1>6. Chunks!TypeOK
  BY <1>1, <1>3, <1>4, <1>5, ChunksAssumption DEF Chunks!TypeOK
<1>7. Reached = chunksBody
  BY <1>5 DEF Reached, PlaceAt
<1>8. TokensInOrder /\ BuffersAreCounted
  <2>1. Chunks!Part(chunksBody.part) \in Seq(Nat)
    BY <1>4, <1>6, PartFacts
  <2>2. Len(Chunks!Part(chunksBody.part)) \in Nat
    BY <2>1
  <2> QED
    BY <1>1, <1>4, <1>5, <2>2, ChunksAssumption DEF TokensInOrder, TokenInOrder, BuffersAreCounted
<1>9. WholeIsSplit
  <2>1. Least(0, ChunksSize) = 0
    BY ChunksAssumption DEF Least
  <2> QED
    BY <1>1, <1>4, <1>5, <1>7, <2>1 DEF WholeIsSplit, OffsetIsReached
<1>10. PartsAreSplit
  BY <1>1, <1>4, <1>5, <1>7 DEF PartsAreSplit
<1>11. EndIsTold /\ StreamsAreExact /\ StreamsAreClosed
  BY <1>1, <1>2, <1>5 DEF EndIsTold, Chunks!EndIsReported, StreamsAreExact, StreamsAreClosed
<1>12. BodyIsHandedOut
  BY <1>1, <1>3, <1>4 DEF BodyIsHandedOut
<1> QED
  BY <1>6, <1>8, <1>9, <1>10, <1>11, <1>12 DEF ChunksInvariant

(* What the streams hold does not change unless they are read.             *)
LEMMA StreamsStay ==
  ASSUME StreamsAreExact, UNCHANGED <<chunks, reply, got, ended>>
  PROVE  StreamsAreExact'
<1>1. \A k : Chunks!Copied(k)' = Chunks!Copied(k)
  BY DEF Chunks!Copied
<1>2. \A c : LengthOf(c)' = LengthOf(c)
  BY DEF LengthOf
<1>3. \A k : StreamIsExact(k) => StreamIsExact(k)'
  BY <1>1, <1>2 DEF StreamIsExact
<1> QED
  BY <1>3 DEF StreamsAreExact, Chunks!Coalesced

(* What the invariant says of the consumer and the producer does not       *)
(* depend on what was read ahead.                                          *)
LEMMA SplitIsKept ==
  ASSUME ChunksInvariant, Reached' = Reached, Lost => Lost',
         UNCHANGED <<chunks, reply, producer, chunksOffset, skip, left, got, ended, errors, closed>>,
         reply.form = "200" =>
           chunksBody'.part = 1 /\ \A i \in 1..Len(ready') : ready'[i].at.part = 1,
         reply.form = "single" => UNCHANGED <<chunksBody, ready, handler>>
  PROVE  /\ EndIsTold' /\ StreamsAreExact' /\ StreamsAreClosed'
         /\ WholeIsSplit' /\ PartsAreSplit' /\ BodyIsHandedOut'
<1>1. EndIsTold' /\ StreamsAreExact' /\ StreamsAreClosed' /\ BodyIsHandedOut'
  <2>1. StreamsAreExact' /\ EndIsTold'
    BY StreamsStay DEF ChunksInvariant, EndIsTold, Chunks!EndIsReported, Chunks!Coalesced
  <2>2. StreamsAreClosed'
    BY DEF ChunksInvariant, StreamsAreClosed
  <2>3. BodyIsHandedOut'
    BY DEF ChunksInvariant, BodyIsHandedOut
  <2> QED
    BY <2>1, <2>2, <2>3
<1>2. \A n : OffsetIsReached(n) => OffsetIsReached(n)'
  BY DEF OffsetIsReached
<1>3. UNCHANGED <<Chunks!current, LastChunk, LastEnd>>
  BY DEF Chunks!current, LastChunk, LastEnd
<1>4. WholeIsSplit'
  BY <1>2, <1>3 DEF ChunksInvariant, WholeIsSplit
<1>5. PartsAreSplit'
  BY <1>3 DEF ChunksInvariant, PartsAreSplit, Chunks!Place
<1> QED
  BY <1>1, <1>4, <1>5

(* The goroutine that reads ahead keeps the invariant.                     *)
LEMMA ReadingAheadKeeps ==
  ChunksInvariant /\ (Chunks!Park \/ Chunks!Select \/ Chunks!ReadNetwork) => ChunksInvariant'
<1> SUFFICES ASSUME ChunksInvariant, Chunks!Park \/ Chunks!Select \/ Chunks!ReadNetwork
             PROVE  ChunksInvariant'
  OBVIOUS
<1>1. UNCHANGED <<chunks, reply, producer, chunksOffset, skip, left, got, ended, errors, closed>>
  BY DEF Chunks!Park, Chunks!Select, Chunks!ReadNetwork
<1>2. Chunks!TypeOK /\ TokensInOrder /\ BuffersAreCounted /\ WholeIsSplit
  BY DEF ChunksInvariant
<1>5. reply.form # "single"
  BY DEF ChunksInvariant, BodyIsHandedOut, Chunks!Park, Chunks!Select, Chunks!ReadNetwork
<1>3. CASE Chunks!Park \/ Chunks!Select
  <2>1. UNCHANGED <<chunksBody, ready>>
    BY <1>3 DEF Chunks!Park, Chunks!Select
  <2>2. handler = "ended" => handler' = "ended"
    BY <1>3 DEF Chunks!Park, Chunks!Select
  <2>3. TokensInOrder' /\ Reached' = Reached /\ (Lost => Lost')
    BY <1>1, <1>2, <2>1, <2>2, TokensAreKept
  <2>4. empty' \in 0..Buffers /\ BuffersAreCounted'
        /\ handler' \in {"select", "parked", "reading", "ended", "panicked"}
    <3>1. Len(ready) \in Nat /\ empty \in 0..Buffers
      BY <1>2 DEF Chunks!TypeOK
    <3> QED
      BY <1>2, <1>3, <2>1, <3>1, ChunksAssumption DEF Chunks!Park, Chunks!Select, BuffersAreCounted
  <2>5. Chunks!TypeOK'
    BY <1>1, <1>2, <2>1, <2>4 DEF Chunks!TypeOK
  <2>6. reply.form = "200" =>
          chunksBody'.part = 1 /\ \A i \in 1..Len(ready') : ready'[i].at.part = 1
    BY <1>2, <2>1 DEF WholeIsSplit
  <2> QED
    BY <1>1, <1>5, <2>3, <2>4, <2>5, <2>6, SplitIsKept DEF ChunksInvariant
<1>4. CASE Chunks!ReadNetwork
  <2>1. /\ ready' \in Seq(Chunks!Tokens) /\ chunksBody' \in Chunks!Places
        /\ TokensInOrder' /\ BuffersAreCounted'
        /\ Reached' = Reached /\ (Lost => Lost')
        /\ chunksBody.part = 1 /\ reply.parts = 1 => chunksBody'.part = 1
        /\ Len(ready') = Len(ready) + 1 /\ ready'[Len(ready')].at = chunksBody
        /\ \A i \in 1..Len(ready) : ready'[i] = ready[i]
    BY <1>2, <1>4, TokenIsRead
  <2>2. handler' \in {"ended", "select"} /\ UNCHANGED empty
    BY <1>4 DEF Chunks!ReadNetwork
  <2>3. Chunks!TypeOK'
    BY <1>1, <1>2, <2>1, <2>2 DEF Chunks!TypeOK
  <2>4. reply.form = "200" =>
          chunksBody'.part = 1 /\ \A i \in 1..Len(ready') : ready'[i].at.part = 1
    <3> SUFFICES ASSUME reply.form = "200"
                 PROVE  chunksBody'.part = 1 /\ \A i \in 1..Len(ready') : ready'[i].at.part = 1
      OBVIOUS
    <3>1. chunksBody.part = 1 /\ \A i \in 1..Len(ready) : ready[i].at.part = 1
      BY <1>2 DEF WholeIsSplit
    <3>2. reply.parts = 1
      BY <1>2 DEF Chunks!TypeOK, Chunks!Replies
    <3>3. \A i \in 1..Len(ready') : i \in 1..Len(ready) \/ i = Len(ready')
      <4>1. Len(ready) \in Nat
        BY <1>2 DEF Chunks!TypeOK
      <4> QED
        BY <2>1, <4>1
    <3> QED
      BY <2>1, <3>1, <3>2, <3>3
  <2> QED
    BY <1>1, <1>5, <2>1, <2>3, <2>4, SplitIsKept DEF ChunksInvariant
<1> QED
  BY <1>3, <1>4

(* A body that is not multipart has one part.                              *)
OnePart == reply.form = "200" => chunksBody.part = 1 /\ \A i \in 1..Len(ready) : ready[i].at.part = 1

(* A step that leaves the network alone keeps what is known about it.      *)
LEMMA NetworkIsKept ==
  ASSUME ChunksInvariant, UNCHANGED <<chunks, reply, Chunks!network>>
  PROVE  /\ TokensInOrder' /\ BuffersAreCounted' /\ OnePart'
         /\ Reached' = Reached /\ Lost' = Lost
         /\ \A n : OffsetIsReached(n)' = OffsetIsReached(n)
<1>1. UNCHANGED <<chunksBody, closed, empty, ready, handler>>
  BY DEF Chunks!network
<1>2. TokensInOrder' /\ Reached' = Reached /\ Lost' = Lost
  BY <1>1, TokensAreKept DEF ChunksInvariant
<1>3. BuffersAreCounted' /\ OnePart'
  BY <1>1 DEF ChunksInvariant, BuffersAreCounted, OnePart, WholeIsSplit
<1>4. \A n : OffsetIsReached(n)' = OffsetIsReached(n)
  BY <1>2 DEF OffsetIsReached
<1> QED
  BY <1>2, <1>3, <1>4

ProducerPCs ==
  {"next", "skip", "offer", "wait", "direct", "error", "error2", "close", "done", "crashed"}

(* What TypeOK says of the network and of the request is kept.             *)
LEMMA TypesAreKept ==
  ASSUME ChunksInvariant, UNCHANGED <<chunks, reply, Chunks!network>>,
         producer' \in ProducerPCs,
         chunksOffset' \in Nat, skip' \in Nat, left' \in Nat \cup {-1}, errors' \in Nat,
         got' \in Seq(Seq(Int)), ended' \in Seq({"reading", "EOF", "error", "early"}),
         Len(got') = Len(ended')
  PROVE  Chunks!TypeOK'
<1>1. UNCHANGED <<chunksBody, closed, empty, ready, handler>>
  BY DEF Chunks!network
<1> QED
  BY <1>1 DEF ChunksInvariant, Chunks!TypeOK, Chunks!Rest, ProducerPCs

(* What ends the streams is untouched by a step of a 200 or a multipart    *)
(* answer that hands out no stream and reads none.                         *)
LEMMA StreamsAreKept ==
  ASSUME ChunksInvariant, UNCHANGED <<chunks, reply, got, ended, errors>>,
         reply.form \in {"200", "multipart"},
         producer \notin {"done", "crashed", "direct"} /\ (producer = "wait" => ended[Len(got)] # "reading"),
         producer' \in {"next", "skip", "offer", "wait", "error", "error2", "close", "crashed"},
         producer' = "wait" => producer = "wait",
         producer' = "skip" => reply.form = "200",
         producer' = "close" => Len(got) = Len(chunks)
  PROVE  EndIsTold' /\ StreamsAreExact' /\ StreamsAreClosed' /\ BodyIsHandedOut'
<1>1. StreamsAreExact'
  BY StreamsStay DEF ChunksInvariant
<1>2. EndIsTold' /\ BodyIsHandedOut'
  BY DEF EndIsTold, Chunks!EndIsReported, BodyIsHandedOut
<1>3. \A k \in 1..Len(ended) : ended[k] # "reading"
  <2>1. Len(ended) = Len(got)
    BY DEF ChunksInvariant, Chunks!TypeOK
  <2> QED
    BY <2>1 DEF ChunksInvariant, StreamsAreClosed
<1>4. StreamsAreClosed'
  BY <1>3 DEF ChunksInvariant, StreamsAreClosed
<1> QED
  BY <1>1, <1>2, <1>4

(* Types of what the steps below use.                                      *)
LEMMA ChunksTypes ==
  ASSUME ChunksInvariant
  PROVE  /\ chunks \in Seq(ChunkRecords) /\ Len(chunks) \in Nat
         /\ got \in Seq(Seq(Int)) /\ Len(got) \in Nat /\ Len(got) = Len(ended)
         /\ ended \in Seq({"reading", "EOF", "error", "early"})
         /\ chunksOffset \in Nat /\ skip \in Nat /\ left \in Nat \cup {-1} /\ errors \in Nat
         /\ producer \in ProducerPCs
         /\ reply \in Chunks!Replies /\ ready \in Seq(Chunks!Tokens) /\ Len(ready) \in Nat
         /\ ChunksSize \in Nat
         /\ \A k \in 1..Len(chunks) :
              chunks[k] \in ChunkRecords /\ chunks[k].off \in Nat /\ chunks[k].len \in Nat \cup {-1}
<1>1. chunks \in Seq(ChunkRecords) /\ ChunksSize \in Nat
  BY ChunksAssumption DEF ChunksInvariant, Chunks!TypeOK, ChunkRecords
<1>2. \A k \in 1..Len(chunks) : chunks[k] \in ChunkRecords
  BY <1>1
<1>3. \A c \in ChunkRecords : c.off \in Nat /\ c.len \in Nat \cup {-1}
  BY DEF ChunkRecords
<1> QED
  BY <1>1, <1>2, <1>3 DEF ChunksInvariant, Chunks!TypeOK, Chunks!Rest, ProducerPCs

(* splitHTTP200ResponseToPartial: the head of its loop.                    *)
LEMMA NextChunkKeeps == ChunksInvariant /\ Chunks!NextChunk => ChunksInvariant'
<1> SUFFICES ASSUME ChunksInvariant, Chunks!NextChunk PROVE ChunksInvariant'
  OBVIOUS
<1> USE ChunksTypes
<1>1. /\ producer = "next" /\ reply.form = "200"
      /\ UNCHANGED <<chunks, reply, Chunks!network, left, got, ended, errors>>
  BY DEF Chunks!NextChunk
<1>2. Chunks!current = chunks[Len(got) + 1] /\ Len(got) <= Len(chunks)
  BY DEF Chunks!current, ChunksInvariant, StreamsAreClosed
<1>3. \/ Len(got) = Len(chunks) /\ producer' = "close" /\ UNCHANGED <<chunksOffset, skip>>
      \/ producer' = "error" /\ UNCHANGED <<chunksOffset, skip>>
      \/ /\ Len(got) < Len(chunks) /\ Chunks!current.off >= chunksOffset
         /\ producer' = "skip" /\ skip' = Chunks!current.off - chunksOffset
         /\ chunksOffset' = Chunks!current.off
  <2>1. Len(got) # Len(chunks) => Len(got) < Len(chunks) /\ Chunks!current.off \in Nat
    BY <1>2
  <2> QED
    BY <2>1 DEF Chunks!NextChunk, Chunks!AfterSkipping
<1>4. Len(got) < Len(chunks) => Chunks!current.off \in Nat
  BY <1>2
<1>5. Chunks!TypeOK'
  <2>1. /\ producer' \in ProducerPCs
        /\ chunksOffset' \in Nat /\ skip' \in Nat
    BY <1>3, <1>4 DEF ProducerPCs
  <2> QED
    BY <1>1, <2>1, TypesAreKept
<1>6. /\ TokensInOrder' /\ BuffersAreCounted' /\ OnePart'
      /\ \A n : OffsetIsReached(n)' = OffsetIsReached(n)
  BY <1>1, NetworkIsKept
<1>7. EndIsTold' /\ StreamsAreExact' /\ StreamsAreClosed' /\ BodyIsHandedOut'
  BY <1>1, <1>3, StreamsAreKept
<1>8. OffsetIsReached(chunksOffset)
  BY <1>1 DEF ChunksInvariant, WholeIsSplit
<1>9. Chunks!current' = Chunks!current
  BY <1>1 DEF Chunks!current
<1>10. producer' = "skip" =>
         /\ Len(got') < Len(chunks') /\ chunksOffset' = Chunks!current'.off
         /\ skip' <= chunksOffset' /\ OffsetIsReached(chunksOffset - skip)'
  <2> SUFFICES ASSUME producer' = "skip"
               PROVE  /\ Len(got') < Len(chunks') /\ chunksOffset' = Chunks!current'.off
                      /\ skip' <= chunksOffset' /\ OffsetIsReached(chunksOffset - skip)'
    OBVIOUS
  <2>1. /\ Len(got) < Len(chunks) /\ Chunks!current.off >= chunksOffset
        /\ skip' = Chunks!current.off - chunksOffset /\ chunksOffset' = Chunks!current.off
    BY <1>3
  <2>2. chunksOffset' - skip' = chunksOffset /\ skip' <= chunksOffset'
    BY <1>4, <2>1
  <2>3. Reached' = Reached /\ Lost' = Lost
    BY <1>1, NetworkIsKept
  <2>4. OffsetIsReached(chunksOffset - skip)'
    BY <1>8, <2>2, <2>3 DEF OffsetIsReached
  <2> QED
    BY <1>1, <1>9, <2>1, <2>2, <2>4
<1>11. WholeIsSplit'
  BY <1>1, <1>3, <1>6, <1>10 DEF WholeIsSplit, OnePart
<1>12. PartsAreSplit'
  BY <1>1 DEF PartsAreSplit
<1> QED
  BY <1>5, <1>6, <1>7, <1>11, <1>12 DEF ChunksInvariant

(* What the token at the head of readyBuffer says about the body.          *)
LEMMA TokenMeans ==
  ASSUME ChunksInvariant, ready # <<>>
  PROVE  /\ Chunks!token = ready[1] /\ Reached = ready[1].at
         /\ Reached.part \in Nat /\ Reached.nr \in Nat
         /\ ready[1].kind \in {"byte", "boundary", "EOF"} \cup Failing
         /\ (ready[1].kind \in Failing) <=> Lost
         /\ ready[1].kind = "byte" =>
              /\ Reached.nr < Len(Chunks!Part(Reached.part))
              /\ Chunks!byte = Chunks!Part(Reached.part)[Reached.nr + 1]
         /\ ready[1].kind \in {"boundary", "EOF"} => Reached.nr = Len(Chunks!Part(Reached.part))
         /\ ready[1].kind = "boundary" => Reached.part < reply.parts
<1>1. ready \in Seq(Chunks!Tokens) /\ 1 \in 1..Len(ready) /\ Chunks!token = ready[1]
  BY ChunksTypes DEF Chunks!token
<1>2. ready[1] \in Chunks!Tokens
  BY <1>1
<1>3. /\ ready[1].at \in Chunks!Places /\ ready[1].kind \in {"byte", "boundary", "EOF"} \cup Failing
      /\ ready[1].at.part \in Nat /\ ready[1].at.nr \in Nat
  BY <1>2 DEF Chunks!Tokens, Chunks!Places, Chunks!Failures, Failing
<1>4. Reached = ready[1].at
  BY <1>1 DEF Reached, PlaceAt
<1>5. /\ Reached.nr <= Len(Chunks!Part(Reached.part))
      /\ ready[1].kind \in Failing \cup {Chunks!Following(Reached)}
  BY <1>1, <1>4 DEF ChunksInvariant, TokensInOrder, TokenInOrder
<1>6. Len(Chunks!Part(Reached.part)) \in Nat
  <2>1. Chunks!Part(Reached.part) \in Seq(Nat)
    BY <1>3, <1>4, PartFacts DEF ChunksInvariant
  <2> QED
    BY <2>1
<1>7. Chunks!byte = Chunks!Part(Reached.part)[Reached.nr + 1]
  BY <1>1, <1>4 DEF Chunks!byte
<1> QED
  <2>1. (ready[1].kind \in Failing) <=> Lost
    BY DEF Lost
  <2>2. ready[1].kind \notin Failing => ready[1].kind = Chunks!Following(Reached)
    BY <1>5
  <2>3. /\ ready[1].kind = "byte" => Reached.nr < Len(Chunks!Part(Reached.part))
        /\ ready[1].kind \in {"boundary", "EOF"} => Reached.nr = Len(Chunks!Part(Reached.part))
        /\ ready[1].kind = "boundary" => Reached.part < reply.parts
    <3> DEFINE k == ready[1].kind
               m == Len(Chunks!Part(Reached.part))
    <3>1. k \in Failing => k \notin {"byte", "boundary", "EOF"}
      BY DEF Failing
    <3>2. /\ Chunks!Following(Reached) = IF Reached.nr < m THEN "byte"
                                        ELSE IF Reached.part < reply.parts THEN "boundary" ELSE "EOF"
          /\ Reached.nr \in Nat /\ m \in Nat /\ Reached.nr <= m
      BY <1>3, <1>4, <1>5, <1>6 DEF Chunks!Following
    <3> HIDE DEF k, m
    <3> QED
      BY <2>2, <3>1, <3>2 DEF k, m
  <2> QED
    BY <1>1, <1>3, <1>4, <1>7, <2>1, <2>3

(* The same for the whole blob.                                            *)
LEMMA WholeTokens ==
  ASSUME ChunksInvariant, ready # <<>>, reply.form = "200"
  PROVE  /\ ready[1].kind # "boundary" /\ Reached.part = 1
         /\ ready[1].kind = "byte" => Reached.nr < ChunksSize /\ Chunks!byte = Reached.nr
         /\ ready[1].kind = "EOF" => Reached.nr = ChunksSize /\ ~Lost
<1>1. Reached.part = 1
  BY TokenMeans, ChunksTypes DEF ChunksInvariant, WholeIsSplit
<1>2. reply.parts = 1
  BY DEF ChunksInvariant, Chunks!TypeOK, Chunks!Replies
<1>3. /\ Len(Chunks!Part(1)) = ChunksSize
      /\ \A j \in 1..ChunksSize : Chunks!Part(1)[j] = j - 1
  BY PartFacts DEF ChunksInvariant
<1>4. ready[1].kind # "boundary"
  BY <1>1, <1>2, TokenMeans
<1>5. ready[1].kind = "byte" => Reached.nr < ChunksSize /\ Chunks!byte = Reached.nr
  <2> SUFFICES ASSUME ready[1].kind = "byte"
               PROVE  Reached.nr < ChunksSize /\ Chunks!byte = Reached.nr
    OBVIOUS
  <2>1. Reached.nr \in Nat /\ Reached.nr < Len(Chunks!Part(1)) /\ Chunks!byte = Chunks!Part(1)[Reached.nr + 1]
    BY <1>1, TokenMeans
  <2> QED
    BY <1>3, <2>1, ChunksAssumption
<1>6. ready[1].kind = "EOF" => Reached.nr = ChunksSize /\ ~Lost
  BY <1>1, <1>3, TokenMeans DEF Failing
<1> QED
  BY <1>1, <1>4, <1>5, <1>6

(* The same for the part of a multipart body that belongs to a chunk.      *)
LEMMA PartTokens ==
  ASSUME ChunksInvariant, ready # <<>>, reply.form = "multipart", Reached.part \in 1..Len(chunks)
  PROVE  LET c == chunks[Reached.part]
         IN  /\ ready[1].kind = "byte" => Reached.nr < LengthOf(c) /\ Chunks!byte = c.off + Reached.nr
             /\ ready[1].kind \in {"boundary", "EOF"} => Reached.nr = LengthOf(c)
<1> DEFINE c == chunks[Reached.part]
<1>1. c \in ChunkRecords /\ c.off \in Nat /\ Reached.part \in Nat
  BY ChunksTypes
<1>2. Chunks!Part(Reached.part) = Chunks!BytesOf(c)
  BY <1>1, PartFacts DEF ChunksInvariant
<1>3. /\ LengthOf(c) \in Nat
      /\ Len(Chunks!BytesOf(c)) = LengthOf(c)
      /\ \A j \in 1..LengthOf(c) : Chunks!BytesOf(c)[j] = c.off + j - 1
  BY <1>1, ChunkBytes, ChunksAreSpans
<1> HIDE DEF c
<1>4. ready[1].kind = "byte" => Reached.nr < LengthOf(c) /\ Chunks!byte = c.off + Reached.nr
  <2> SUFFICES ASSUME ready[1].kind = "byte"
               PROVE  Reached.nr < LengthOf(c) /\ Chunks!byte = c.off + Reached.nr
    OBVIOUS
  <2>1. /\ Reached.nr \in Nat /\ Reached.nr < LengthOf(c)
        /\ Chunks!byte = Chunks!BytesOf(c)[Reached.nr + 1]
    BY <1>2, <1>3, TokenMeans
  <2> QED
    BY <1>1, <1>3, <2>1
<1>5. ready[1].kind \in {"boundary", "EOF"} => Reached.nr = LengthOf(c)
  BY <1>2, <1>3, TokenMeans
<1> QED
  BY <1>4, <1>5 DEF c

(* Taking a token moves on in the body.                                    *)
LEMMA TakingMoves ==
  ASSUME ChunksInvariant, ready # <<>>, Chunks!token.kind \in {"byte", "boundary"},
         Chunks!Take, UNCHANGED <<chunks, reply, chunksBody, closed, handler>>
  PROVE  /\ TokensInOrder' /\ BuffersAreCounted' /\ OnePart' /\ ~Lost
         /\ ready' \in Seq(Chunks!Tokens) /\ empty' \in 0..Buffers
         /\ Chunks!token.kind = "byte" =>
              Reached'.part = Reached.part /\ Reached'.nr = Reached.nr + 1
         /\ Chunks!token.kind = "boundary" => Reached' = Chunks!Place(Reached.part + 1, 0)
<1>1. Chunks!token = ready[1] /\ ~Lost
  BY TokenMeans DEF Failing
<1>2. /\ ready' \in Seq(Chunks!Tokens) /\ empty' \in 0..Buffers
      /\ TokensInOrder' /\ BuffersAreCounted'
      /\ Reached' = Chunks!Behind(Reached, ready[1].kind)
      /\ \A i \in 1..Len(ready') : i + 1 \in 1..Len(ready) /\ ready'[i] = ready[i + 1]
  BY <1>1, TokenIsTaken DEF ChunksInvariant
<1>3. OnePart'
  BY <1>2 DEF ChunksInvariant, WholeIsSplit, OnePart
<1> QED
  BY <1>1, <1>2, <1>3 DEF Chunks!Behind, Chunks!Place

(* What TypeOK says is kept by a step of the producer or consumer that     *)
(* may take a token.                                                       *)
LEMMA TypesAfterTaking ==
  ASSUME ChunksInvariant, UNCHANGED <<chunks, reply, chunksBody, closed, handler>>,
         ready' \in Seq(Chunks!Tokens), empty' \in 0..Buffers,
         producer' \in ProducerPCs,
         chunksOffset' \in Nat, skip' \in Nat, left' \in Nat \cup {-1}, errors' \in Nat,
         got' \in Seq(Seq(Int)), ended' \in Seq({"reading", "EOF", "error", "early"}),
         Len(got') = Len(ended')
  PROVE  Chunks!TypeOK'
BY DEF ChunksInvariant, Chunks!TypeOK, Chunks!Rest, ProducerPCs

(* The failure is taken: nothing more can be.  For multipart.Reader it     *)
(* stays.                                                                  *)
LEMMA FailureIsTaken ==
  ASSUME ChunksInvariant, ready # <<>>, Chunks!token.kind \in Failing,
         Chunks!TakeFailure, UNCHANGED <<chunks, reply, chunksBody, closed, handler>>
  PROVE  /\ TokensInOrder' /\ BuffersAreCounted' /\ OnePart' /\ Lost /\ Lost'
         /\ ready' \in Seq(Chunks!Tokens) /\ empty' \in 0..Buffers
         /\ reply.form = "multipart" => Reached' = Reached
<1>1. Chunks!token = ready[1] /\ Lost /\ 1 \in 1..Len(ready)
  BY TokenMeans, ChunksTypes
<1>2. Len(ready) = 1 /\ handler = "ended"
  BY <1>1 DEF ChunksInvariant, TokensInOrder, TokenInOrder
<1>3. empty' = empty /\ empty \in 0..Buffers
  BY DEF Chunks!TakeFailure, ChunksInvariant, Chunks!TypeOK
<1>4. CASE reply.form = "multipart"
  <2>1. UNCHANGED Chunks!network
    BY <1>4 DEF Chunks!TakeFailure, Chunks!network
  <2> QED
    BY <1>1, <1>3, <2>1, NetworkIsKept, ChunksTypes DEF Chunks!network
<1>5. CASE reply.form # "multipart"
  <2>6. ready' = Tail(ready) /\ ready \in Seq(Chunks!Tokens)
    BY <1>5, ChunksTypes DEF Chunks!TakeFailure
  <2>7. ready' \in Seq(Chunks!Tokens) /\ Len(ready') = 0
    BY <1>2, <2>6
  <2>1. ready' = <<>> /\ Len(ready') = 0
    BY <2>7
  <2>2. ready' \in Seq(Chunks!Tokens) /\ Lost'
    BY <1>2, <2>1 DEF Lost
  <2>3. TokensInOrder'
    <3>1. (chunksBody.nr <= Len(Chunks!Part(chunksBody.part)))'
      BY BodyIsKept DEF ChunksInvariant, TokensInOrder
    <3>2. 1..Len(ready') = {}
      BY <2>1
    <3> QED
      BY <3>1, <3>2 DEF TokensInOrder
  <2>4. BuffersAreCounted'
    BY <1>2, <1>3, <2>1, ChunksAssumption DEF BuffersAreCounted
  <2>5. OnePart'
    BY <2>1 DEF ChunksInvariant, WholeIsSplit, OnePart
  <2> QED
    BY <1>1, <1>3, <1>5, <2>2, <2>3, <2>4, <2>5
<1> QED
  BY <1>4, <1>5

(* splitHTTP200ResponseToPartial: what is before the chunk is discarded.   *)
LEMMA SkipKeeps == ChunksInvariant /\ Chunks!Skip => ChunksInvariant'
<1> SUFFICES ASSUME ChunksInvariant, Chunks!Skip PROVE ChunksInvariant'
  OBVIOUS
<1> USE ChunksTypes
<1>1. /\ producer = "skip" /\ reply.form = "200"
      /\ UNCHANGED <<chunks, reply, chunksBody, closed, handler, chunksOffset, got, ended, errors>>
  BY DEF Chunks!Skip, ChunksInvariant, StreamsAreClosed
<1>2. /\ Len(got) < Len(chunks) /\ chunksOffset = Chunks!current.off
      /\ skip <= chunksOffset /\ OffsetIsReached(chunksOffset - skip)
  BY <1>1 DEF ChunksInvariant, WholeIsSplit
<1>3. Chunks!current' = Chunks!current /\ Chunks!current.len \in Nat \cup {-1}
  <2>1. Len(got) + 1 \in 1..Len(chunks)
    BY <1>2
  <2>2. chunks[Len(got) + 1].len \in Nat \cup {-1}
    BY <2>1
  <2> QED
    BY <1>1, <2>2 DEF Chunks!current
<1>4. producer' \in {"skip", "offer", "error", "crashed"} =>
        EndIsTold' /\ StreamsAreExact' /\ StreamsAreClosed' /\ BodyIsHandedOut'
  BY <1>1, StreamsAreKept
<1>5. PartsAreSplit'
  BY <1>1 DEF PartsAreSplit
<1>6. CASE skip = 0 /\ producer' = "offer" /\ left' = Chunks!current.len /\ UNCHANGED <<skip, ready, empty>>
  <2>1. UNCHANGED Chunks!network
    BY <1>1, <1>6 DEF Chunks!network
  <2>2. Chunks!TypeOK'
    BY <1>1, <1>3, <1>6, <2>1, TypesAreKept DEF ProducerPCs
  <2>3. TokensInOrder' /\ BuffersAreCounted' /\ OnePart' /\ Reached' = Reached /\ Lost' = Lost
    BY <1>1, <2>1, NetworkIsKept
  <2>4. OffsetIsReached(chunksOffset)'
    BY <1>1, <1>2, <1>6, <2>3 DEF OffsetIsReached
  <2>5. WholeIsSplit'
    BY <1>1, <1>2, <1>3, <1>6, <2>3, <2>4 DEF WholeIsSplit, OnePart
  <2> QED
    BY <1>4, <1>5, <1>6, <2>2, <2>3, <2>5 DEF ChunksInvariant
<1>7. CASE /\ skip > 0 /\ ready # <<>> /\ Chunks!token.kind = "byte"
           /\ skip' = skip - 1 /\ Chunks!Take /\ UNCHANGED <<producer, left>>
  <2>1. /\ TokensInOrder' /\ BuffersAreCounted' /\ OnePart' /\ ~Lost
        /\ ready' \in Seq(Chunks!Tokens) /\ empty' \in 0..Buffers /\ Reached'.nr = Reached.nr + 1
    BY <1>1, <1>7, TakingMoves
  <2>2. Chunks!TypeOK'
    <3>1. skip' \in Nat
      BY <1>7
    <3> QED
      BY <1>1, <1>7, <2>1, <3>1, TypesAfterTaking
  <2>3. Reached.nr < ChunksSize
    BY <1>1, <1>7, WholeTokens, TokenMeans
  <2>4. OffsetIsReached(chunksOffset - skip)' /\ skip' <= chunksOffset'
    <3>1. Reached.nr = Least(chunksOffset - skip, ChunksSize)
      BY <1>2, <2>1 DEF OffsetIsReached
    <3>2. Reached.nr + 1 = Least(chunksOffset - (skip - 1), ChunksSize)
      BY <1>2, <1>7, <2>3, <3>1 DEF Least
    <3> QED
      BY <1>1, <1>2, <1>7, <2>1, <3>2 DEF OffsetIsReached
  <2>5. WholeIsSplit'
    BY <1>1, <1>2, <1>3, <1>7, <2>1, <2>4 DEF WholeIsSplit, OnePart
  <2> QED
    BY <1>1, <1>4, <1>5, <1>7, <2>1, <2>2, <2>5 DEF ChunksInvariant
<1>8. CASE /\ skip > 0 /\ ready # <<>> /\ Chunks!token.kind = "EOF"
           /\ skip' = 0 /\ UNCHANGED <<producer, left, ready, empty>>
  <2>1. UNCHANGED Chunks!network
    BY <1>1, <1>8 DEF Chunks!network
  <2>2. Chunks!TypeOK'
    BY <1>1, <1>8, <2>1, TypesAreKept
  <2>3. TokensInOrder' /\ BuffersAreCounted' /\ OnePart' /\ Reached' = Reached /\ Lost' = Lost
    BY <1>1, <2>1, NetworkIsKept
  <2>4. Reached.nr = ChunksSize /\ ~Lost
    BY <1>1, <1>8, WholeTokens, TokenMeans
  <2>5. OffsetIsReached(chunksOffset - skip)' /\ skip' <= chunksOffset'
    <3>1. Reached.nr = Least(chunksOffset - skip, ChunksSize)
      BY <1>2, <2>4 DEF OffsetIsReached
    <3>2. Reached.nr = Least(chunksOffset - 0, ChunksSize)
      BY <1>2, <1>8, <2>4, <3>1 DEF Least
    <3> QED
      BY <1>1, <1>8, <2>3, <3>2 DEF OffsetIsReached
  <2>6. WholeIsSplit'
    BY <1>1, <1>2, <1>3, <1>8, <2>3, <2>5 DEF WholeIsSplit, OnePart
  <2> QED
    BY <1>1, <1>4, <1>5, <1>8, <2>2, <2>3, <2>6 DEF ChunksInvariant
<1>9. CASE /\ ready # <<>> /\ Chunks!Failed /\ producer' = "error" /\ Chunks!TakeFailure
           /\ UNCHANGED <<skip, left>>
  <2>1. /\ TokensInOrder' /\ BuffersAreCounted' /\ OnePart'
        /\ ready' \in Seq(Chunks!Tokens) /\ empty' \in 0..Buffers
    BY <1>1, <1>9, FailureIsTaken DEF Chunks!Failed, Chunks!Failures, Failing
  <2>2. Chunks!TypeOK'
    BY <1>1, <1>9, <2>1, TypesAfterTaking DEF ProducerPCs
  <2>3. WholeIsSplit'
    BY <1>9, <2>1 DEF WholeIsSplit, OnePart
  <2> QED
    BY <1>4, <1>5, <1>9, <2>1, <2>2, <2>3 DEF ChunksInvariant
<1>10. CASE producer' = "crashed" /\ UNCHANGED <<skip, left, ready, empty>>
  <2>1. UNCHANGED Chunks!network
    BY <1>1, <1>10 DEF Chunks!network
  <2>2. Chunks!TypeOK'
    BY <1>1, <1>10, <2>1, TypesAreKept DEF ProducerPCs
  <2>3. TokensInOrder' /\ BuffersAreCounted' /\ OnePart'
    BY <1>1, <2>1, NetworkIsKept
  <2>4. WholeIsSplit'
    BY <1>10, <2>3 DEF WholeIsSplit, OnePart
  <2> QED
    BY <1>4, <1>5, <1>10, <2>2, <2>3, <2>4 DEF ChunksInvariant
<1> QED
  BY <1>6, <1>7, <1>8, <1>9, <1>10 DEF Chunks!Skip

(* handle206Response: the loop over the parts.                             *)
LEMMA NextPartKeeps == ChunksInvariant /\ Chunks!NextPart => ChunksInvariant'
<1> SUFFICES ASSUME ChunksInvariant, Chunks!NextPart PROVE ChunksInvariant'
  OBVIOUS
<1> USE ChunksTypes
<1>1. /\ producer = "next" /\ reply.form = "multipart" /\ ready # <<>>
      /\ UNCHANGED <<chunks, reply, chunksBody, closed, handler, chunksOffset, skip, got, ended, errors>>
  BY DEF Chunks!NextPart
<1>2. Len(got) = chunksOffset /\ Reached.part = chunksOffset /\ Len(got) <= Len(chunks)
  BY <1>1 DEF ChunksInvariant, PartsAreSplit, StreamsAreClosed
<1>3. \/ Chunks!token.kind = "byte" /\ Chunks!Take /\ UNCHANGED <<producer, left>>
      \/ /\ Chunks!token.kind = "boundary" /\ Chunks!Take /\ left' = -1
         /\ producer' = IF chunksOffset >= Len(chunks) THEN "error" ELSE "offer"
      \/ /\ producer' \in {"error", "error2", "close"} /\ (producer' = "close" => chunksOffset = Len(chunks))
         /\ UNCHANGED <<left, ready, empty>>
  <2>1. Chunks!token.kind \in {"byte", "boundary", "EOF"} \cup Failing
    BY <1>1, TokenMeans
  <2>2. CASE Chunks!token.kind = "byte"
    BY <2>2 DEF Chunks!NextPart
  <2>3. CASE Chunks!token.kind = "boundary"
    BY <2>3 DEF Chunks!NextPart, Chunks!Rest
  <2>4. CASE Chunks!token.kind = "EOF"
    BY <2>4 DEF Chunks!NextPart
  <2>5. CASE Chunks!token.kind \in Failing
    BY <2>5 DEF Chunks!NextPart, Chunks!Failed, Chunks!Failures, Failing
  <2> QED
    BY <2>1, <2>2, <2>3, <2>4, <2>5
<1>4. ASSUME producer' \in {"next", "offer", "error", "error2", "close"},
             producer' = "close" => chunksOffset = Len(chunks)
      PROVE  EndIsTold' /\ StreamsAreExact' /\ StreamsAreClosed' /\ BodyIsHandedOut'
  BY <1>1, <1>2, <1>4, StreamsAreKept
<1>5. WholeIsSplit'
  BY <1>1 DEF WholeIsSplit
<1>6. CASE Chunks!token.kind = "byte" /\ Chunks!Take /\ UNCHANGED <<producer, left>>
  <2>1. /\ TokensInOrder' /\ BuffersAreCounted' /\ ready' \in Seq(Chunks!Tokens) /\ empty' \in 0..Buffers
        /\ Reached'.part = Reached.part
    BY <1>1, <1>6, TakingMoves
  <2>2. Chunks!TypeOK'
    BY <1>1, <1>6, <2>1, TypesAfterTaking
  <2>3. PartsAreSplit'
    BY <1>1, <1>2, <1>6, <2>1 DEF PartsAreSplit
  <2> QED
    BY <1>1, <1>4, <1>5, <1>6, <2>1, <2>2, <2>3 DEF ChunksInvariant
<1>7. CASE /\ Chunks!token.kind = "boundary" /\ Chunks!Take /\ left' = -1
           /\ producer' = IF chunksOffset >= Len(chunks) THEN "error" ELSE "offer"
  <2>1. /\ TokensInOrder' /\ BuffersAreCounted' /\ ready' \in Seq(Chunks!Tokens) /\ empty' \in 0..Buffers
        /\ Reached' = Chunks!Place(Reached.part + 1, 0)
    BY <1>1, <1>7, TakingMoves
  <2>2. Chunks!TypeOK'
    BY <1>1, <1>7, <2>1, TypesAfterTaking DEF ProducerPCs
  <2>3. PartsAreSplit'
    BY <1>1, <1>2, <1>7, <2>1 DEF PartsAreSplit, Rest, Chunks!Place
  <2> QED
    BY <1>4, <1>5, <1>7, <2>1, <2>2, <2>3 DEF ChunksInvariant
<1>8. CASE /\ producer' \in {"error", "error2", "close"} /\ (producer' = "close" => chunksOffset = Len(chunks))
           /\ UNCHANGED <<left, ready, empty>>
  <2>1. UNCHANGED Chunks!network
    BY <1>1, <1>8 DEF Chunks!network
  <2>2. Chunks!TypeOK'
    BY <1>1, <1>8, <2>1, TypesAreKept DEF ProducerPCs
  <2>3. TokensInOrder' /\ BuffersAreCounted'
    BY <1>1, <2>1, NetworkIsKept
  <2>4. PartsAreSplit'
    BY <1>8 DEF PartsAreSplit
  <2> QED
    BY <1>4, <1>5, <1>8, <2>2, <2>3, <2>4 DEF ChunksInvariant
<1> QED
  BY <1>3, <1>6, <1>7, <1>8

(* handle206Response with one range hands out the body.                    *)
LEMMA SingleRangeKeeps == ChunksInvariant /\ Chunks!SingleRange => ChunksInvariant'
<1> SUFFICES ASSUME ChunksInvariant, Chunks!SingleRange PROVE ChunksInvariant'
  OBVIOUS
<1> USE ChunksTypes
<1>1. /\ producer = "next" /\ reply.form = "single" /\ producer' = "direct"
      /\ got' = <<<<>>>> /\ ended' = <<"reading">>
      /\ UNCHANGED <<chunks, reply, Chunks!network, chunksOffset, skip, left, errors>>
      /\ UNCHANGED <<chunksBody, closed, empty, ready, handler>>
  BY DEF Chunks!SingleRange, Chunks!network
<1>2. /\ Len(chunks) > 0 /\ got = <<>>
      /\ ready = <<>> /\ chunksBody.part = 1 /\ handler = "ended"
      /\ Len(chunks) = 1 => reply.span = chunks[1]
  BY <1>1 DEF ChunksInvariant, BodyIsHandedOut, StreamsAreClosed
<1>3. /\ got' \in Seq(Seq(Int)) /\ ended' \in Seq({"reading", "EOF", "error", "early"})
      /\ Len(got') = 1 /\ Len(ended') = 1 /\ got'[1] = <<>> /\ ended'[1] = "reading" /\ Len(got'[1]) = 0
  <2>1. <<>> \in Seq(Int)
    OBVIOUS
  <2> QED
    BY <1>1, <2>1
<1>4. Chunks!TypeOK'
  BY <1>1, <1>3, TypesAreKept DEF ProducerPCs
<1>5. TokensInOrder' /\ BuffersAreCounted'
  BY <1>1, NetworkIsKept
<1>6. chunksBody.nr = 0
  BY <1>1 DEF ChunksInvariant, BodyIsHandedOut
<1>7. StreamsAreExact'
  <2> SUFFICES ASSUME NEW k \in 1..Len(got') PROVE StreamIsExact(k)'
    BY DEF StreamsAreExact
  <2>1. k = 1 /\ chunks[1] \in SpanRecords
    BY <1>2, <1>3, ChunksAreSpans
  <2>2. LengthOf(chunks[1]) \in Nat /\ LengthOf(chunks[1])' = LengthOf(chunks[1])
    BY <1>1, <2>1, ChunkBytes DEF LengthOf
  <2>3. Chunks!Copied(1)' = 0
    BY <1>3 DEF Chunks!Copied
  <2> QED
    BY <1>3, <2>1, <2>2, <2>3 DEF StreamIsExact
<1>8. EndIsTold' /\ StreamsAreClosed'
  <2>1. EndIsTold'
    BY <1>1 DEF EndIsTold, Chunks!EndIsReported
  <2>2. \A k \in 1..Len(ended') : k = Len(ended')
    BY <1>3
  <2>3. Len(got') <= Len(chunks')
    BY <1>1, <1>2, <1>3
  <2>4. StreamsAreClosed'
    BY <1>1, <2>2, <2>3 DEF StreamsAreClosed
  <2> QED
    BY <2>1, <2>4
<1>9. WholeIsSplit' /\ PartsAreSplit'
  BY <1>1 DEF WholeIsSplit, PartsAreSplit
<1>10. BodyIsHandedOut'
  BY <1>1, <1>2, <1>3, <1>6 DEF BodyIsHandedOut
<1> QED
  BY <1>4, <1>5, <1>7, <1>8, <1>9, <1>10 DEF ChunksInvariant

(* The consumer reads the body itself.                                     *)
LEMMA DirectReadKeeps == ChunksInvariant /\ Chunks!DirectRead => ChunksInvariant'
<1> SUFFICES ASSUME ChunksInvariant, Chunks!DirectRead PROVE ChunksInvariant'
  OBVIOUS
<1> USE ChunksTypes
<1>1. PICK kind \in {Chunks!Following(chunksBody), "error"} :
        /\ got' = IF kind = "byte"
                  THEN [got EXCEPT ![1] = Append(@, Chunks!Part(chunksBody.part)[chunksBody.nr + 1])]
                  ELSE got
        /\ ended' = IF kind = "byte" THEN ended ELSE [ended EXCEPT ![1] = kind]
        /\ chunksBody' = Chunks!Behind(chunksBody, kind)
  BY DEF Chunks!DirectRead
<1>2. /\ producer = "direct" /\ ended[1] = "reading"
      /\ UNCHANGED <<chunks, reply, closed, empty, ready, handler, producer, chunksOffset, skip, left, errors>>
  BY DEF Chunks!DirectRead
<1>3. reply.form = "single" /\ reply.parts = 1
  BY <1>2 DEF ChunksInvariant, StreamsAreClosed, Chunks!Replies
<1>4. /\ ready = <<>> /\ chunksBody.part = 1 /\ handler = "ended" /\ Len(chunks) > 0
      /\ Len(chunks) = 1 => reply.span = chunks[1]
      /\ Len(got) = 1 /\ Len(ended) = 1 /\ chunksBody.nr = Len(got[1])
  BY <1>2, <1>3 DEF ChunksInvariant, BodyIsHandedOut
<1>5. chunksBody \in Chunks!Places /\ chunksBody.nr <= Len(Chunks!Part(1)) /\ chunksBody.nr \in Nat
  BY <1>4 DEF ChunksInvariant, TokensInOrder, Chunks!TypeOK, Chunks!Places
<1> DEFINE b == Chunks!Part(1)
           n == chunksBody.nr
<1>6. b \in Seq(Nat) /\ Len(b) \in Nat /\ b = Chunks!BytesOf(reply.span)
  BY <1>3, PartFacts DEF ChunksInvariant
<1>7. got[1] \in Seq(Int) /\ 1 \in 1..Len(got)
  <2>1. 1 \in 1..Len(got)
    BY <1>4
  <2>2. got \in Seq(Seq(Int))
    OBVIOUS
  <2> HIDE ChunksTypes
  <2> QED
    BY <2>1, <2>2
<1>8. kind \in {"byte", "EOF", "error"} /\ (kind = "byte" => n < Len(b)) /\ (kind = "EOF" => n = Len(b))
  <2>1. CASE kind = "error"
    BY <2>1
  <2>2. CASE kind = Chunks!Following(chunksBody)
    BY <1>3, <1>4, <1>5, <1>6, <2>2 DEF Chunks!Following
  <2> QED
    BY <2>1, <2>2
<1> HIDE DEF b
<1>9. /\ chunksBody' \in Chunks!Places /\ chunksBody'.part = 1
      /\ chunksBody'.nr = IF kind = "byte" THEN n + 1 ELSE n
  BY <1>1, <1>4, <1>5, <1>8 DEF Chunks!Behind, Chunks!Place, Chunks!Places
<1>10. /\ got' \in Seq(Seq(Int)) /\ Len(got') = 1
       /\ kind = "byte" => got'[1] = Append(got[1], b[n + 1])
       /\ kind # "byte" => got'[1] = got[1]
  <2>1. CASE kind = "byte"
    <3>1. b[n + 1] \in Int
      BY <1>5, <1>6, <1>8, <2>1, SMTT(30)
    <3>2. Append(got[1], b[n + 1]) \in Seq(Int)
      BY <1>7, <3>1
    <3>3. got' = [got EXCEPT ![1] = Append(got[1], b[n + 1])]
      BY <1>1, <1>4, <2>1 DEF b
    <3> QED
      BY <1>4, <1>7, <2>1, <3>2, <3>3
  <2>2. CASE kind # "byte"
    BY <1>1, <1>4, <2>2
  <2> QED
    BY <2>1, <2>2
<1>11. /\ ended' \in Seq({"reading", "EOF", "error", "early"}) /\ Len(ended') = 1
       /\ ended'[1] = IF kind = "byte" THEN "reading" ELSE kind
  <2>1. ended \in Seq({"reading", "EOF", "error", "early"}) /\ 1 \in 1..Len(ended)
    BY <1>4
  <2> HIDE ChunksTypes
  <2>2. CASE kind = "byte"
    BY <1>1, <1>2, <1>4, <2>1, <2>2
  <2>3. CASE kind \in {"EOF", "error"}
    <3>1. ended' = [ended EXCEPT ![1] = kind] /\ kind \in {"reading", "EOF", "error", "early"}
      BY <1>1, <2>3
    <3>2. Len(ended) = 1 /\ kind # "byte"
      BY <1>4, <2>3
    <3>3. /\ ended' \in Seq({"reading", "EOF", "error", "early"}) /\ Len(ended') = Len(ended)
          /\ ended'[1] = kind
      BY <2>1, <3>1, EntryReplaced
    <3> QED
      BY <3>2, <3>3, Zenon
  <2> QED
    BY <1>8, <2>2, <2>3
<1>12. Chunks!TypeOK'
  BY <1>2, <1>9, <1>10, <1>11 DEF ChunksInvariant, Chunks!TypeOK
<1>13. TokensInOrder' /\ BuffersAreCounted'
  <2>1. chunksBody'.nr <= Len(b)
    BY <1>5, <1>6, <1>8, <1>9 DEF b
  <2>2. Chunks!Part(1)' = b
    BY <1>2, BodyIsKept DEF b
  <2>3. Chunks!Part(chunksBody.part)' = b
    BY <1>9, <2>2
  <2>4. 1..Len(ready') = {}
    BY <1>2, <1>4
  <2>5. TokensInOrder'
    BY <2>1, <2>3, <2>4 DEF TokensInOrder
  <2> QED
    BY <1>2, <2>5 DEF ChunksInvariant, BuffersAreCounted
<1>14. kind = "byte" => /\ Len(got'[1]) = n + 1 /\ got'[1][n + 1] = b[n + 1]
                        /\ \A i \in 1..n : got'[1][i] = got[1][i]
  <2> SUFFICES ASSUME kind = "byte"
               PROVE  /\ Len(got'[1]) = n + 1 /\ got'[1][n + 1] = b[n + 1]
                      /\ \A i \in 1..n : got'[1][i] = got[1][i]
    OBVIOUS
  <2>1. n + 1 \in 1..Len(b)
    BY <1>5, <1>6, <1>8, SMTT(30)
  <2>2. b[n + 1] \in Int
    BY <1>6, <2>1
  <2>3. got'[1] = Append(got[1], b[n + 1]) /\ n = Len(got[1])
    BY <1>4, <1>10
  <2> HIDE ChunksTypes
  <2> QED
    BY <1>7, <2>2, <2>3
<1>15. StreamsAreExact'
  <2> SUFFICES ASSUME ~Chunks!Coalesced, NEW k \in 1..Len(got') PROVE StreamIsExact(k)'
    BY <1>2, BodyIsKept DEF StreamsAreExact
  <2>1. k = 1 /\ Len(chunks) = 1 /\ reply.span = chunks[1] /\ chunks[1] \in SpanRecords
    BY <1>3, <1>4, <1>10, ChunksAreSpans DEF Chunks!Coalesced
  <2> DEFINE c == chunks[1]
  <2>2. /\ LengthOf(c) \in Nat /\ Len(b) = LengthOf(c)
        /\ \A j \in 1..LengthOf(c) : b[j] = c.off + j - 1
    BY <1>6, <2>1, ChunkBytes
  <2>3. LengthOf(c)' = LengthOf(c)
    BY <1>2 DEF LengthOf
  <2>4. StreamIsExact(1) /\ Chunks!Copied(1) = n
    <3>1. Chunks!Copied(1) = n
      BY <1>2, <1>4 DEF Chunks!Copied
    <3> QED
      BY <1>7, <3>1 DEF ChunksInvariant, StreamsAreExact
  <2>5. \A j \in 1..n : got[1][j] = c.off + j - 1
    BY <2>4 DEF StreamIsExact
  <2> HIDE DEF c
  <2>6. CASE kind = "byte"
    <3>1. \A j \in 1..(n + 1) : j \in 1..n \/ j = n + 1
      BY <1>5, SMTT(30)
    <3>6. n \in Nat /\ n < LengthOf(c) /\ LengthOf(c) \in Nat
      BY <1>5, <1>8, <2>2, <2>6
    <3>7. n + 1 \in 1..LengthOf(c)
      <4> HIDE ChunksTypes DEF n
      <4> QED
        BY <3>6
    <3>2. b[n + 1] = c.off + (n + 1) - 1
      BY <2>2, <3>7
    <3>3. \A j \in 1..(n + 1) : got'[1][j] = c.off + j - 1
      BY <1>14, <2>5, <2>6, <3>1, <3>2
    <3>4. Chunks!Copied(1)' = n + 1 /\ ended'[1] # "EOF"
      BY <1>11, <1>14, <2>6 DEF Chunks!Copied
    <3>5. n + 1 <= LengthOf(c)
      BY <3>6
    <3> QED
      BY <1>2, <2>1, <2>3, <3>3, <3>4, <3>5 DEF StreamIsExact, c
  <2>7. CASE kind # "byte"
    <3>1. got'[1] = got[1] /\ ended'[1] = kind
      BY <1>10, <1>11, <2>7
    <3>2. Chunks!Copied(1)' \in Int /\ Chunks!Copied(1)' <= n /\ n <= LengthOf(c)
      BY <1>4, <1>5, <1>6, <1>7, <2>2, <3>1 DEF Chunks!Copied, b
    <3>3. \A j \in 1..Chunks!Copied(1)' : got'[1][j] = c.off + j - 1
      BY <1>5, <2>5, <3>1, <3>2, SMTT(30)
    <3>4. ended'[1] = "EOF" => Len(got'[1]) = LengthOf(c)
      BY <1>4, <1>8, <2>2, <3>1
    <3>5. Chunks!Copied(1)' <= LengthOf(c)
      BY <1>5, <2>2, <3>2
    <3> QED
      BY <1>2, <2>1, <2>3, <3>3, <3>4, <3>5 DEF StreamIsExact, c
  <2> QED
    BY <2>6, <2>7
<1>16. EndIsTold' /\ StreamsAreClosed'
  BY <1>2, <1>3, <1>4, <1>10, <1>11 DEF EndIsTold, Chunks!EndIsReported, StreamsAreClosed
<1>17. WholeIsSplit' /\ PartsAreSplit'
  BY <1>2, <1>3 DEF WholeIsSplit, PartsAreSplit
<1>18. BodyIsHandedOut'
  BY <1>2, <1>4, <1>9, <1>10, <1>11, <1>14 DEF BodyIsHandedOut
<1> QED
  BY <1>12, <1>13, <1>15, <1>16, <1>17, <1>18 DEF ChunksInvariant

(* The consumer closes the body, or there is nothing to hand out.          *)
LEMMA DirectEndKeeps == ChunksInvariant /\ (Chunks!DirectClose \/ Chunks!NoBoundary) => ChunksInvariant'
<1> SUFFICES ASSUME ChunksInvariant, Chunks!DirectClose \/ Chunks!NoBoundary PROVE ChunksInvariant'
  OBVIOUS
<1> USE ChunksTypes
<1>1. /\ producer' = "done" /\ closed' = {"body"}
      /\ UNCHANGED <<chunks, reply, chunksBody, empty, ready, handler, chunksOffset, skip, left, got>>
  BY DEF Chunks!DirectClose, Chunks!NoBoundary
<1>2. TokensInOrder' /\ BuffersAreCounted'
  BY <1>1, TokensAreKept DEF ChunksInvariant, BuffersAreCounted
<1>3. CASE Chunks!DirectClose
  <2>1. /\ producer = "direct" /\ UNCHANGED errors
        /\ ended' = IF ended[1] = "reading" THEN <<"early">> ELSE ended
    BY <1>3 DEF Chunks!DirectClose
  <2>2. reply.form = "single"
    BY <2>1 DEF ChunksInvariant, StreamsAreClosed
  <2>3. Len(got) = 1 /\ Len(ended) = 1
    BY <2>1, <2>2 DEF ChunksInvariant, BodyIsHandedOut
  <2>4. /\ ended' \in Seq({"reading", "EOF", "error", "early"}) /\ Len(ended') = 1 /\ ended'[1] # "reading"
        /\ ended'[1] = ended[1] \/ (ended[1] = "reading" /\ ended'[1] = "early")
    <3>1. CASE ended[1] = "reading"
      <4>1. ended' = <<"early">>
        BY <2>1, <3>1
      <4> HIDE ChunksTypes
      <4> QED
        BY <3>1, <4>1
    <3>2. CASE ended[1] # "reading"
      BY <2>1, <2>3, <3>2
    <3> QED
      BY <3>1, <3>2
  <2>5. Chunks!TypeOK'
    BY <1>1, <2>1, <2>3, <2>4 DEF ChunksInvariant, Chunks!TypeOK
  <2>6. StreamsAreExact'
    <3> SUFFICES ASSUME ~Chunks!Coalesced, NEW k \in 1..Len(got) PROVE StreamIsExact(k)'
      BY <1>1, BodyIsKept DEF StreamsAreExact
    <3>1. k = 1 /\ StreamIsExact(1)
      BY <2>3 DEF ChunksInvariant, StreamsAreExact
    <3>2. Chunks!Copied(1)' = Chunks!Copied(1) /\ LengthOf(chunks[1])' = LengthOf(chunks[1])
      BY <1>1, <2>4 DEF Chunks!Copied, LengthOf
    <3> QED
      BY <1>1, <2>4, <3>1, <3>2 DEF StreamIsExact
  <2>7. EndIsTold' /\ StreamsAreClosed' /\ BodyIsHandedOut'
    <3>1. EndIsTold'
      BY <1>1, <2>2, <2>3 DEF EndIsTold, Chunks!EndIsReported, Chunks!Coalesced
    <3>2. StreamsAreClosed'
      <4>1. \A k \in 1..Len(ended') : ended'[k] # "reading"
        BY <2>4
      <4>2. Len(got') <= Len(chunks')
        BY <1>1 DEF ChunksInvariant, StreamsAreClosed
      <4> QED
        BY <1>1, <2>2, <4>1, <4>2 DEF StreamsAreClosed
    <3>3. BodyIsHandedOut'
      BY <1>1 DEF ChunksInvariant, BodyIsHandedOut
    <3> QED
      BY <3>1, <3>2, <3>3
  <2>8. WholeIsSplit' /\ PartsAreSplit'
    BY <1>1, <2>2 DEF WholeIsSplit, PartsAreSplit
  <2> QED
    BY <1>2, <2>5, <2>6, <2>7, <2>8 DEF ChunksInvariant
<1>4. CASE Chunks!NoBoundary
  <2>1. /\ producer = "next" /\ reply.form = "no boundary" /\ errors' = errors + 1 /\ UNCHANGED ended
    BY <1>4 DEF Chunks!NoBoundary
  <2>2. Chunks!TypeOK' /\ errors' > 0
    <3>1. errors' \in Nat /\ errors' > 0 /\ closed' \in SUBSET {"terminate", "emptyBuffer", "body"}
      <4>1. errors \in Nat /\ errors' = errors + 1
        BY <2>1
      <4> HIDE ChunksTypes
      <4>2. errors' \in Nat /\ errors' > 0
        BY <4>1
      <4> QED
        BY <1>1, <4>2
    <3>2. Len(got') = Len(ended') /\ ended' \in Seq({"reading", "EOF", "error", "early"})
      BY <1>1, <2>1
    <3> QED
      BY <1>1, <2>1, <3>1, <3>2 DEF ChunksInvariant, Chunks!TypeOK
  <2>3. got = <<>> /\ Len(ended) = 0
    BY <2>1 DEF ChunksInvariant, StreamsAreClosed
  <2>4. StreamsAreExact'
    BY <1>1, <2>1, StreamsStay DEF ChunksInvariant
  <2>5. EndIsTold' /\ StreamsAreClosed' /\ BodyIsHandedOut'
    BY <1>1, <2>1, <2>2, <2>3
       DEF ChunksInvariant, EndIsTold, Chunks!EndIsReported, StreamsAreClosed, BodyIsHandedOut
  <2>6. WholeIsSplit' /\ PartsAreSplit'
    BY <1>1, <2>1 DEF WholeIsSplit, PartsAreSplit
  <2> QED
    BY <1>2, <2>2, <2>4, <2>5, <2>6 DEF ChunksInvariant
<1> QED
  BY <1>3, <1>4

(* Only the last stream is being read.                                     *)
LEMMA ReadingIsLast ==
  ASSUME ChunksInvariant
  PROVE  /\ \A k \in 1..Len(got) : ended[k] = "reading" => k = Len(got)
         /\ producer \in {"next", "skip", "offer", "error", "error2", "close", "done"} =>
              \A k \in 1..Len(got) : ended[k] # "reading"
<1>1. Len(ended) = Len(got)
  BY ChunksTypes
<1> QED
  BY <1>1 DEF ChunksInvariant, StreamsAreClosed

(* What is known of a stream while the producer waits for its end.         *)
LEMMA WaitingFacts ==
  ASSUME ChunksInvariant, producer = "wait"
  PROVE  /\ Len(got) \in 1..Len(got) /\ Len(got) \in 1..Len(chunks)
         /\ reply.form \in {"200", "multipart"} /\ ~Chunks!Coalesced
<1>1. Len(got) > 0 /\ Len(got) <= Len(chunks) /\ reply.form \notin {"single", "no boundary"}
  BY DEF ChunksInvariant, StreamsAreClosed
<1>2. reply.form \in {"200", "multipart"}
  BY <1>1, ReplyFacts, ChunksTypes
<1>3. Len(got) \in Nat /\ Len(chunks) \in Nat
  BY ChunksTypes
<1> QED
  <2>1. ~Chunks!Coalesced
    BY <1>2 DEF Chunks!Coalesced
  <2>2. Len(got) \in 1..Len(got) /\ Len(got) \in 1..Len(chunks)
    <3>1. ASSUME NEW m \in Nat, NEW n \in Nat, m > 0, m <= n
          PROVE  m \in 1..m /\ m \in 1..n
      BY <3>1
    <3> QED
      BY <1>1, <1>3, <3>1
  <2> QED
    BY <1>2, <2>1, <2>2

(* A stream is handed out.                                                 *)
LEMMA OfferKeeps == ChunksInvariant /\ Chunks!Offer => ChunksInvariant'
<1> SUFFICES ASSUME ChunksInvariant, Chunks!Offer PROVE ChunksInvariant'
  OBVIOUS
<1> USE ChunksTypes
<1>1. /\ producer = "offer" /\ producer' = "wait"
      /\ got' = Append(got, <<>>) /\ ended' = Append(ended, "reading")
      /\ UNCHANGED <<chunks, reply, Chunks!network, chunksOffset, skip, left, errors>>
  BY DEF Chunks!Offer
<1>2. /\ reply.form = "200" =>
           /\ Len(got) < Len(chunks) /\ chunksOffset = Chunks!current.off
           /\ left = Chunks!current.len /\ OffsetIsReached(chunksOffset)
      /\ reply.form = "multipart" =>
           /\ Len(got) = chunksOffset /\ left = -1 /\ chunksOffset < Len(chunks)
           /\ Reached = Chunks!Place(chunksOffset + 1, 0)
      /\ reply.form \notin {"single", "no boundary"}
  BY <1>1 DEF ChunksInvariant, WholeIsSplit, PartsAreSplit, StreamsAreClosed, Rest
<1>3. reply.form \in {"200", "multipart"} /\ Len(got) < Len(chunks)
  BY <1>2, ReplyFacts
<1>4. <<>> \in Seq(Int)
  OBVIOUS
<1>5. /\ got' \in Seq(Seq(Int)) /\ ended' \in Seq({"reading", "EOF", "error", "early"})
      /\ Len(got') = Len(got) + 1 /\ Len(ended') = Len(got) + 1
      /\ \A k \in 1..Len(got) : got'[k] = got[k] /\ ended'[k] = ended[k]
      /\ got'[Len(got) + 1] = <<>> /\ ended'[Len(got) + 1] = "reading"
  BY <1>1, <1>4
<1>6. Chunks!TypeOK'
  BY <1>1, <1>5, TypesAreKept DEF ProducerPCs
<1>7. TokensInOrder' /\ BuffersAreCounted' /\ OnePart' /\ Reached' = Reached /\ Lost' = Lost
  BY <1>1, NetworkIsKept
<1>8. StreamsAreExact'
  <2> SUFFICES ASSUME NEW k \in 1..Len(got')
               PROVE  StreamIsExact(k)'
    BY DEF StreamsAreExact
  <2>1. LengthOf(chunks[k])' = LengthOf(chunks[k])
    BY <1>1 DEF LengthOf
  <2>2. CASE k \in 1..Len(got)
    <3>1. Chunks!Copied(k)' = Chunks!Copied(k) /\ StreamIsExact(k)
      BY <1>3, <1>5, <2>2 DEF Chunks!Copied, ChunksInvariant, StreamsAreExact, Chunks!Coalesced
    <3> QED
      BY <1>1, <1>5, <2>1, <2>2, <3>1 DEF StreamIsExact
  <2>3. CASE k = Len(got) + 1
    <3>1. chunks[k] \in ChunkRecords
      BY <1>3, <2>3
    <3>2. LengthOf(chunks[k]) \in Nat
      BY <3>1, ChunkBytes, ChunksAreSpans
    <3>3. Chunks!Copied(k)' = 0
      BY <1>5, <2>3 DEF Chunks!Copied
    <3> QED
      BY <1>5, <2>1, <2>3, <3>2, <3>3, SMTT(30) DEF StreamIsExact
  <2> QED
    BY <1>5, <2>2, <2>3
<1>9. EndIsTold' /\ StreamsAreClosed' /\ BodyIsHandedOut'
  <2>1. \A k \in 1..Len(ended') : ended'[k] = "reading" => k = Len(ended')
    <3>1. \A k \in 1..Len(got) : ended[k] # "reading"
      BY <1>1, ReadingIsLast
    <3>2. \A k \in 1..Len(ended') : k \in 1..Len(got) \/ k = Len(ended')
      BY <1>5
    <3> QED
      BY <1>5, <3>1, <3>2
  <2>2. EndIsTold' /\ BodyIsHandedOut'
    BY <1>1, <1>3 DEF EndIsTold, Chunks!EndIsReported, BodyIsHandedOut
  <2>3. Len(got') <= Len(chunks') /\ Len(got') > 0
    BY <1>1, <1>3, <1>5
  <2>4. StreamsAreClosed'
    BY <1>1, <1>3, <2>1, <2>3 DEF StreamsAreClosed
  <2> QED
    BY <2>2, <2>4
<1>10. /\ LastChunk' = chunks[Len(got) + 1] /\ LastEnd' = "reading" /\ Len(got'[Len(got')]) = 0
  BY <1>1, <1>5 DEF LastChunk, LastEnd
<1>11. WholeIsSplit'
  <2> SUFFICES ASSUME reply.form = "200" PROVE WholeIsSplit'
    BY <1>1 DEF WholeIsSplit
  <2>1. /\ chunksOffset' = LastChunk'.off /\ left' = LastChunk'.len
        /\ LastChunk'.len \in Nat \cup {-1} /\ LastChunk'.off \in Nat
    BY <1>1, <1>2, <1>3, <1>10 DEF Chunks!current
  <2>2. ~Lost' => Reached'.nr = Least(LastChunk'.off, ChunksSize)
    BY <1>1, <1>2, <1>7, <2>1 DEF OffsetIsReached
  <2>3. Least(LastChunk'.off, ChunksSize) \in Int
    BY <2>1 DEF Least
  <2>4. (LastEnd = "reading" =>
           /\ left # Rest => left + Len(got[Len(got)]) = LastChunk.len
           /\ ~Lost => Reached.nr = Least(LastChunk.off, ChunksSize) + Len(got[Len(got)]))'
    BY <1>10, <2>1, <2>2, <2>3 DEF Rest
  <2> QED
    BY <1>1, <1>7, <1>10, <2>1, <2>4 DEF WholeIsSplit, OnePart, Rest
<1>12. PartsAreSplit'
  <2> SUFFICES ASSUME reply.form = "multipart" PROVE PartsAreSplit'
    BY <1>1 DEF PartsAreSplit
  <2>1. Reached'.part = chunksOffset + 1 /\ Reached'.nr = 0
    BY <1>2, <1>7 DEF Chunks!Place
  <2> QED
    BY <1>1, <1>2, <1>5, <1>10, <2>1 DEF PartsAreSplit, Rest
<1> QED
  BY <1>6, <1>7, <1>8, <1>9, <1>11, <1>12 DEF ChunksInvariant

(* What a step does that changes how the last stream ended.                *)
LEMMA LastStreamEnds ==
  ASSUME ChunksInvariant, producer = "wait", LastEnd = "reading", NEW e \in {"EOF", "error", "early"},
         ended' = [ended EXCEPT ![Chunks!atEnd] = e],
         UNCHANGED <<chunks, reply, Chunks!network, producer, chunksOffset, skip, left, got, errors>>,
         e = "EOF" => Len(got[Len(got)]) = LengthOf(LastChunk),
         reply.form = "200" =>
           /\ e = "EOF" =>
                /\ OffsetIsReached(IF left = Rest THEN ChunksSize ELSE LastChunk.off + LastChunk.len)
                /\ left # 0 => OffsetIsReached(ChunksSize)
           /\ e = "early" /\ left # Rest => OffsetIsReached(LastChunk.off + LastChunk.len - left)
           /\ e = "error" => Lost
  PROVE  ChunksInvariant'
<1> USE ChunksTypes
<1>1. Len(got) > 0 /\ Chunks!atEnd = Len(got) /\ Len(got) <= Len(chunks)
  BY DEF ChunksInvariant, StreamsAreClosed, Chunks!atEnd
<1>2. /\ ended' \in Seq({"reading", "EOF", "error", "early"}) /\ Len(ended') = Len(ended)
      /\ ended'[Len(got)] = e
      /\ \A k \in 1..Len(got) : k # Len(got) => ended'[k] = ended[k]
  BY <1>1
<1>3. Chunks!TypeOK'
  BY <1>2, TypesAreKept DEF ProducerPCs
<1>4. TokensInOrder' /\ BuffersAreCounted' /\ OnePart' /\ Reached' = Reached /\ Lost' = Lost
  BY NetworkIsKept
<1>10. reply.form \in {"200", "multipart"} /\ ~Chunks!Coalesced
  BY WaitingFacts
<1>5. StreamsAreExact'
  <2> SUFFICES ASSUME NEW k \in 1..Len(got)
               PROVE  StreamIsExact(k)'
    BY DEF StreamsAreExact
  <2>1. LengthOf(chunks[k])' = LengthOf(chunks[k])
    BY DEF LengthOf
  <2>2. k = Len(got) /\ e = "EOF" => Len(got[k]) = LengthOf(chunks[k])
    BY DEF LastChunk
  <2>3. StreamIsExact(k) /\ Chunks!Copied(k) \in Int
    <3>1. got[k] \in Seq(Int)
      OBVIOUS
    <3> QED
      BY <1>10, <3>1 DEF ChunksInvariant, StreamsAreExact, Chunks!Copied
  <2>4. Chunks!Copied(k)' \in Int /\ Chunks!Copied(k)' <= Chunks!Copied(k)
    <3>1. got[k] \in Seq(Int)
      OBVIOUS
    <3>2. k = Len(got) => ended[k] = "reading"
      BY DEF LastEnd
    <3>3. CASE k = Len(got)
      BY <1>2, <3>1, <3>2, <3>3 DEF Chunks!Copied
    <3>4. CASE k # Len(got)
      BY <1>2, <2>3, <3>4, SMTT(30) DEF Chunks!Copied
    <3> QED
      BY <3>3, <3>4
  <2>5. /\ Chunks!Copied(k) <= LengthOf(chunks[k])
        /\ \A j \in 1..Chunks!Copied(k) : got[k][j] = chunks[k].off + j - 1
    BY <2>3 DEF StreamIsExact
  <2>6. LengthOf(chunks[k]) \in Nat
    <3>1. k \in 1..Len(chunks)
      BY <1>1
    <3>2. chunks[k] \in ChunkRecords
      BY <3>1
    <3> QED
      BY <3>2, ChunkBytes, ChunksAreSpans
  <2>7. /\ Chunks!Copied(k)' <= LengthOf(chunks[k])
        /\ \A j \in 1..Chunks!Copied(k)' : got[k][j] = chunks[k].off + j - 1
    <3> HIDE ChunksTypes
    <3>1. \A j \in 1..Chunks!Copied(k)' : j \in 1..Chunks!Copied(k)
      BY <2>3, <2>4
    <3>2. Chunks!Copied(k)' <= LengthOf(chunks[k])
      BY <2>3, <2>4, <2>5, <2>6
    <3> QED
      BY <2>5, <3>1, <3>2
  <2>8. ended'[k] = "EOF" => Len(got[k]) = LengthOf(chunks[k])
    BY <1>2, <2>2, <2>3, SMTT(30) DEF StreamIsExact
  <2> QED
    BY <2>1, <2>7, <2>8 DEF StreamIsExact
<1>6. EndIsTold' /\ StreamsAreClosed' /\ BodyIsHandedOut'
  <2>1. \A k \in 1..Len(ended') : ended'[k] # "reading"
    <3>1. \A k \in 1..Len(got) : k # Len(got) => ended[k] # "reading"
      BY ReadingIsLast
    <3> QED
      BY <1>2, <3>1
  <2> QED
    BY <1>1, <1>2, <1>10, <2>1
       DEF ChunksInvariant, EndIsTold, Chunks!EndIsReported, StreamsAreClosed, BodyIsHandedOut
<1>7. LastChunk' = LastChunk /\ LastEnd' = e
  BY <1>2 DEF LastChunk, LastEnd
<1>8. WholeIsSplit'
  <2> SUFFICES ASSUME reply.form = "200" PROVE WholeIsSplit'
    BY DEF WholeIsSplit
  <2>1. \A n : OffsetIsReached(n)' = OffsetIsReached(n)
    BY NetworkIsKept
  <2>2. /\ chunksOffset = LastChunk.off
        /\ left = Rest <=> LastChunk.len = Rest
        /\ left # Rest => left <= LastChunk.len
    BY DEF ChunksInvariant, WholeIsSplit
  <2>3. (/\ LastEnd = "EOF" =>
              /\ OffsetIsReached(IF left = Rest THEN ChunksSize ELSE LastChunk.off + LastChunk.len)
              /\ left # 0 => OffsetIsReached(ChunksSize)
         /\ LastEnd = "early" /\ left # Rest => OffsetIsReached(LastChunk.off + LastChunk.len - left)
         /\ LastEnd = "error" => Lost)'
    BY <1>4, <1>7 DEF OffsetIsReached
  <2> QED
    BY <1>4, <1>7, <2>2, <2>3 DEF WholeIsSplit, OnePart
<1>9. PartsAreSplit'
  BY <1>4, <1>7 DEF ChunksInvariant, PartsAreSplit
<1> QED
  BY <1>3, <1>4, <1>5, <1>6, <1>8, <1>9 DEF ChunksInvariant

(* The arithmetic of a chunk of the blob.                                  *)
LEMMA ChunkArithmetic ==
  ASSUME NEW c \in ChunkRecords, NEW n \in Nat, n <= LengthOf(c), ChunksSize \in Nat
  PROVE  /\ c.len # -1 /\ n = c.len =>
              n = LengthOf(c) /\ Least(c.off, ChunksSize) + n = Least(c.off + c.len, ChunksSize)
         /\ Least(c.off, ChunksSize) + n = ChunksSize =>
              /\ n = LengthOf(c)
              /\ c.len # -1 => Least(c.off + c.len, ChunksSize) = ChunksSize
         /\ \A l \in Nat : c.len # -1 /\ l + n = c.len =>
              Least(c.off, ChunksSize) + n = Least(c.off + c.len - l, ChunksSize)
         /\ Least(c.off, ChunksSize) + n < ChunksSize /\ (c.len = -1 \/ n < c.len) =>
              n + 1 <= LengthOf(c) /\ Least(c.off, ChunksSize) = c.off
<1>1. c.off \in Nat /\ c.len \in Nat \cup {-1}
  BY DEF ChunkRecords
<1> QED
  BY <1>1 DEF LengthOf, Least, Rest

(* The consumer reads its stream.                                          *)
LEMMA ConsumeKeeps == ChunksInvariant /\ Chunks!Consume => ChunksInvariant'
<1> SUFFICES ASSUME ChunksInvariant, Chunks!Consume PROVE ChunksInvariant'
  OBVIOUS
<1> USE ChunksTypes
<1> DEFINE last == Len(got)
           n == Len(got[Len(got)])
           c == LastChunk
<1>1. /\ producer = "wait" /\ ended[last] = "reading" /\ Chunks!atEnd = last
      /\ UNCHANGED <<chunks, reply, chunksBody, closed, handler, chunksOffset, skip, errors>>
  BY DEF Chunks!Consume, Chunks!atEnd
<1>2. last \in 1..Len(got) /\ last \in 1..Len(chunks) /\ LastEnd = "reading"
  BY <1>1, WaitingFacts DEF LastEnd
<1>3. c \in ChunkRecords /\ c.off \in Nat /\ c.len \in Nat \cup {-1} /\ n \in Nat /\ got[last] \in Seq(Int)
  BY <1>2 DEF LastChunk
<1>11. reply.form \in {"200", "multipart"} /\ ~Chunks!Coalesced
  BY <1>1, WaitingFacts
<1>4. /\ LengthOf(c) \in Nat /\ n <= LengthOf(c)
      /\ \A j \in 1..n : got[last][j] = c.off + j - 1
  <2>1. StreamIsExact(last)
    BY <1>2, <1>11 DEF ChunksInvariant, StreamsAreExact
  <2>2. Chunks!Copied(last) = n
    BY <1>1 DEF Chunks!Copied
  <2>3. LengthOf(c) \in Nat
    BY <1>3, ChunkBytes, ChunksAreSpans
  <2> QED
    BY <2>1, <2>2, <2>3 DEF StreamIsExact, LastChunk
<1>5. /\ reply.form = "200" =>
           /\ left = -1 <=> c.len = -1
           /\ left # -1 => left + n = c.len
           /\ ~Lost => Reached.nr = Least(c.off, ChunksSize) + n
      /\ reply.form = "multipart" =>
           left = -1 /\ Reached.part = last /\ Reached.nr = n
      /\ reply.form \in {"200", "multipart"}
  BY <1>1, <1>2, <1>11 DEF ChunksInvariant, WholeIsSplit, PartsAreSplit, Rest
<1> HIDE DEF n, c
<1>6. CASE /\ left = 0 /\ ended' = [ended EXCEPT ![Chunks!atEnd] = "EOF"]
           /\ UNCHANGED <<got, left, ready, empty, producer>>
  <2>1. UNCHANGED Chunks!network
    BY <1>1, <1>6 DEF Chunks!network
  <2>2. reply.form = "200" /\ n = c.len /\ c.len # -1
    BY <1>3, <1>5, <1>6
  <2>3. n = LengthOf(c) /\ Least(c.off, ChunksSize) + n = Least(c.off + c.len, ChunksSize)
    BY <1>3, <1>4, <2>2, ChunkArithmetic
  <2>4. left # Rest /\ OffsetIsReached(c.off + c.len)
    BY <1>5, <1>6, <2>2, <2>3 DEF OffsetIsReached, Rest
  <2> QED
    BY <1>1, <1>2, <1>6, <2>1, <2>3, <2>4, LastStreamEnds DEF n, c
<1>7. CASE /\ left # 0 /\ ready # <<>> /\ Chunks!token.kind \in {"boundary", "EOF"}
           /\ ended' = [ended EXCEPT ![Chunks!atEnd] = "EOF"]
           /\ UNCHANGED <<got, left, ready, empty, producer>>
  <2>1. UNCHANGED Chunks!network
    BY <1>1, <1>7 DEF Chunks!network
  <2>2. Chunks!token = ready[1]
    BY <1>7, TokenMeans
  <2>4. ChunksInvariant'
    <3>1. reply.form = "200" =>
            /\ n = LengthOf(c) /\ OffsetIsReached(ChunksSize)
            /\ OffsetIsReached(IF left = Rest THEN ChunksSize ELSE c.off + c.len)
      <4> SUFFICES ASSUME reply.form = "200"
                   PROVE  /\ n = LengthOf(c) /\ OffsetIsReached(ChunksSize)
                          /\ OffsetIsReached(IF left = Rest THEN ChunksSize ELSE c.off + c.len)
        OBVIOUS
      <4>1. Reached.nr = ChunksSize /\ ~Lost
        BY <1>7, <2>2, WholeTokens
      <4>2. Least(c.off, ChunksSize) + n = ChunksSize
        BY <1>5, <4>1
      <4>3. n = LengthOf(c) /\ (c.len # -1 => Least(c.off + c.len, ChunksSize) = ChunksSize)
        BY <1>3, <1>4, <4>2, ChunkArithmetic
      <4>4. Least(ChunksSize, ChunksSize) = ChunksSize
        BY DEF Least
      <4> QED
        BY <1>5, <4>1, <4>3, <4>4 DEF OffsetIsReached, Rest
    <3>2. reply.form = "multipart" => n = LengthOf(c)
      BY <1>2, <1>5, <1>7, <2>2, PartTokens DEF c, LastChunk
    <3> QED
      BY <1>1, <1>2, <1>5, <1>7, <2>1, <3>1, <3>2, LastStreamEnds DEF n, c
  <2> QED
    BY <2>4
<1>8. CASE /\ left # 0 /\ ready # <<>> /\ Chunks!token.kind = "byte"
           /\ got' = [got EXCEPT ![Chunks!atEnd] = Append(@, Chunks!byte)]
           /\ left' = IF left = -1 THEN -1 ELSE left - 1
           /\ Chunks!Take /\ UNCHANGED <<ended, producer>>
  <2>1. /\ TokensInOrder' /\ BuffersAreCounted' /\ OnePart' /\ ~Lost
        /\ ready' \in Seq(Chunks!Tokens) /\ empty' \in 0..Buffers
        /\ Reached'.part = Reached.part /\ Reached'.nr = Reached.nr + 1
    BY <1>1, <1>8, TakingMoves
  <2>2. Chunks!token = ready[1] /\ Reached.nr \in Nat
    BY <1>8, TokenMeans
  <2>3. Chunks!byte = c.off + n /\ n + 1 <= LengthOf(c)
    <3>1. CASE reply.form = "200"
      <4>1. Reached.nr < ChunksSize /\ Chunks!byte = Reached.nr
        BY <1>8, <2>2, <3>1, WholeTokens
      <4>2. Least(c.off, ChunksSize) + n < ChunksSize /\ (c.len = -1 \/ n < c.len)
            /\ Chunks!byte = Least(c.off, ChunksSize) + n
        BY <1>3, <1>5, <1>8, <2>1, <3>1, <4>1, SMTT(30)
      <4> QED
        BY <1>3, <1>4, <4>2, ChunkArithmetic
    <3>2. CASE reply.form = "multipart"
      <4>1. Reached.part \in 1..Len(chunks) /\ chunks[Reached.part] = c /\ Reached.nr = n
        BY <1>2, <1>5, <3>2 DEF c, LastChunk
      <4>2. ready # <<>> /\ ready[1].kind = "byte"
        BY <1>8, <2>2
      <4>3. n < LengthOf(c) /\ Chunks!byte = c.off + n
        BY <3>2, <4>1, <4>2, PartTokens
      <4> HIDE ChunksTypes
      <4> QED
        BY <1>3, <1>4, <4>3
    <3> QED
      BY <1>5, <3>1, <3>2
  <2> DEFINE s == Append(got[last], Chunks!byte)
  <2>4. s \in Seq(Int) /\ Len(s) = n + 1 /\ \A j \in 1..Len(s) : s[j] = c.off + j - 1
    <3>1. Chunks!byte \in Int /\ n = Len(got[last])
      BY <1>3, <2>3, SMTT(30) DEF n
    <3>2. s \in Seq(Int) /\ Len(s) = n + 1
      BY <1>3, <3>1
    <3>3. \A j \in 1..n : s[j] = got[last][j]
      BY <1>3, <3>1
    <3>4. s[n + 1] = Chunks!byte
      BY <1>3, <3>1
    <3> HIDE DEF s
    <3>5. \A j \in 1..Len(s) : j \in 1..n \/ j = n + 1
      BY <1>3, <3>2
    <3>6. \A j \in 1..n : s[j] = c.off + j - 1
      BY <1>4, <3>3
    <3>7. s[n + 1] = c.off + (n + 1) - 1
      BY <1>3, <2>3, <3>4
    <3> QED
      BY <3>2, <3>5, <3>6, <3>7
  <2>5. /\ got' \in Seq(Seq(Int)) /\ Len(got') = last /\ got'[last] = s
        /\ \A k \in 1..last : k # last => got'[k] = got[k]
    BY <1>1, <1>2, <1>8, <2>4
  <2> HIDE DEF s
  <2>6. Chunks!TypeOK'
    <3>1. left' \in Nat \cup {-1}
      BY <1>8
    <3> QED
      BY <1>1, <1>8, <2>1, <2>5, <3>1, TypesAfterTaking
  <2>7. StreamsAreExact'
    <3> SUFFICES ASSUME NEW k \in 1..last
                 PROVE  StreamIsExact(k)'
      BY <2>5 DEF StreamsAreExact
    <3>1. LengthOf(chunks[k])' = LengthOf(chunks[k])
      BY <1>1 DEF LengthOf
    <3>2. CASE k = last
      <4>1. Chunks!Copied(k)' = n + 1
        BY <1>1, <1>8, <2>4, <2>5, <3>2 DEF Chunks!Copied
      <4> QED
        BY <1>1, <1>8, <2>3, <2>4, <2>5, <3>1, <3>2, <4>1 DEF c, LastChunk, StreamIsExact
    <3>3. CASE k # last
      <4>2. got'[k] = got[k] /\ ended'[k] = ended[k]
        BY <1>8, <2>5, <3>3
      <4>1. Chunks!Copied(k)' = Chunks!Copied(k) /\ StreamIsExact(k)
        BY <1>11, <4>2, Zenon DEF Chunks!Copied, ChunksInvariant, StreamsAreExact
      <4> QED
        BY <1>1, <1>8, <2>5, <3>1, <3>3, <4>1, SMTT(30) DEF StreamIsExact
    <3> QED
      BY <3>2, <3>3
  <2>8. EndIsTold' /\ StreamsAreClosed' /\ BodyIsHandedOut'
    BY <1>1, <1>2, <1>8, <1>11, <2>5
       DEF ChunksInvariant, EndIsTold, Chunks!EndIsReported, StreamsAreClosed, BodyIsHandedOut
  <2>9. LastChunk' = c /\ LastEnd' = "reading" /\ Len(got'[Len(got')]) = n + 1
    BY <1>1, <1>8, <2>4, <2>5 DEF c, LastChunk, LastEnd
  <2>10. WholeIsSplit'
    <3> SUFFICES ASSUME reply.form = "200" PROVE WholeIsSplit'
      BY <1>1 DEF WholeIsSplit
    <3>1. chunksOffset = c.off
      BY <1>1 DEF ChunksInvariant, WholeIsSplit, c
    <3>2. (/\ left = Rest <=> LastChunk.len = Rest
           /\ left # Rest => left <= LastChunk.len
           /\ left # Rest => left + Len(got[Len(got)]) = LastChunk.len)'
      <4>1. /\ left' = -1 <=> c.len = -1
            /\ left' # -1 => left' <= c.len /\ left' + (n + 1) = c.len
        BY <1>3, <1>5, <1>8, SMTT(30)
      <4> QED
        BY <2>9, <4>1 DEF Rest
    <3>3. Reached'.nr = Least(c.off, ChunksSize) + (n + 1)
      <4>1. Least(c.off, ChunksSize) \in Int
        BY <1>3 DEF Least
      <4> QED
        BY <1>3, <1>5, <2>1, <4>1
    <3> QED
      BY <1>1, <1>8, <2>1, <2>9, <3>1, <3>2, <3>3 DEF WholeIsSplit, OnePart, Least
  <2>11. PartsAreSplit'
    <3> SUFFICES ASSUME reply.form = "multipart" PROVE PartsAreSplit'
      BY <1>1 DEF PartsAreSplit
    <3>1. Len(got) = chunksOffset + 1
      BY <1>1 DEF ChunksInvariant, PartsAreSplit
    <3> QED
      BY <1>1, <1>5, <1>8, <2>1, <2>5, <2>9, <3>1 DEF PartsAreSplit, Rest
  <2> QED
    BY <2>1, <2>6, <2>7, <2>8, <2>10, <2>11 DEF ChunksInvariant
<1>9. CASE /\ left # 0 /\ ready # <<>> /\ Chunks!token.kind \in Failing /\ Chunks!TakeFailure
           /\ ended' = [ended EXCEPT ![Chunks!atEnd] = "error"] /\ UNCHANGED producer
           /\ \/ UNCHANGED <<got, left>>
              \/ /\ got' = [got EXCEPT ![Chunks!atEnd] = Append(@, -1)]
                 /\ left' = IF left = -1 THEN -1 ELSE left - 1
  <2>1. /\ TokensInOrder' /\ BuffersAreCounted' /\ OnePart' /\ Lost'
        /\ ready' \in Seq(Chunks!Tokens) /\ empty' \in 0..Buffers
        /\ reply.form = "multipart" => Reached' = Reached
    BY <1>1, <1>9, FailureIsTaken
  <2>2. /\ ended' \in Seq({"reading", "EOF", "error", "early"}) /\ Len(ended') = last
        /\ ended'[last] = "error" /\ \A k \in 1..last : k # last => ended'[k] = ended[k]
    BY <1>1, <1>2, <1>9
  <2>3. /\ got' \in Seq(Seq(Int)) /\ Len(got') = last
        /\ \A k \in 1..last : k # last => got'[k] = got[k]
        /\ got'[last] \in {got[last], Append(got[last], -1)}
    <3>1. Append(got[last], -1) \in Seq(Int) /\ got \in Seq(Seq(Int))
      BY <1>3
    <3> HIDE ChunksTypes
    <3>2. CASE UNCHANGED <<got, left>>
      BY <3>1, <3>2
    <3>3. CASE got' = [got EXCEPT ![Chunks!atEnd] = Append(@, -1)]
      BY <1>1, <1>2, <3>1, <3>3
    <3> QED
      BY <1>9, <3>2, <3>3
  <2>4. Chunks!TypeOK'
    <3>1. left' \in Nat \cup {-1}
      BY <1>9
    <3> QED
      BY <1>1, <1>9, <2>1, <2>2, <2>3, <3>1, TypesAfterTaking DEF ProducerPCs
  <2>5. ASSUME NEW k \in 1..last, k = last
        PROVE  /\ Chunks!Copied(k)' \in Int /\ Chunks!Copied(k)' <= n
               /\ \A j \in 1..n : got'[k][j] = got[k][j]
    <3>1. n = Len(got[k]) /\ got[k] \in Seq(Int) /\ ended'[k] = "error"
      BY <1>3, <2>2, <2>5 DEF n
    <3> HIDE ChunksTypes
    <3>2. CASE got'[k] = got[k]
      <4>1. Chunks!Copied(k)' \in {n, n - 1}
        BY <3>1, <3>2 DEF Chunks!Copied
      <4> QED
        BY <1>3, <3>2, <4>1
    <3>3. CASE got'[k] = Append(got[k], -1)
      <4>1. /\ Len(got'[k]) = n + 1 /\ got'[k][n + 1] = -1
            /\ \A j \in 1..n : got'[k][j] = got[k][j]
        BY <3>1, <3>3
      <4>2. got'[k] # <<>>
        BY <1>3, <4>1
      <4>3. Chunks!Copied(k)' = n
        BY <1>3, <3>1, <4>1, <4>2 DEF Chunks!Copied, Chunks!Garbage
      <4> QED
        BY <1>3, <4>1, <4>3
    <3> QED
      BY <2>3, <2>5, <3>2, <3>3
  <2>6. StreamsAreExact'
    <3> SUFFICES ASSUME NEW k \in 1..last PROVE StreamIsExact(k)'
      BY <2>3 DEF StreamsAreExact
    <3>1. LengthOf(chunks[k])' = LengthOf(chunks[k])
      BY <1>1 DEF LengthOf
    <3>2. CASE k = last
      <4>3. /\ Chunks!Copied(k)' \in Int /\ Chunks!Copied(k)' <= n
            /\ \A j \in 1..n : got'[k][j] = got[k][j]
        BY <2>5, <3>2
      <4>1. Chunks!Copied(k)' <= LengthOf(c)
        BY <1>3, <1>4, <4>3
      <4>4. \A j \in 1..Chunks!Copied(k)' : j \in 1..n
        BY <1>3, <4>3
      <4>2. \A j \in 1..Chunks!Copied(k)' : got'[k][j] = c.off + j - 1
        BY <1>4, <3>2, <4>3, <4>4
      <4>5. chunks'[k] = c /\ ended'[k] = "error"
        BY <1>1, <2>2, <3>2 DEF c, LastChunk
      <4>6. LengthOf(chunks[k])' = LengthOf(c)
        BY <1>1, <3>1, <4>5
      <4> QED
        BY <4>1, <4>2, <4>5, <4>6 DEF StreamIsExact
    <3>3. CASE k # last
      <4>1. Chunks!Copied(k)' = Chunks!Copied(k) /\ StreamIsExact(k)
        BY <1>11, <2>2, <2>3, <3>3 DEF Chunks!Copied, ChunksInvariant, StreamsAreExact
      <4> QED
        BY <1>1, <2>2, <2>3, <3>1, <3>3, <4>1 DEF StreamIsExact
    <3> QED
      BY <3>2, <3>3
  <2>7. EndIsTold' /\ StreamsAreClosed' /\ BodyIsHandedOut'
    <3>1. \A k \in 1..Len(ended') : ended'[k] # "reading"
      <4>1. \A k \in 1..last : k # last => ended[k] # "reading"
        BY ReadingIsLast
      <4> QED
        BY <2>2, <4>1
    <3> QED
      BY <1>1, <1>2, <1>9, <1>11, <2>2, <2>3, <3>1
         DEF ChunksInvariant, EndIsTold, Chunks!EndIsReported, StreamsAreClosed, BodyIsHandedOut
  <2>8. LastChunk' = c /\ LastEnd' = "error"
    BY <1>1, <2>2, <2>3 DEF c, LastChunk, LastEnd
  <2>9. WholeIsSplit'
    <3> SUFFICES ASSUME reply.form = "200" PROVE WholeIsSplit'
      BY <1>1 DEF WholeIsSplit
    <3>1. chunksOffset = c.off
      BY <1>1 DEF ChunksInvariant, WholeIsSplit, c
    <3>2. /\ left' = -1 <=> c.len = -1
          /\ left' # -1 => left' <= c.len
      BY <1>3, <1>5, <1>9
    <3> QED
      BY <1>1, <1>9, <2>1, <2>8, <3>1, <3>2 DEF WholeIsSplit, OnePart, Rest
  <2>10. PartsAreSplit'
    <3> SUFFICES ASSUME reply.form = "multipart" PROVE PartsAreSplit'
      BY <1>1 DEF PartsAreSplit
    <3>1. Len(got) = chunksOffset + 1
      BY <1>1 DEF ChunksInvariant, PartsAreSplit
    <3> QED
      BY <1>1, <1>5, <1>9, <2>1, <2>3, <2>8, <3>1 DEF PartsAreSplit, Rest
  <2> QED
    BY <2>1, <2>4, <2>6, <2>7, <2>9, <2>10 DEF ChunksInvariant
<1>10. CASE producer' = "crashed" /\ UNCHANGED <<got, ended, left, ready, empty>>
  <2>1. UNCHANGED Chunks!network
    BY <1>1, <1>10 DEF Chunks!network
  <2>2. Chunks!TypeOK'
    BY <1>1, <1>10, <2>1, TypesAreKept DEF ProducerPCs
  <2>3. TokensInOrder' /\ BuffersAreCounted' /\ OnePart'
    BY <1>1, <2>1, NetworkIsKept
  <2>4. EndIsTold' /\ StreamsAreExact' /\ StreamsAreClosed' /\ BodyIsHandedOut'
    <3>1. StreamsAreExact'
      BY <1>1, <1>10, StreamsStay DEF ChunksInvariant
    <3> QED
      BY <1>1, <1>2, <1>10, <1>11, <3>1
         DEF ChunksInvariant, EndIsTold, Chunks!EndIsReported, StreamsAreClosed, BodyIsHandedOut
  <2>5. WholeIsSplit' /\ PartsAreSplit'
    BY <1>10, <2>3 DEF WholeIsSplit, PartsAreSplit, OnePart
  <2> QED
    BY <2>2, <2>3, <2>4, <2>5 DEF ChunksInvariant
<1> QED
  BY <1>6, <1>7, <1>8, <1>9, <1>10 DEF Chunks!Consume, Chunks!OneLess, Chunks!Rest, Chunks!Garbage, Failing

(* The arithmetic of the end of a chunk of n bytes from the offset o, of   *)
(* which l are not consumed yet.                                           *)
LEMMA ClosingArithmetic ==
  ASSUME NEW o \in Nat, NEW n \in Nat, NEW l \in Nat, l <= n, NEW S \in Nat
  PROVE  /\ l # 0 /\ Least(o + n - l, S) < S => Least(o + n - l, S) + 1 = Least(o + n - (l - 1), S)
         /\ Least(o + n - l, S) = S => Least(o + n, S) = S
BY DEF Least

(* The consumer stops reading.                                             *)
LEMMA StopEarlyKeeps == ChunksInvariant /\ Chunks!StopEarly => ChunksInvariant'
<1> SUFFICES ASSUME ChunksInvariant, Chunks!StopEarly PROVE ChunksInvariant'
  OBVIOUS
<1> USE ChunksTypes
<1> DEFINE c == LastChunk
           n == Len(got[Len(got)])
<1>1. /\ producer = "wait" /\ ended[Len(got)] = "reading"
      /\ ended' = [ended EXCEPT ![Chunks!atEnd] = "early"]
      /\ UNCHANGED <<chunks, reply, Chunks!network, producer, chunksOffset, skip, left, got, errors>>
  BY DEF Chunks!StopEarly, Chunks!atEnd
<1>2. Len(got) \in 1..Len(got) /\ Len(got) \in 1..Len(chunks) /\ LastEnd = "reading"
  BY <1>1, WaitingFacts DEF LastEnd
<1>3. c \in ChunkRecords /\ n \in Nat /\ c.len \in Nat \cup {-1}
  BY <1>2 DEF LastChunk
<1>4. n <= LengthOf(c)
  <2>1. reply.form \in {"200", "multipart"} /\ ~Chunks!Coalesced
    BY <1>1, WaitingFacts
  <2>2. StreamIsExact(Len(got)) /\ Chunks!Copied(Len(got)) = n
    BY <1>1, <1>2, <2>1 DEF ChunksInvariant, StreamsAreExact, Chunks!Copied
  <2> QED
    BY <2>2 DEF StreamIsExact, LastChunk
<1>5. reply.form = "200" =>
        /\ left = -1 <=> c.len = -1
        /\ left # -1 => left + n = c.len
        /\ ~Lost => Reached.nr = Least(c.off, ChunksSize) + n
  BY <1>1, <1>2 DEF ChunksInvariant, WholeIsSplit, Rest
<1> HIDE DEF c, n
<1>6. reply.form = "200" /\ left # -1 => OffsetIsReached(c.off + c.len - left)
  <2> SUFFICES ASSUME reply.form = "200", left # -1, ~Lost
               PROVE  Reached.nr = Least(c.off + c.len - left, ChunksSize)
    BY DEF OffsetIsReached
  <2>1. left \in Nat /\ c.len # -1 /\ left + n = c.len
    BY <1>5
  <2>2. Least(c.off, ChunksSize) + n = Least(c.off + c.len - left, ChunksSize)
    BY <1>3, <1>4, <2>1, ChunkArithmetic
  <2> QED
    BY <1>5, <2>2
<1> QED
  BY <1>1, <1>2, <1>6, LastStreamEnds DEF c, Rest

(* signalCloseReader.Close: the rest is consumed, then the producer goes   *)
(* on with the next chunk at the right offset.                             *)
LEMMA CloseStreamKeeps == ChunksInvariant /\ Chunks!CloseStream => ChunksInvariant'
<1> SUFFICES ASSUME ChunksInvariant, Chunks!CloseStream PROVE ChunksInvariant'
  OBVIOUS
<1> USE ChunksTypes
<1> DEFINE c == LastChunk
<1>1. /\ producer = "wait" /\ ended[Len(got)] # "reading" /\ Chunks!atEnd = Len(got)
      /\ UNCHANGED <<chunks, reply, chunksBody, closed, handler, skip, got, ended, errors>>
  BY DEF Chunks!CloseStream, Chunks!atEnd
<1>2. /\ Len(got) \in 1..Len(got) /\ Len(got) \in 1..Len(chunks) /\ LastEnd = ended[Len(got)]
      /\ reply.form \in {"200", "multipart"}
  BY <1>1, WaitingFacts DEF LastEnd
<1>3. /\ c = chunks[Len(got)] /\ c.off \in Nat /\ c.len \in Nat \cup {-1}
      /\ LastEnd \in {"EOF", "error", "early"}
  BY <1>1, <1>2 DEF LastChunk
<1>4. reply.form = "200" =>
        /\ chunksOffset = c.off
        /\ left = -1 <=> c.len = -1
        /\ left # -1 => left <= c.len
        /\ LastEnd = "EOF" =>
             /\ OffsetIsReached(IF left = -1 THEN ChunksSize ELSE c.off + c.len)
             /\ left # 0 => OffsetIsReached(ChunksSize)
        /\ LastEnd = "early" /\ left # -1 => OffsetIsReached(c.off + c.len - left)
        /\ LastEnd = "error" => Lost
  BY <1>1 DEF ChunksInvariant, WholeIsSplit, Rest
<1>5. UNCHANGED <<LastChunk, LastEnd>>
  BY <1>1 DEF LastChunk, LastEnd
<1> HIDE DEF c
<1>8. ASSUME producer' \in {"next", "wait", "crashed"}
      PROVE  EndIsTold' /\ StreamsAreExact' /\ StreamsAreClosed' /\ BodyIsHandedOut'
  BY <1>1, <1>2, <1>8, StreamsAreKept
<1>6. CASE /\ reply.form = "200" /\ left # 0 /\ ready # <<>>
           /\ Chunks!token.kind = "byte"
           /\ left' = IF left = -1 THEN -1 ELSE left - 1
           /\ Chunks!Take /\ UNCHANGED <<producer, chunksOffset>>
  <2>1. /\ TokensInOrder' /\ BuffersAreCounted' /\ OnePart' /\ ~Lost
        /\ ready' \in Seq(Chunks!Tokens) /\ empty' \in 0..Buffers
        /\ Reached'.nr = Reached.nr + 1
    BY <1>1, <1>6, TakingMoves
  <2>2. Chunks!TypeOK'
    <3>1. left' \in Nat \cup {-1}
      BY <1>6
    <3> QED
      BY <1>1, <1>6, <2>1, <3>1, TypesAfterTaking
  <2>3. Reached.nr < ChunksSize
    BY <1>6, WholeTokens, TokenMeans
  <2>9. LastEnd = "early"
    <3>1. Least(ChunksSize, ChunksSize) = ChunksSize
      BY DEF Least
    <3>2. ~OffsetIsReached(ChunksSize)
      BY <2>1, <2>3, <3>1 DEF OffsetIsReached
    <3> QED
      BY <1>3, <1>4, <1>6, <2>1, <3>2
  <2>4. /\ left' = -1 <=> c.len = -1
        /\ left' # -1 => left' <= c.len /\ Reached'.nr = Least(c.off + c.len - left', ChunksSize)
    <3>1. left = -1 <=> c.len = -1
      BY <1>4, <1>6
    <3>2. left # -1 => left <= c.len /\ Reached.nr = Least(c.off + c.len - left, ChunksSize)
      BY <1>4, <1>6, <2>1, <2>9 DEF OffsetIsReached
    <3>3. left' = -1 <=> c.len = -1
      BY <1>6, <3>1
    <3>4. ASSUME left' # -1
          PROVE  left' <= c.len /\ Reached.nr + 1 = Least(c.off + c.len - left', ChunksSize)
      <4>1. left \in Nat /\ left # 0 /\ left' = left - 1 /\ c.len \in Nat /\ left <= c.len
        BY <1>3, <1>6, <3>1, <3>2, <3>4
      <4>2. Reached.nr = Least(c.off + c.len - left, ChunksSize)
        BY <3>2, <4>1
      <4>3. c.off \in Nat /\ ChunksSize \in Nat
        BY <1>3
      <4> HIDE ChunksTypes
      <4>4. Least(c.off + c.len - left, ChunksSize) + 1 = Least(c.off + c.len - (left - 1), ChunksSize)
        BY <2>3, <4>1, <4>2, <4>3, ClosingArithmetic
      <4>5. left - 1 <= c.len
        BY <4>1
      <4> QED
        BY <4>1, <4>2, <4>4, <4>5
    <3> QED
      BY <2>1, <3>3, <3>4
  <2>5. EndIsTold' /\ StreamsAreExact' /\ StreamsAreClosed' /\ BodyIsHandedOut'
    BY <1>1, <1>6, <1>8
  <2>6. (LastEnd = "early" /\ left # Rest => OffsetIsReached(LastChunk.off + LastChunk.len - left))'
    BY <1>5, <2>4 DEF OffsetIsReached, c, Rest
  <2>7. WholeIsSplit'
    BY <1>1, <1>4, <1>5, <1>6, <2>1, <2>4, <2>6, <2>9 DEF WholeIsSplit, OnePart, c, Rest
  <2>8. PartsAreSplit'
    BY <1>1, <1>6 DEF PartsAreSplit
  <2> QED
    BY <2>1, <2>2, <2>5, <2>7, <2>8 DEF ChunksInvariant
<1>7. CASE /\ reply.form = "200" /\ left # 0 => ready # <<>> /\ Chunks!token.kind # "byte"
           /\ producer' = "next"
           /\ chunksOffset' = IF reply.form = "multipart" THEN chunksOffset + 1
                              ELSE chunksOffset + (IF c.len = -1 THEN ChunksSize ELSE c.len)
           /\ ~(reply.form = "200" /\ left # 0 /\ Chunks!Failed)
           /\ UNCHANGED <<left, ready, empty>>
  <2>1. UNCHANGED Chunks!network
    BY <1>1, <1>7 DEF Chunks!network
  <2>2. Chunks!TypeOK'
    <3>1. chunksOffset \in Nat /\ ChunksSize \in Nat
      OBVIOUS
    <3>2. chunksOffset' \in Nat
      <4> HIDE ChunksTypes
      <4>1. CASE reply.form = "multipart"
        BY <1>7, <3>1, <4>1
      <4>2. CASE reply.form # "multipart"
        BY <1>3, <1>7, <3>1, <4>2
      <4> QED
        BY <4>1, <4>2
    <3> QED
      BY <1>1, <1>7, <2>1, <3>2, TypesAreKept DEF ProducerPCs
  <2>3. TokensInOrder' /\ BuffersAreCounted' /\ OnePart' /\ Reached' = Reached /\ Lost' = Lost
    BY <1>1, <2>1, NetworkIsKept
  <2>4. EndIsTold' /\ StreamsAreExact' /\ StreamsAreClosed' /\ BodyIsHandedOut'
    BY <1>7, <1>8
  <2>5. reply.form = "200" => OffsetIsReached(chunksOffset)'
    <3> SUFFICES ASSUME reply.form = "200", ~Lost
                 PROVE  Reached.nr = Least(chunksOffset', ChunksSize)
      BY <2>3 DEF OffsetIsReached
    <3>1. chunksOffset' = c.off + (IF c.len = -1 THEN ChunksSize ELSE c.len)
      BY <1>4, <1>7
    <3>2. LastEnd \in {"EOF", "early"}
      BY <1>3, <1>4
    <3>3. CASE LastEnd = "EOF"
      <4>1. Reached.nr = Least(IF c.len = -1 THEN ChunksSize ELSE c.off + c.len, ChunksSize)
        BY <1>4, <3>3 DEF OffsetIsReached
      <4> QED
        BY <1>3, <3>1, <4>1, SMTT(30) DEF Least
    <3>4. CASE LastEnd = "early" /\ left = 0
      <4>1. c.len # -1 /\ Reached.nr = Least(c.off + c.len - 0, ChunksSize)
        BY <1>4, <3>4 DEF OffsetIsReached
      <4> QED
        BY <1>3, <3>1, <4>1 DEF Least
    <3>5. CASE LastEnd = "early" /\ left # 0
      <4>1. ready # <<>> /\ Chunks!token.kind # "byte"
        BY <1>7, <3>5
      <4>2. Reached.nr = ChunksSize
        BY <4>1, TokenMeans, WholeTokens
      <4>3. left # -1 => left \in Nat /\ left <= c.len /\ Reached.nr = Least(c.off + c.len - left, ChunksSize)
        BY <1>4, <3>5 DEF OffsetIsReached
      <4>4. left = -1 <=> c.len = -1
        BY <1>4
      <4>5. CASE left = -1
        BY <1>3, <3>1, <4>2, <4>4, <4>5 DEF Least
      <4>6. CASE left # -1
        <5>1. left \in Nat /\ c.len \in Nat /\ left <= c.len /\ chunksOffset' = c.off + c.len
          BY <1>3, <3>1, <4>3, <4>4, <4>6
        <5>2. ChunksSize = Least(c.off + c.len - left, ChunksSize)
          BY <4>2, <4>3, <4>6
        <5>3. c.off \in Nat /\ ChunksSize \in Nat
          BY <1>3
        <5> HIDE ChunksTypes
        <5>4. Least(c.off + c.len, ChunksSize) = ChunksSize
          BY <5>1, <5>2, <5>3, ClosingArithmetic
        <5> QED
          BY <4>2, <5>1, <5>4
      <4> QED
        BY <4>5, <4>6
    <3> QED
      BY <3>2, <3>3, <3>4, <3>5
  <2>6. WholeIsSplit'
    BY <1>1, <1>7, <2>3, <2>5 DEF WholeIsSplit, OnePart
  <2>7. PartsAreSplit'
    <3>1. reply.form = "multipart" => Len(got) = chunksOffset + 1 /\ Reached.part = Len(got)
      BY <1>1 DEF ChunksInvariant, PartsAreSplit
    <3> QED
      BY <1>1, <1>7, <2>3, <3>1 DEF PartsAreSplit
  <2> QED
    BY <2>2, <2>3, <2>4, <2>6, <2>7 DEF ChunksInvariant
<1>9. CASE /\ reply.form = "200" /\ ready # <<>> /\ Chunks!Failed /\ Chunks!TakeFailure
           /\ producer' = "next"
           /\ chunksOffset' = chunksOffset + (IF c.len = -1 THEN ChunksSize ELSE c.len)
           /\ UNCHANGED left
  <2>1. /\ TokensInOrder' /\ BuffersAreCounted' /\ OnePart' /\ Lost'
        /\ ready' \in Seq(Chunks!Tokens) /\ empty' \in 0..Buffers
    BY <1>1, <1>9, FailureIsTaken DEF Chunks!Failed, Chunks!Failures, Failing
  <2>2. Chunks!TypeOK'
    <3>1. chunksOffset \in Nat /\ ChunksSize \in Nat
      OBVIOUS
    <3>2. chunksOffset' \in Nat
      <4> HIDE ChunksTypes
      <4> QED
        BY <1>3, <1>9, <3>1
    <3> QED
      BY <1>1, <1>9, <2>1, <3>2, TypesAfterTaking DEF ProducerPCs
  <2>3. EndIsTold' /\ StreamsAreExact' /\ StreamsAreClosed' /\ BodyIsHandedOut'
    BY <1>8, <1>9
  <2>4. OffsetIsReached(chunksOffset)'
    BY <2>1 DEF OffsetIsReached
  <2>5. WholeIsSplit' /\ PartsAreSplit'
    BY <1>1, <1>9, <2>1, <2>4 DEF WholeIsSplit, PartsAreSplit, OnePart
  <2> QED
    BY <2>1, <2>2, <2>3, <2>5 DEF ChunksInvariant
<1>10. CASE producer' = "crashed" /\ UNCHANGED <<left, ready, empty, chunksOffset>>
  <2>1. UNCHANGED Chunks!network
    BY <1>1, <1>10 DEF Chunks!network
  <2>2. Chunks!TypeOK'
    BY <1>1, <1>10, <2>1, TypesAreKept DEF ProducerPCs
  <2>3. TokensInOrder' /\ BuffersAreCounted' /\ OnePart'
    BY <1>1, <2>1, NetworkIsKept
  <2>4. EndIsTold' /\ StreamsAreExact' /\ StreamsAreClosed' /\ BodyIsHandedOut'
    BY <1>8, <1>10
  <2>5. WholeIsSplit' /\ PartsAreSplit'
    BY <1>10, <2>3 DEF WholeIsSplit, PartsAreSplit, OnePart
  <2> QED
    BY <2>2, <2>3, <2>4, <2>5 DEF ChunksInvariant
<1> QED
  BY <1>1, <1>2, <1>3, <1>6, <1>7, <1>9, <1>10
     DEF Chunks!CloseStream, Chunks!Rest, Chunks!OneLess, Chunks!consuming

(* Reporting an error and closing.                                         *)
LEMMA EndingKeeps == ChunksInvariant /\ (Chunks!SendError \/ Chunks!Close) => ChunksInvariant'
<1> SUFFICES ASSUME ChunksInvariant, Chunks!SendError \/ Chunks!Close PROVE ChunksInvariant'
  OBVIOUS
<1> USE ChunksTypes
<1>1. CASE Chunks!SendError
  <2>1. /\ producer \in {"error", "error2"} /\ producer' \in {"error", "close"} /\ errors' = errors + 1
        /\ UNCHANGED <<chunks, reply, Chunks!network, chunksOffset, skip, left, got, ended>>
    BY <1>1 DEF Chunks!SendError
  <2>2. errors' \in Nat /\ errors' > 0
    BY <2>1
  <2>3. Chunks!TypeOK'
    BY <2>1, <2>2, TypesAreKept DEF ProducerPCs
  <2>4. TokensInOrder' /\ BuffersAreCounted' /\ OnePart'
    BY <2>1, NetworkIsKept
  <2>5. EndIsTold' /\ StreamsAreExact' /\ StreamsAreClosed' /\ BodyIsHandedOut'
    <3>1. StreamsAreExact'
      BY <2>1, StreamsStay DEF ChunksInvariant
    <3>2. reply.form \notin {"single", "no boundary"}
      BY <2>1 DEF ChunksInvariant, StreamsAreClosed
    <3> QED
      BY <2>1, <2>2, <3>1, <3>2
         DEF ChunksInvariant, EndIsTold, Chunks!EndIsReported, StreamsAreClosed, BodyIsHandedOut
  <2>6. WholeIsSplit' /\ PartsAreSplit'
    BY <2>1, <2>4 DEF WholeIsSplit, PartsAreSplit, OnePart
  <2> QED
    BY <2>3, <2>4, <2>5, <2>6 DEF ChunksInvariant
<1>2. CASE Chunks!Close
  <2>1. /\ producer = "close" /\ producer' \in {"close", "done"}
        /\ closed' \in SUBSET {"terminate", "emptyBuffer", "body"}
        /\ producer' = "done" => "body" \in closed'
        /\ handler' = IF handler = "parked" THEN "ended" ELSE handler
        /\ UNCHANGED <<chunks, reply, chunksBody, empty, ready, chunksOffset, skip, left, got, ended, errors>>
    BY <1>2 DEF Chunks!Close
  <2>2. Chunks!TypeOK'
    BY <2>1 DEF ChunksInvariant, Chunks!TypeOK
  <2>3. TokensInOrder'
    BY <2>1, TokensAreKept DEF ChunksInvariant
  <2>4. BuffersAreCounted'
    BY <2>1 DEF ChunksInvariant, BuffersAreCounted
  <2>5. EndIsTold' /\ StreamsAreExact' /\ StreamsAreClosed' /\ BodyIsHandedOut'
    <3>1. StreamsAreExact'
      BY <2>1, StreamsStay DEF ChunksInvariant
    <3>2. reply.form \notin {"single", "no boundary"}
      BY <2>1 DEF ChunksInvariant, StreamsAreClosed
    <3> QED
      BY <2>1, <3>1, <3>2
         DEF ChunksInvariant, EndIsTold, Chunks!EndIsReported, StreamsAreClosed, BodyIsHandedOut
  <2>6. WholeIsSplit' /\ PartsAreSplit'
    BY <2>1 DEF ChunksInvariant, WholeIsSplit, PartsAreSplit
  <2> QED
    BY <2>2, <2>3, <2>4, <2>5, <2>6 DEF ChunksInvariant
<1> QED
  BY <1>1, <1>2

(* Nothing changes when nothing changes.                                   *)
LEMMA ChunksStutter == ASSUME ChunksInvariant, UNCHANGED chunksVars PROVE ChunksInvariant'
<1>1. /\ UNCHANGED <<chunks, reply, Chunks!network>>
      /\ UNCHANGED <<chunks, reply, producer, chunksOffset, skip, left, got, ended, errors, closed>>
  BY DEF chunksVars, Chunks!network
<1>2. Chunks!TypeOK'
  BY <1>1, TypesAreKept, ChunksTypes
<1>3. TokensInOrder' /\ BuffersAreCounted' /\ OnePart' /\ Reached' = Reached /\ Lost' = Lost
  BY <1>1, NetworkIsKept
<1>4. /\ EndIsTold' /\ StreamsAreExact' /\ StreamsAreClosed'
      /\ WholeIsSplit' /\ PartsAreSplit' /\ BodyIsHandedOut'
  BY <1>1, <1>3, SplitIsKept DEF OnePart, Chunks!network
<1> QED
  BY <1>2, <1>3, <1>4 DEF ChunksInvariant

(* Every step keeps the invariant.                                         *)
LEMMA ChunksNext == ChunksInvariant /\ Chunks!Next => ChunksInvariant'
<1>1. ChunksInvariant /\ UNCHANGED chunksVars => ChunksInvariant'
  BY ChunksStutter
<1>2. Chunks!Finished => UNCHANGED chunksVars
  BY DEF Chunks!Finished, Chunks!vars, Chunks!network, chunksVars
<1> QED
  BY <1>1, <1>2, ReadingAheadKeeps, NextChunkKeeps, SkipKeeps, NextPartKeeps, SingleRangeKeeps,
     DirectReadKeeps, DirectEndKeeps, OfferKeeps,
     ConsumeKeeps, StopEarlyKeeps, CloseStreamKeeps, EndingKeeps DEF Chunks!Next

(* Unless the server coalesces several chunks, and however else it         *)
(* answers, the network fails and the consumer stops: each stream of       *)
(* GetBlobAt holds the bytes of its chunk, all of them if it ended without *)
(* a failure, up to bytes counted by the reading that fails, and the end   *)
(* is told unless the process crashed.                                     *)
THEOREM ChunksExact == Spec => []ChunksAreExact
<1> DEFINE Inv == part = "chunks" => ChunksInvariant
<1>1. Init => Inv
  BY ChunksInitially DEF Init, chunksInit
<1>2. Inv /\ [Next]_vars => Inv'
  <2> SUFFICES ASSUME Inv, [Next]_vars, part' = "chunks" PROVE ChunksInvariant'
    OBVIOUS
  <2>1. CASE UNCHANGED <<part, chunksVars>>
    BY <2>1, ChunksStutter
  <2>2. CASE ChunksStep
    BY <2>2, ChunksNext DEF ChunksStep
  <2> QED
    BY <2>1, <2>2 DEF Next, vars, DownloadStep, UploadStep, SignaturesStep, LayoutStep, BoltStep, MayStop
<1>3. Inv => ChunksAreExact
  BY ExactStreams DEF ChunksAreExact
<1> QED
  BY <1>1, <1>2, <1>3, PTL DEF Spec

-----------------------------------------------------------------------------
(* The OCI layout.  A promised image keeps its entry and its blobs because *)
(* a push only adds files, and keeps what it has put closed under uses;    *)
(* because addManifest moves one name; and because a deletion removes only *)
(* digests at no place of another entry's image.                           *)

(* What index.json lists, what a goroutine holds and what a session can be *)
EntryNames == Names \cup {""}
Entries == Seq([digest : DOMAIN Objects, name : EntryNames])
Pushes == [op : {"push", "manifest", "commit"}, name : EntryNames, entries : Entries,
           have : SUBSET DOMAIN Objects, top : DOMAIN Objects \cup {""}]
Deletions == [op : {"unlink"}, at : Nat, todo : SUBSET DOMAIN Objects]
WriterRecords == [digest : DOMAIN Objects \cup {""}, good : BOOLEAN]

LayoutTypes ==
  /\ blobs \in [DOMAIN blobs -> {"ok", "torn"}] /\ DOMAIN blobs \subseteq DOMAIN Objects
  /\ index \in [state : {"absent", "ok", "torn"}, entries : Entries]
  /\ session \in {Layout!NoSession, [op |-> "reindex"]} \cup Pushes \cup Deletions
  /\ workers \in [Workers -> WriterRecords]
  /\ sessions \in 0..MaxSessions
  /\ promised \in [DOMAIN promised -> DOMAIN Objects] /\ DOMAIN promised \subseteq Names

OneEntryEach(entries) ==
  \A i, j \in DOMAIN entries : entries[i].name = entries[j].name /\ entries[i].name # "" => i = j
HasEntry(entries, n, d) == \E i \in DOMAIN entries : entries[i].digest = d /\ entries[i].name = n

(* A push, and one that has added the entry of its image                   *)
Pushing == session.op \in {"push", "manifest", "commit"}
Entered == session.op = "commit" \/ (session.op = "push" /\ session.top # "")

BlobsAreWhole == \A d \in DOMAIN blobs : Objects[d].kind = "blob" => blobs[d] = "ok"
ImagesAreKept ==
  \A n \in DOMAIN promised :
    Objects[promised[n]].kind \in {"manifest", "index"} /\ Layout!Uses(promised[n]) \subseteq DOMAIN blobs

(* Blobs are written before the primary manifest only.                     *)
WritersPush ==
  \A w \in Workers :
    workers[w] # Layout!Free =>
      /\ session.op = "push" /\ session.top = ""
      /\ workers[w].digest \in DOMAIN Objects /\ Objects[workers[w].digest].kind = "blob"

IndexIsRight(entries) ==
  OneEntryEach(entries) /\ \A n \in DOMAIN promised : HasEntry(entries, n, promised[n])

(* What a push has put is there, with all it uses.                         *)
PushIsClosed ==
  Pushing =>
    /\ session.have \subseteq DOMAIN blobs
    /\ \A d \in session.have : \A k \in DOMAIN Objects[d].uses : Objects[d].uses[k] \in session.have
    /\ session.top # "" =>
         session.top \in session.have /\ Objects[session.top].kind \in {"manifest", "index"}
    /\ session.op # "push" => session.top # ""

(* The entries a push will write keep every other promised image.          *)
PushIsRight ==
  Pushing =>
    /\ OneEntryEach(session.entries)
    /\ \A n \in DOMAIN promised : n # session.name => HasEntry(session.entries, n, promised[n])
    /\ Entered /\ session.name # "" => HasEntry(session.entries, session.name, session.top)

(* How far index.json is, and what a deletion has yet to remove            *)
SessionIndex ==
  /\ session.op = "commit" => index.entries = session.entries
  /\ session.op = "reindex" => IndexIsRight(index.entries)
  /\ session.op \in {"push", "manifest", "unlink"} => index.state # "torn"
  /\ session.op = "unlink" =>
       /\ session.at \in DOMAIN index.entries
       /\ \A n \in DOMAIN promised :
            n # index.entries[session.at].name /\ Layout!Uses(promised[n]) \cap session.todo = {}

(* What LayoutIsSound needs to be inductive.                               *)
LayoutInvariant ==
  /\ LayoutTypes /\ BlobsAreWhole /\ ImagesAreKept /\ WritersPush
  /\ index.state # "torn" => IndexIsRight(index.entries)
  /\ PushIsClosed /\ PushIsRight /\ SessionIndex

(* No file of another layout is removed, and a file is torn only while it  *)
(* is written or after that was interrupted.                               *)
FilesAreKept ==
  /\ theirs \subseteq DOMAIN blobs /\ (theirs # {} => shared)
  /\ \A x \in DOMAIN blobs : blobs[x] = "torn" => x \in interrupted \cup Layout!Rewritten

(* A set of numbers has a smallest one.                                     *)
LEMMA SmallestElement ==
  ASSUME NEW T \in SUBSET Nat, T # {}
  PROVE  \E x \in T : \A y \in T : x <= y
<1>1. IsWellFoundedOn(OpToRel(<, Nat), Nat)
  BY NatLessThanWellFounded
<1>2. PICK x \in T : \A y \in T : <<y, x>> \notin OpToRel(<, Nat)
  BY <1>1, WFMin
<1>3. \A y \in T : ~(y < x)
  BY <1>2 DEF OpToRel
<1> QED BY <1>3

(* A function on the first n numbers is a sequence.                         *)
LEMMA FunctionIsSequence ==
  ASSUME NEW S, NEW n \in Nat, NEW f \in [1..n -> S]
  PROVE  f \in Seq(S) /\ Len(f) = n
OBVIOUS

(* What Append adds and keeps                                               *)
LEMMA AppendFacts ==
  ASSUME NEW S, NEW s \in Seq(S), NEW e \in S, NEW t, t = Append(s, e)
  PROVE  /\ t \in Seq(S) /\ t[Len(s) + 1] = e /\ Len(s) + 1 \in DOMAIN t
         /\ \A i \in DOMAIN s : i \in DOMAIN t /\ t[i] = s[i]
         /\ \A i \in DOMAIN t : i \in DOMAIN s \/ i = Len(s) + 1
OBVIOUS

(* The order of the numbers                                                 *)
LEMMA NaturalOrder ==
  /\ \A a \in Nat : a <= a
  /\ \A a, b \in Nat : a <= b /\ b <= a => a = b
  /\ \A b \in Nat : \A a \in 0..b : a < b => a + 1 \in 0..b
OBVIOUS

(* The positions of a sequence and its elements                             *)
LEMMA SequenceFacts ==
  ASSUME NEW S, NEW s \in Seq(S)
  PROVE  /\ DOMAIN s = 1..Len(s) /\ Len(s) \in Nat
         /\ \A k \in DOMAIN s : k \in Nat \ {0} /\ s[k] \in S
OBVIOUS

(* The objects of a layout, as the assumption gives them                    *)
LEMMA ObjectFacts ==
  ASSUME NEW d \in DOMAIN Objects
  PROVE  /\ Objects[d].kind \in {"blob", "manifest", "index", "docker"}
         /\ Objects[d].uses \in Seq(DOMAIN Objects)
         /\ Objects[d].kind = "blob" => Objects[d].uses = <<>>
         /\ d # ""
         /\ DOMAIN Objects[d].uses = 1..Len(Objects[d].uses) /\ Len(Objects[d].uses) \in Nat
         /\ \A k \in DOMAIN Objects[d].uses : k \in Nat \ {0} /\ Objects[d].uses[k] \in DOMAIN Objects
<1>1. /\ Objects[d].kind \in {"blob", "manifest", "index", "docker"}
      /\ Objects[d].uses \in Seq(DOMAIN Objects)
      /\ Objects[d].kind = "blob" => Objects[d].uses = <<>>
      /\ d # ""
  BY LayoutAssumption
<1>2. /\ DOMAIN Objects[d].uses = 1..Len(Objects[d].uses) /\ Len(Objects[d].uses) \in Nat
      /\ \A k \in DOMAIN Objects[d].uses : k \in Nat \ {0} /\ Objects[d].uses[k] \in DOMAIN Objects
  BY <1>1, SequenceFacts
<1> QED BY <1>1, <1>2

(* Every digest of an image, at any place, is one of the objects.           *)
LEMMA UsesAreObjects ==
  ASSUME NEW d \in DOMAIN Objects
  PROVE  Layout!Uses(d) \subseteq DOMAIN Objects
<1> SUFFICES ASSUME NEW p \in Layout!Places(d)
             PROVE  Layout!DigestAt(d, p) \in DOMAIN Objects
  BY DEF Layout!Uses
<1>1. CASE p = <<0, 0>>
  BY <1>1 DEF Layout!DigestAt
<1>2. CASE \E k \in DOMAIN Objects[d].uses : p = <<k, 0>>
  <2>1. PICK k \in DOMAIN Objects[d].uses : p = <<k, 0>>
    BY <1>2
  <2>2. Objects[d].uses[k] \in DOMAIN Objects /\ k \in Nat \ {0} /\ p[1] = k /\ p[2] = 0
    BY <2>1, ObjectFacts
  <2> QED BY <2>2 DEF Layout!DigestAt
<1>3. CASE \E k \in DOMAIN Objects[d].uses : \E m \in DOMAIN Layout!Inner(d, k) : p = <<k, m>>
  <2>0. PICK k \in DOMAIN Objects[d].uses : \E m \in DOMAIN Layout!Inner(d, k) : p = <<k, m>>
    BY <1>3
  <2>1. PICK m \in DOMAIN Layout!Inner(d, k) : p = <<k, m>>
    BY <2>0
  <2>2. /\ Objects[d].uses[k] \in DOMAIN Objects /\ k \in Nat \ {0}
        /\ p[1] = k /\ p[2] = m
    BY <2>1, ObjectFacts
  <2>3. Layout!Inner(d, k) \in Seq(DOMAIN Objects)
    <3>1. CASE Objects[d].kind = "index"
      BY <2>2, <3>1, ObjectFacts DEF Layout!Inner
    <3>2. CASE Objects[d].kind # "index"
      BY <3>2 DEF Layout!Inner
    <3> QED BY <3>1, <3>2
  <2>4. m \in Nat \ {0} /\ Layout!Inner(d, k)[m] \in DOMAIN Objects
    BY <2>3
  <2> QED BY <2>2, <2>4 DEF Layout!DigestAt
<1> QED BY <1>1, <1>2, <1>3 DEF Layout!Places

(* There are finitely many places in an image.                              *)
LEMMA PlacesAreFinite ==
  ASSUME NEW d \in DOMAIN Objects
  PROVE  IsFiniteSet(Layout!Places(d))
<1> DEFINE K == DOMAIN Objects[d].uses
           First == {<<k, 0>> : k \in K}
           Row(k) == {<<k, m>> : m \in DOMAIN Layout!Inner(d, k)}
           Rows == {Row(k) : k \in K}
<1>1. K = 1..Len(Objects[d].uses) /\ Len(Objects[d].uses) \in Nat
  BY ObjectFacts
<1>2. IsFiniteSet(K)
  BY <1>1, FS_Interval
<1>3. IsFiniteSet(First)
  <2> DEFINE f == [k \in K |-> <<k, 0>>]
  <2>1. f \in Surjection(K, First)
    BY DEF Surjection
  <2> QED BY <2>1, <1>2, FS_Surjection
<1>4. IsFiniteSet(Rows)
  <2> DEFINE f == [k \in K |-> Row(k)]
  <2>1. f \in Surjection(K, Rows)
    BY DEF Surjection
  <2> QED BY <2>1, <1>2, FS_Surjection
<1>5. ASSUME NEW k \in K PROVE IsFiniteSet(Row(k))
  <2> DEFINE M == DOMAIN Layout!Inner(d, k)
             f == [m \in M |-> <<k, m>>]
  <2>1. Layout!Inner(d, k) \in Seq(DOMAIN Objects)
    <3>0. Objects[d].uses[k] \in DOMAIN Objects
      BY <1>5, ObjectFacts
    <3>1. CASE Objects[d].kind = "index"
      BY <3>0, <3>1, ObjectFacts DEF Layout!Inner
    <3>2. CASE Objects[d].kind # "index"
      BY <3>2 DEF Layout!Inner
    <3> QED BY <3>1, <3>2
  <2>2. IsFiniteSet(M)
    <3>1. M = 1..Len(Layout!Inner(d, k)) /\ Len(Layout!Inner(d, k)) \in Nat
      BY <2>1
    <3> QED BY <3>1, FS_Interval
  <2>3. f \in Surjection(M, Row(k))
    BY DEF Surjection
  <2> QED BY <2>2, <2>3, FS_Surjection
<1>6. IsFiniteSet(UNION Rows)
  BY <1>4, <1>5, FS_UNION
<1>7. IsFiniteSet({<<0, 0>>} \union First \union UNION Rows)
  BY <1>3, <1>6, FS_Union, FS_Singleton
<1> QED BY <1>7 DEF Layout!Places

(* What a push has put is closed under uses, so it holds all that an image  *)
(* in it needs.                                                             *)
LEMMA ClosedUnderUses ==
  ASSUME NEW have \in SUBSET DOMAIN Objects, NEW d \in have,
         \A x \in have : \A k \in DOMAIN Objects[x].uses : Objects[x].uses[k] \in have
  PROVE  Layout!Uses(d) \subseteq have
<1> SUFFICES ASSUME NEW p \in Layout!Places(d)
             PROVE  Layout!DigestAt(d, p) \in have
  BY DEF Layout!Uses
<1>1. CASE p = <<0, 0>>
  BY <1>1 DEF Layout!DigestAt
<1>2. CASE \E k \in DOMAIN Objects[d].uses : p = <<k, 0>>
  <2>1. PICK k \in DOMAIN Objects[d].uses : p = <<k, 0>>
    BY <1>2
  <2>2. Objects[d].uses[k] \in have /\ k \in Nat \ {0} /\ p[1] = k /\ p[2] = 0
    BY <2>1, ObjectFacts
  <2> QED BY <2>2 DEF Layout!DigestAt
<1>3. CASE \E k \in DOMAIN Objects[d].uses : \E m \in DOMAIN Layout!Inner(d, k) : p = <<k, m>>
  <2>0. PICK k \in DOMAIN Objects[d].uses : \E m \in DOMAIN Layout!Inner(d, k) : p = <<k, m>>
    BY <1>3
  <2>1. PICK m \in DOMAIN Layout!Inner(d, k) : p = <<k, m>>
    BY <2>0
  <2>2. Objects[d].uses[k] \in have /\ k \in Nat \ {0} /\ p[1] = k /\ p[2] = m
    BY <2>1, ObjectFacts
  <2>3. CASE Objects[d].kind = "index"
    <3>1. Layout!Inner(d, k) = Objects[Objects[d].uses[k]].uses
      BY <2>3 DEF Layout!Inner
    <3>2. m \in Nat \ {0} /\ Layout!Inner(d, k)[m] \in have
      BY <2>1, <2>2, <3>1, ObjectFacts
    <3> QED BY <2>2, <3>2 DEF Layout!DigestAt
  <2>4. CASE Objects[d].kind # "index"
    BY <2>4 DEF Layout!Inner
  <2> QED BY <2>3, <2>4
<1> QED BY <1>1, <1>2, <1>3 DEF Layout!Places

(* An entry of index.json is one of the objects under a name or none.       *)
LEMMA EntryFacts ==
  ASSUME NEW entries \in Entries
  PROVE  /\ DOMAIN entries = 1..Len(entries) /\ Len(entries) \in Nat
         /\ \A i \in DOMAIN entries :
              /\ i \in Nat \ {0}
              /\ entries[i].digest \in DOMAIN Objects /\ entries[i].name \in EntryNames
<1> DEFINE E == [digest : DOMAIN Objects, name : EntryNames]
<1>1. \A e \in E : e.digest \in DOMAIN Objects /\ e.name \in EntryNames
  OBVIOUS
<1>2. entries \in Seq(E)
  BY DEF Entries
<1> HIDE DEF E
<1> QED BY <1>1, <1>2, SequenceFacts

(* A blob that getBlobsToDelete finds unused by other images is used by     *)
(* none of them: as many places hold it in all images as in the one that    *)
(* is deleted, so these are the same places.                                *)
LEMMA DeletedIsUnused ==
  ASSUME index.entries \in Entries, NEW i \in DOMAIN index.entries,
         NEW d, Layout!unusedElsewhere(d, i),
         NEW j \in DOMAIN index.entries, d \in Layout!Uses(index.entries[j].digest)
  PROVE  j = i
<1> DEFINE D == DOMAIN index.entries
           At(k) == {q \in Layout!Places(index.entries[k].digest) :
                       Layout!DigestAt(index.entries[k].digest, q) = d}
           Row(k) == {<<k, p>> : p \in At(k)}
           All == {Row(k) : k \in D}
<1>1. IsFiniteSet(D)
  <2>1. D = 1..Len(index.entries) /\ Len(index.entries) \in Nat
    BY EntryFacts
  <2> HIDE DEF D
  <2> QED BY <2>1, FS_Interval
<1>2. IsFiniteSet(All)
  <2> DEFINE f == [k \in D |-> Row(k)]
  <2>1. f \in Surjection(D, All)
    BY DEF Surjection
  <2> QED BY <2>1, <1>1, FS_Surjection
<1>3. ASSUME NEW k \in D PROVE IsFiniteSet(Row(k))
  <2> DEFINE f == [p \in At(k) |-> <<k, p>>]
  <2>1. IsFiniteSet(At(k))
    <3>1. At(k) \in SUBSET Layout!Places(index.entries[k].digest)
      OBVIOUS
    <3>2. IsFiniteSet(Layout!Places(index.entries[k].digest))
      BY <1>3, EntryFacts, PlacesAreFinite
    <3> HIDE DEF At
    <3> QED BY <3>1, <3>2, FS_Subset
  <2>2. f \in Surjection(At(k), Row(k))
    BY DEF Surjection
  <2> QED BY <2>1, <2>2, FS_Surjection
<1>4. Layout!Counted(d, D) = UNION All /\ Layout!Counted(d, {i}) = Row(i)
  BY DEF Layout!Counted
<1>5. IsFiniteSet(UNION All)
  BY <1>2, <1>3, FS_UNION
<1>6. Row(i) \in SUBSET UNION All
  OBVIOUS
<1>7. Cardinality(UNION All) = Cardinality(Row(i))
  <2>1. Cardinality(UNION All) \in Nat /\ Cardinality(Row(i)) \in Nat
    BY <1>3, <1>5, FS_CardinalityType
  <2>2. Cardinality(UNION All) - Cardinality(Row(i)) = 0
    <3>1. Layout!countBlobs(d, D) - Layout!countBlobs(d, {i}) = 0
      BY DEF Layout!unusedElsewhere
    <3>2. \A S : Layout!Cardinality(S) = Cardinality(S)
      BY DEF Layout!Cardinality, Cardinality
    <3> HIDE DEF D, Row, All
    <3>3. Layout!countBlobs(d, D) = Cardinality(UNION All) /\ Layout!countBlobs(d, {i}) = Cardinality(Row(i))
      BY <1>4, <3>2 DEF Layout!countBlobs
    <3> QED BY <3>1, <3>3
  <2> QED BY <2>1, <2>2
<1>8. UNION All = Row(i)
  BY <1>5, <1>6, <1>7, FS_Subset
<1>9. PICK p \in At(j) : TRUE
  BY DEF Layout!Uses
<1>10. <<j, p>> \in UNION All
  BY <1>9
<1>11. PICK q \in At(i) : <<j, p>> = <<i, q>>
  BY <1>8, <1>10
<1> QED BY <1>11

(* RemoveAt drops one entry and keeps the order of the others.              *)
LEMMA EntryIsRemoved ==
  ASSUME NEW entries \in Entries, NEW at \in DOMAIN entries,
         NEW rest, rest = Layout!RemoveAt(entries, at)
  PROVE  /\ rest \in Entries
         /\ OneEntryEach(entries) => OneEntryEach(rest)
         /\ \A n, d : n # entries[at].name /\ HasEntry(entries, n, d) => HasEntry(rest, n, d)
<1> DEFINE E == [digest : DOMAIN Objects, name : EntryNames]
           From(i) == IF i < at THEN i ELSE i + 1
<1> HIDE DEF E
<1>1. entries \in Seq(E) /\ at \in 1..Len(entries) /\ Len(entries) \in Nat
  BY EntryFacts DEF Entries, E
<1>2. rest = SubSeq(entries, 1, at - 1) \o SubSeq(entries, at + 1, Len(entries))
  BY DEF Layout!RemoveAt
<1>3. rest \in Seq(E)
  BY <1>1, <1>2
<1>4. Len(rest) = Len(entries) - 1
  BY <1>1, <1>2
<1>5. DOMAIN rest = 1..Len(entries) - 1
  BY <1>3, <1>4
<1>6. ASSUME NEW i \in DOMAIN rest PROVE rest[i] = entries[From(i)]
  <2> DEFINE s == SubSeq(entries, 1, at - 1)
             t == SubSeq(entries, at + 1, Len(entries))
  <2>1. s \in Seq(E) /\ t \in Seq(E) /\ Len(s) = at - 1 /\ Len(t) = Len(entries) - at
    BY <1>1
  <2>2. /\ \A k \in 1..at - 1 : s[k] = entries[k]
        /\ \A k \in 1..Len(entries) - at : t[k] = entries[at + k]
    BY <1>1
  <2> HIDE DEF s, t
  <2>3. i \in 1..Len(entries) - 1 /\ rest = s \o t
    BY <1>2, <1>5 DEF s, t
  <2>4. CASE i < at
    <3>1. rest[i] = s[i] /\ i \in 1..at - 1
      BY <1>1, <2>1, <2>3, <2>4
    <3> QED BY <2>2, <2>4, <3>1
  <2>5. CASE i >= at
    <3>1. rest[i] = t[i - (at - 1)] /\ i - (at - 1) \in 1..Len(entries) - at
      BY <1>1, <2>1, <2>3, <2>5
    <3>2. at + (i - (at - 1)) = i + 1
      BY <1>1, <2>3
    <3>3. t[i - (at - 1)] = entries[at + (i - (at - 1))]
      BY <2>2, <3>1
    <3> QED BY <1>1, <2>3, <2>5, <3>1, <3>2, <3>3, SMTT(30)
  <2> QED BY <1>1, <2>3, <2>4, <2>5
<1>7. \A i \in DOMAIN rest : From(i) \in DOMAIN entries
  BY <1>1, <1>5
<1>8. \A i, j \in DOMAIN rest : From(i) = From(j) => i = j
  BY <1>1, <1>5
<1>9. \A i \in DOMAIN entries : i # at => \E j \in DOMAIN rest : i = From(j)
  <2> SUFFICES ASSUME NEW i \in DOMAIN entries, i # at PROVE \E j \in DOMAIN rest : i = From(j)
    OBVIOUS
  <2>1. i \in 1..Len(entries)
    BY <1>1
  <2>2. CASE i < at
    BY <1>1, <1>5, <2>1, <2>2
  <2>3. CASE i > at
    <3>1. i - 1 \in DOMAIN rest /\ From(i - 1) = i
      BY <1>1, <1>5, <2>1, <2>3
    <3> QED BY <3>1
  <2> QED BY <1>1, <2>1, <2>2, <2>3
<1> HIDE DEF From
<1>10. rest \in Entries
  BY <1>3 DEF Entries, E
<1>11. OneEntryEach(entries) => OneEntryEach(rest)
  <2> SUFFICES ASSUME OneEntryEach(entries), NEW i \in DOMAIN rest, NEW j \in DOMAIN rest,
                      rest[i].name = rest[j].name /\ rest[i].name # ""
               PROVE  i = j
    BY DEF OneEntryEach
  <2>1. rest[i] = entries[From(i)] /\ rest[j] = entries[From(j)]
    BY <1>6
  <2>2. From(i) \in DOMAIN entries /\ From(j) \in DOMAIN entries
    BY <1>7
  <2>3. From(i) = From(j)
    BY <2>1, <2>2, Zenon DEF OneEntryEach
  <2> QED BY <1>8, <2>3
<1>12. \A n, d : n # entries[at].name /\ HasEntry(entries, n, d) => HasEntry(rest, n, d)
  BY <1>6, <1>9 DEF HasEntry
<1> QED BY <1>10, <1>11, <1>12

(* addManifest gives the name to the new entry and to no other, and the     *)
(* other names keep their entries.                                          *)
LEMMA ManifestIsAdded ==
  ASSUME NEW entries \in Entries, OneEntryEach(entries),
         NEW d \in DOMAIN Objects, NEW n \in EntryNames
  PROVE  LET new == Layout!addManifest(entries, [digest |-> d, name |-> n])
         IN
         /\ new \in Entries /\ OneEntryEach(new) /\ HasEntry(new, n, d)
         /\ \A m, x : m # n /\ m # "" /\ HasEntry(entries, m, x) => HasEntry(new, m, x)
<1> DEFINE E == [digest : DOMAIN Objects, name : EntryNames]
           new == Layout!addManifest(entries, [digest |-> d, name |-> n])
           desc == [digest |-> d, name |-> n]
           same == {i \in DOMAIN entries : desc.name # "" /\ entries[i].name = desc.name}
           renamed == [i \in DOMAIN entries |->
                         IF i \in same /\ \A j \in same : i <= j THEN [entries[i] EXCEPT !.name = ""]
                         ELSE entries[i]]
           unnamed == {i \in DOMAIN entries : renamed[i].digest = desc.digest /\ renamed[i].name = ""}
           replaced == [i \in DOMAIN entries |->
                          IF i \in unnamed /\ \A j \in unnamed : i <= j THEN desc ELSE renamed[i]]
<1>1. /\ DOMAIN entries = 1..Len(entries) /\ Len(entries) \in Nat
      /\ \A i \in DOMAIN entries : entries[i] \in E /\ i \in Nat
  <2>1. entries \in Seq(E)
    BY DEF Entries
  <2> HIDE DEF E
  <2> QED BY <2>1, SequenceFacts
<1>2. desc \in E /\ desc.name = n /\ desc.digest = d
  OBVIOUS
<1>3. new = IF unnamed = {} THEN Append(renamed, desc) ELSE replaced
  BY Zenon DEF Layout!addManifest
<1>4. \A i \in same : \A j \in same : i <= j
  <2> SUFFICES ASSUME NEW i \in same, NEW j \in same PROVE i <= j
    OBVIOUS
  <2>0. i \in DOMAIN entries /\ j \in DOMAIN entries /\ entries[i].name = entries[j].name /\ entries[i].name # ""
    OBVIOUS
  <2>1. i = j
    BY <2>0, Zenon DEF OneEntryEach
  <2>2. i \in Nat
    BY <1>1, <2>0, Zenon
  <2> QED BY <2>1, <2>2, NaturalOrder, Zenon
<1>5. ASSUME NEW i \in DOMAIN entries
      PROVE  /\ renamed[i] \in E /\ renamed[i].digest = entries[i].digest
             /\ renamed[i].name = IF n # "" /\ entries[i].name = n THEN "" ELSE entries[i].name
  <2>1. entries[i] \in E
    BY <1>1
  <2>2. CASE i \in same
    <3>1. renamed[i] = [entries[i] EXCEPT !.name = ""]
      BY <1>4, <2>2
    <3> QED BY <2>1, <2>2, <3>1 DEF EntryNames
  <2>3. CASE i \notin same
    <3>1. renamed[i] = entries[i]
      BY <2>3
    <3> QED BY <2>1, <2>3, <3>1
  <2> QED BY <2>2, <2>3
<1>6. DOMAIN renamed = 1..Len(entries)
  BY <1>1
<1> HIDE DEF new, renamed, E, desc
<1>7. renamed \in Seq(E) /\ Len(renamed) = Len(entries)
  <2>1. renamed = [i \in 1..Len(entries) |-> renamed[i]]
    BY <1>1 DEF renamed
  <2>2. \A i \in 1..Len(entries) : renamed[i] \in E
    BY <1>1, <1>5
  <2>3. renamed \in [1..Len(entries) -> E] /\ Len(entries) \in Nat
    BY <1>1, <2>1, <2>2, Zenon
  <2> QED BY <2>3, FunctionIsSequence, Zenon
<1>8. ASSUME NEW i \in DOMAIN entries, NEW j \in DOMAIN entries,
             renamed[i].name = renamed[j].name, renamed[i].name # ""
      PROVE  i = j
  <2>1. renamed[i].name = entries[i].name /\ renamed[j].name = entries[j].name
    BY <1>5, <1>8
  <2> QED BY <1>8, <2>1 DEF OneEntryEach
<1>9. ASSUME NEW i \in DOMAIN entries, n # "" PROVE renamed[i].name # n
  BY <1>5, <1>9
<1>10. CASE unnamed = {}
  <2>1. new = Append(renamed, desc)
    BY <1>3, <1>10
  <2>2. /\ new \in Seq(E) /\ new[Len(renamed) + 1] = desc
        /\ Len(renamed) + 1 \in DOMAIN new
        /\ \A i \in DOMAIN renamed : i \in DOMAIN new /\ new[i] = renamed[i]
        /\ \A i \in DOMAIN new : i \in DOMAIN renamed \/ i = Len(renamed) + 1
    <3>1. renamed \in Seq(E) /\ desc \in E
      BY <1>2, <1>7
    <3> QED BY <2>1, <3>1, AppendFacts
  <2>3. new[Len(entries) + 1] = desc /\ Len(entries) + 1 \in DOMAIN new
    BY <1>7, <2>2
  <2>4. \A i \in DOMAIN entries : i \in DOMAIN new /\ new[i] = renamed[i]
    BY <1>1, <1>6, <2>2
  <2>5. \A i \in DOMAIN new : i \in DOMAIN entries \/ i = Len(entries) + 1
    BY <1>1, <1>6, <1>7, <2>2
  <2>6. OneEntryEach(new)
    <3> SUFFICES ASSUME NEW i \in DOMAIN new, NEW j \in DOMAIN new,
                        new[i].name = new[j].name, new[i].name # ""
                 PROVE  i = j
      BY Zenon DEF OneEntryEach
    <3>1. CASE i \in DOMAIN entries /\ j \in DOMAIN entries
      BY <1>8, <2>4, <3>1
    <3>2. CASE i = Len(entries) + 1 /\ j \in DOMAIN entries
      BY <1>2, <1>9, <2>3, <2>4, <3>2
    <3>3. CASE j = Len(entries) + 1 /\ i \in DOMAIN entries
      BY <1>2, <1>9, <2>3, <2>4, <3>3
    <3> QED BY <2>5, <3>1, <3>2, <3>3
  <2>7. HasEntry(new, n, d)
    BY <1>2, <2>3 DEF HasEntry
  <2>8. ASSUME NEW m, NEW x, m # n, m # "", HasEntry(entries, m, x)
        PROVE  HasEntry(new, m, x)
    <3>1. PICK i \in DOMAIN entries : entries[i].digest = x /\ entries[i].name = m
      BY <2>8 DEF HasEntry
    <3>2. renamed[i].digest = x /\ renamed[i].name = m
      BY <1>5, <2>8, <3>1
    <3> QED BY <2>4, <3>2 DEF HasEntry
  <2>9. new \in Entries
    BY <2>2 DEF Entries, E
  <2> QED BY <2>6, <2>7, <2>8, <2>9 DEF new
<1>11. CASE unnamed # {}
  <2>1. new = replaced
    BY <1>3, <1>11
  <2>2. PICK u \in unnamed : \A j \in unnamed : u <= j
    <3>1. unnamed \subseteq Nat
      BY <1>1
    <3> QED BY <1>11, <3>1, SmallestElement
  <2>3. ASSUME NEW i \in DOMAIN entries PROVE new[i] = IF i = u THEN desc ELSE renamed[i]
    <3>0. unnamed \subseteq Nat
      BY <1>1
    <3>1. (i \in unnamed /\ \A j \in unnamed : i <= j) <=> i = u
      <4> HIDE DEF unnamed
      <4>1. ASSUME i \in unnamed, \A j \in unnamed : i <= j PROVE i = u
        <5>1. i <= u /\ u <= i /\ i \in Nat /\ u \in Nat
          BY <2>2, <3>0, <4>1
        <5> QED BY <5>1, NaturalOrder, Zenon
      <4> QED BY <2>2, <4>1
    <3> HIDE DEF unnamed
    <3> QED BY <2>1, <3>1
  <2>4. u \in DOMAIN entries /\ renamed[u].name = "" /\ DOMAIN new = DOMAIN entries
    BY <2>1, <2>2
  <2> HIDE DEF unnamed, replaced
  <2>5. new \in Seq(E)
    <3>1. \A i \in 1..Len(entries) : new[i] \in E
      BY <1>1, <1>2, <1>5, <2>3
    <3>2. new = [i \in 1..Len(entries) |-> new[i]]
      BY <1>1, <2>1 DEF replaced
    <3>3. Len(entries) \in Nat
      BY <1>1
    <3>4. new \in [1..Len(entries) -> E]
      BY <3>1, <3>2, Zenon
    <3> QED BY <3>3, <3>4, FunctionIsSequence, Zenon
  <2>6. OneEntryEach(new)
    <3> SUFFICES ASSUME NEW i \in DOMAIN entries, NEW j \in DOMAIN entries,
                        new[i].name = new[j].name, new[i].name # ""
                 PROVE  i = j
      BY <2>4, Zenon DEF OneEntryEach
    <3>1. CASE i # u /\ j # u
      BY <1>8, <2>3, <3>1
    <3>2. CASE i = u /\ j # u
      BY <1>2, <1>9, <2>3, <3>2
    <3>3. CASE j = u /\ i # u
      BY <1>2, <1>9, <2>3, <3>3
    <3> QED BY <3>1, <3>2, <3>3
  <2>7. HasEntry(new, n, d)
    BY <1>2, <2>3, <2>4 DEF HasEntry
  <2>8. ASSUME NEW m, NEW x, m # n, m # "", HasEntry(entries, m, x)
        PROVE  HasEntry(new, m, x)
    <3>1. PICK i \in DOMAIN entries : entries[i].digest = x /\ entries[i].name = m
      BY <2>8 DEF HasEntry
    <3>2. renamed[i].digest = x /\ renamed[i].name = m
      BY <1>5, <2>8, <3>1
    <3> QED BY <2>3, <2>4, <2>8, <3>2 DEF HasEntry
  <2>9. new \in Entries
    BY <2>5 DEF Entries, E
  <2> QED BY <2>6, <2>7, <2>8, <2>9 DEF new
<1> QED BY <1>10, <1>11 DEF new

(* What a session is, by its operation                                      *)
LEMMA SessionFacts ==
  ASSUME LayoutTypes
  PROVE  /\ session.op \in {"none", "push", "manifest", "commit", "unlink", "reindex"}
         /\ session.op = "none" => session = Layout!NoSession
         /\ Pushing => session \in Pushes
         /\ session.op = "unlink" => session \in Deletions
<1>1. CASE session \in Pushes
  BY <1>1 DEF Pushes, Pushing
<1>2. CASE session \in Deletions
  BY <1>2 DEF Deletions, Pushing
<1>3. CASE session \in {Layout!NoSession, [op |-> "reindex"]}
  BY <1>3 DEF Layout!NoSession, Pushing
<1> QED BY <1>1, <1>2, <1>3 DEF LayoutTypes

(* The layouts to start from are whole and nothing is promised.             *)
LEMMA LayoutInitially == Layout!Init => LayoutInvariant
<1> SUFFICES ASSUME Layout!Init PROVE LayoutInvariant
  OBVIOUS
<1>1. PICK l \in Initial : blobs = l.blobs /\ index = l.index
  BY DEF Layout!Init
<1>2. /\ DOMAIN blobs \subseteq DOMAIN Objects /\ blobs \in [DOMAIN blobs -> {"ok"}]
      /\ index \in [state : {"absent", "ok"}, entries : Entries]
      /\ OneEntryEach(index.entries)
  BY <1>1, LayoutAssumption DEF OneEntryEach, Entries, EntryNames
<1>3. /\ session = Layout!NoSession /\ session.op = "none" /\ sessions = 0
      /\ workers = [w \in Workers |-> Layout!Free]
      /\ promised = <<>> /\ DOMAIN promised = {}
  BY DEF Layout!Init, Layout!NoSession
<1>4. LayoutTypes
  <2>1. workers \in [Workers -> WriterRecords]
    BY <1>3 DEF Layout!Free, WriterRecords
  <2>2. promised \in [DOMAIN promised -> DOMAIN Objects]
    BY <1>3
  <2>3. sessions \in 0..MaxSessions
    <3>1. MaxSessions \in Nat
      BY LayoutAssumption
    <3> QED BY <1>3, <3>1
  <2> QED BY <1>2, <1>3, <2>1, <2>2, <2>3 DEF LayoutTypes
<1>5. BlobsAreWhole /\ ImagesAreKept /\ WritersPush
  BY <1>2, <1>3 DEF BlobsAreWhole, ImagesAreKept, WritersPush
<1>6. IndexIsRight(index.entries) /\ PushIsClosed /\ PushIsRight /\ SessionIndex
  BY <1>2, <1>3 DEF IndexIsRight, PushIsClosed, PushIsRight, SessionIndex, Pushing
<1> QED BY <1>4, <1>5, <1>6 DEF LayoutInvariant

(* What the invariant says is what LayoutIsSound promises.                  *)
LEMMA LayoutFollows == LayoutInvariant /\ FilesAreKept => Layout!LayoutIsSound
<1> SUFFICES ASSUME LayoutInvariant, FilesAreKept PROVE Layout!LayoutIsSound
  OBVIOUS
<1> USE DEF LayoutInvariant
<1>1. Layout!TypeOK
  <2>1. session.op \in {"none", "push", "manifest", "commit", "unlink", "reindex"}
    BY SessionFacts
  <2>2. index.state \in {"absent", "ok", "torn"} /\ \A w \in Workers : workers[w].digest \in DOMAIN Objects \cup {""}
    BY DEF LayoutTypes, WriterRecords
  <2> QED BY <2>1, <2>2 DEF Layout!TypeOK, LayoutTypes, Layout!Present, Layout!ObjectDigests
<1>2. \A d \in DOMAIN blobs : Objects[d].kind = "blob" => blobs[d] = "ok"
  BY DEF BlobsAreWhole
<1>3. /\ \A n \in DOMAIN promised : \A x \in Layout!Uses(promised[n]) : Layout!Kept(x)
      /\ \A x \in theirs : Layout!Kept(x)
  <2>1. \A x \in DOMAIN blobs : Layout!Kept(x)
    BY DEF FilesAreKept, Layout!Kept, Layout!Present
  <2> QED BY <2>1 DEF ImagesAreKept, FilesAreKept
<1>4. ASSUME index.state = "ok", NEW n \in DOMAIN promised
      PROVE  \E i \in Layout!getManifestDescriptor([name |-> n, at |-> 0]) : index.entries[i].digest = promised[n]
  <2> DEFINE named == {i \in DOMAIN index.entries :
                         index.entries[i].name = n /\ Layout!supported(index.entries[i].digest)}
  <2>1. IndexIsRight(index.entries)
    BY <1>4
  <2>2. PICK i \in DOMAIN index.entries : index.entries[i].digest = promised[n] /\ index.entries[i].name = n
    BY <1>4, <2>1 DEF IndexIsRight, HasEntry
  <2>3. n # "" /\ Layout!supported(promised[n])
    BY <1>4, LayoutAssumption DEF LayoutTypes, ImagesAreKept, Layout!supported
  <2>4. i \in named
    BY <2>2, <2>3
  <2>5. \A j \in named : i = j
    BY <2>1, <2>2, <2>3 DEF IndexIsRight, OneEntryEach
  <2>6. i \in Nat
    BY <2>2, EntryFacts DEF LayoutTypes
  <2>7. \A j \in named : i <= j
    BY <2>5, <2>6, NaturalOrder, Zenon
  <2>8. Layout!getManifestDescriptor([name |-> n, at |-> 0]) = {k \in named : \A j \in named : k <= j}
    BY <1>4, <2>3 DEF Layout!getManifestDescriptor
  <2> HIDE DEF named
  <2> QED BY <2>2, <2>4, <2>7, <2>8
<1>5. ASSUME index.state = "ok", NEW n \in Names
      PROVE  Layout!Cardinality({i \in DOMAIN index.entries : index.entries[i].name = n}) <= 1
  <2> DEFINE S == {i \in DOMAIN index.entries : index.entries[i].name = n}
  <2>1. n # ""
    BY LayoutAssumption
  <2>2. \A i, j \in S : i = j
    BY <1>5, <2>1 DEF IndexIsRight, OneEntryEach
  <2> HIDE DEF S
  <2>3. S = {} \/ \E x : S = {x}
    <3>1. ASSUME NEW x \in S PROVE S = {x}
      BY <2>2
    <3> QED BY <3>1
  <2>4. Cardinality(S) = 0 \/ Cardinality(S) = 1
    BY <2>3, FS_EmptySet, FS_Singleton
  <2>5. Layout!Cardinality(S) = Cardinality(S)
    BY DEF Layout!Cardinality, Cardinality
  <2> QED BY <2>4, <2>5 DEF S
<1> QED BY <1>1, <1>2, <1>3, <1>4, <1>5 DEF Layout!LayoutIsSound, Layout!Present

(* While index.json and the promises stay and no blob is removed, every     *)
(* image keeps its entry and its blobs.                                     *)
LEMMA NothingIsLost ==
  ASSUME LayoutInvariant, UNCHANGED <<index, promised>>, DOMAIN blobs \subseteq DOMAIN blobs'
  PROVE  ImagesAreKept' /\ (index.state # "torn" => IndexIsRight(index.entries))'
<1>1. ImagesAreKept'
  BY DEF LayoutInvariant, ImagesAreKept
<1>2. (index.state # "torn" => IndexIsRight(index.entries))'
  BY DEF LayoutInvariant, IndexIsRight
<1> QED BY <1>1, <1>2

(* Opening a destination, giving up and dying change no file.               *)
LEMMA SessionsKeep ==
  ASSUME LayoutInvariant,
         (\E name \in Names \union {""} : Layout!newImageDestination(name)) \/ Layout!Close \/ Layout!Crash
  PROVE  LayoutInvariant'
<1>1. /\ UNCHANGED <<blobs, index, shared, promised>> /\ BlobsAreWhole'
      /\ ImagesAreKept' /\ (index.state # "torn" => IndexIsRight(index.entries))'
  <2>1. UNCHANGED <<blobs, index, shared, promised>>
    BY DEF Layout!newImageDestination, Layout!Close, Layout!Crash
  <2> QED BY <2>1, NothingIsLost DEF LayoutInvariant, BlobsAreWhole
<1>2. LayoutTypes /\ MaxSessions \in Nat
  BY LayoutAssumption DEF LayoutInvariant
<1>3. CASE Layout!Close \/ Layout!Crash
  <2>1. /\ session' = Layout!NoSession /\ session'.op = "none" /\ sessions' = sessions
        /\ \A w \in Workers : workers'[w] = Layout!Free
        /\ workers' \in [Workers -> WriterRecords]
    <3>1. Layout!Free \in WriterRecords /\ Layout!NoSession.op = "none"
      BY DEF Layout!Free, WriterRecords, Layout!NoSession
    <3>2. CASE Layout!Close
      BY <1>2, <3>1, <3>2 DEF Layout!Close, LayoutTypes
    <3>3. CASE Layout!Crash
      BY <1>2, <3>1, <3>3 DEF Layout!Crash, LayoutTypes
    <3> QED BY <1>3, <3>2, <3>3
  <2>2. LayoutTypes'
    BY <1>1, <1>2, <2>1 DEF LayoutTypes
  <2>3. WritersPush' /\ PushIsClosed' /\ PushIsRight' /\ SessionIndex'
    BY <2>1 DEF WritersPush, PushIsClosed, PushIsRight, SessionIndex, Pushing
  <2> QED BY <1>1, <2>2, <2>3 DEF LayoutInvariant
<1>4. ASSUME NEW name \in EntryNames, Layout!newImageDestination(name) PROVE LayoutInvariant'
  <2>1. /\ session.op = "none" /\ sessions < MaxSessions /\ sessions' = sessions + 1
        /\ index.state # "torn" /\ workers' = workers
        /\ session' = [op |-> "push", name |-> name, entries |-> index.entries, have |-> {}, top |-> ""]
    BY <1>4 DEF Layout!newImageDestination, Layout!NoSession
  <2>2. /\ session'.op = "push" /\ session'.name = name /\ session'.entries = index.entries
        /\ session'.have = {} /\ session'.top = ""
    BY <2>1
  <2>3. session' \in Pushes
    BY <1>2, <2>1 DEF Pushes, LayoutTypes
  <2>4. sessions' \in 0..MaxSessions
    <3>1. sessions \in 0..MaxSessions
      BY <1>2 DEF LayoutTypes
    <3>2. MaxSessions \in Nat /\ sessions < MaxSessions /\ sessions' = sessions + 1
      BY <1>2, <2>1
    <3> QED BY <3>1, <3>2, NaturalOrder, Zenon
  <2>5. LayoutTypes'
    BY <1>1, <1>2, <2>1, <2>3, <2>4 DEF LayoutTypes
  <2>6. WritersPush'
    BY <2>1, <2>2 DEF LayoutInvariant, WritersPush
  <2>7. PushIsClosed' /\ SessionIndex'
    BY <1>1, <2>1, <2>2 DEF PushIsClosed, SessionIndex, Pushing
  <2>8. PushIsRight'
    BY <1>1, <2>1, <2>2 DEF PushIsRight, Pushing, Entered, IndexIsRight
  <2> QED BY <1>1, <2>5, <2>6, <2>7, <2>8 DEF LayoutInvariant
<1> QED BY <1>3, <1>4 DEF EntryNames

(* The goroutines write to temporary files until a blob is complete.        *)
LEMMA WritersKeep ==
  ASSUME LayoutInvariant, NEW w \in Workers,
         (\E d \in Layout!ObjectDigests, good \in BOOLEAN : Layout!StartPutBlob(w, d, good)) \/ Layout!PutBlobFails(w)
  PROVE  LayoutInvariant'
<1>1. /\ UNCHANGED <<blobs, index, shared, session, sessions, promised>>
      /\ \/ workers' = [workers EXCEPT ![w] = Layout!Free]
         \/ \E d \in DOMAIN Objects, good \in BOOLEAN :
              /\ session.op = "push" /\ session.top = "" /\ Objects[d].kind = "blob"
              /\ workers' = [workers EXCEPT ![w] = [digest |-> d, good |-> good]]
  BY DEF Layout!StartPutBlob, Layout!PutBlobFails, Layout!ObjectDigests
<1>2. LayoutTypes' /\ WritersPush'
  <2>1. CASE workers' = [workers EXCEPT ![w] = Layout!Free]
    <3>1. Layout!Free \in WriterRecords
      BY DEF Layout!Free, WriterRecords
    <3> QED BY <1>1, <2>1, <3>1 DEF LayoutInvariant, LayoutTypes, WritersPush
  <2>2. ASSUME NEW d \in DOMAIN Objects, NEW good \in BOOLEAN,
               session.op = "push" /\ session.top = "" /\ Objects[d].kind = "blob",
               workers' = [workers EXCEPT ![w] = [digest |-> d, good |-> good]]
        PROVE  LayoutTypes' /\ WritersPush'
    <3>1. [digest |-> d, good |-> good] \in WriterRecords
      BY DEF WriterRecords
    <3> QED BY <1>1, <2>2, <3>1 DEF LayoutInvariant, LayoutTypes, WritersPush
  <2> QED BY <1>1, <2>1, <2>2
<1>3. BlobsAreWhole' /\ ImagesAreKept' /\ (index.state # "torn" => IndexIsRight(index.entries))'
  BY <1>1, NothingIsLost DEF LayoutInvariant, BlobsAreWhole
<1>4. PushIsClosed' /\ PushIsRight' /\ SessionIndex'
  BY <1>1 DEF LayoutInvariant, PushIsClosed, PushIsRight, SessionIndex, Pushing, Entered, IndexIsRight
<1> QED BY <1>2, <1>3, <1>4 DEF LayoutInvariant

(* A blob that was put, or found, is whole and needs no other object.       *)
LEMMA BlobsKeep ==
  ASSUME LayoutInvariant,
         (\E w \in Workers : Layout!blobFileSyncAndRename(w)) \/ \E d \in Layout!ObjectDigests : Layout!TryReusingBlob(d)
  PROVE  LayoutInvariant'
<1>1. PICK d \in DOMAIN Objects :
        /\ session.op = "push" /\ session.top = "" /\ Objects[d].kind = "blob"
        /\ session' = [session EXCEPT !.have = @ \union {d}]
        /\ UNCHANGED <<index, shared, sessions, promised>>
        /\ \/ blobs' = blobs /\ d \in DOMAIN blobs
           \/ blobs' = Layout!Stored(d, "ok")
        /\ \/ workers' = workers
           \/ \E w \in Workers : workers' = [workers EXCEPT ![w] = Layout!Free]
  <2>1. CASE \E d \in Layout!ObjectDigests : Layout!TryReusingBlob(d)
    BY <2>1 DEF Layout!TryReusingBlob, Layout!ObjectDigests, Layout!Present
  <2>2. ASSUME NEW w \in Workers, Layout!blobFileSyncAndRename(w)
        PROVE  /\ workers[w].digest \in DOMAIN Objects
               /\ session.op = "push" /\ session.top = "" /\ Objects[workers[w].digest].kind = "blob"
               /\ session' = [session EXCEPT !.have = @ \union {workers[w].digest}]
               /\ UNCHANGED <<index, shared, sessions, promised>>
               /\ blobs' = Layout!Stored(workers[w].digest, "ok")
               /\ workers' = [workers EXCEPT ![w] = Layout!Free]
    BY <2>2 DEF Layout!blobFileSyncAndRename, LayoutInvariant, WritersPush
  <2> QED BY <2>1, <2>2
<1>2. session \in Pushes /\ LayoutTypes
  BY <1>1, SessionFacts DEF LayoutInvariant, Pushing
<1>3. /\ session' \in Pushes /\ session'.have = session.have \cup {d}
      /\ session'.op = "push" /\ session'.top = "" /\ session'.name = session.name
      /\ session'.entries = session.entries
  BY <1>1, <1>2 DEF Pushes
<1>4. /\ DOMAIN blobs' = DOMAIN blobs \cup {d} /\ blobs' \in [DOMAIN blobs' -> {"ok", "torn"}]
      /\ \A x \in DOMAIN blobs : blobs'[x] = blobs[x] \/ blobs'[x] = "ok"
      /\ blobs'[d] = "ok"
  BY <1>1, <1>2 DEF Layout!Stored, Layout!Present, LayoutTypes, LayoutInvariant, BlobsAreWhole
<1>5. LayoutTypes'
  <2>1. workers' \in [Workers -> WriterRecords]
    <3>1. Layout!Free \in WriterRecords
      BY DEF Layout!Free, WriterRecords
    <3> QED BY <1>1, <1>2, <3>1 DEF LayoutTypes
  <2> QED BY <1>1, <1>2, <1>3, <1>4, <2>1 DEF LayoutTypes
<1>6. BlobsAreWhole'
  BY <1>4 DEF LayoutInvariant, BlobsAreWhole
<1>7. ImagesAreKept' /\ (index.state # "torn" => IndexIsRight(index.entries))'
  BY <1>1, <1>4, NothingIsLost
<1>8. WritersPush'
  BY <1>1, <1>2, <1>3 DEF LayoutInvariant, LayoutTypes, WritersPush
<1>9. PushIsClosed'
  <2>1. Objects[d].uses = <<>>
    BY <1>1, ObjectFacts
  <2>2. /\ session.have \subseteq DOMAIN blobs
        /\ \A x \in session.have : \A k \in DOMAIN Objects[x].uses : Objects[x].uses[k] \in session.have
    BY <1>1 DEF LayoutInvariant, PushIsClosed, Pushing
  <2>3. \A x \in session'.have : \A k \in DOMAIN Objects[x].uses : Objects[x].uses[k] \in session'.have
    <3>1. DOMAIN Objects[d].uses = {}
      BY <2>1
    <3> QED BY <1>3, <2>2, <3>1
  <2>4. session'.have \subseteq DOMAIN blobs'
    BY <1>3, <1>4, <2>2
  <2> QED BY <1>3, <2>3, <2>4 DEF PushIsClosed, Pushing
<1>10. PushIsRight' /\ SessionIndex'
  BY <1>1, <1>3 DEF LayoutInvariant, PushIsRight, SessionIndex, Pushing, Entered
<1> QED BY <1>5, <1>6, <1>7, <1>8, <1>9, <1>10 DEF LayoutInvariant

(* The empty name is none of the names.                                     *)
LEMMA NamesAreNames == "" \notin Names
BY LayoutAssumption

(* A manifest is written after what it refers to.                           *)
LEMMA ManifestKeeps ==
  ASSUME LayoutInvariant, NEW d \in DOMAIN Objects, Layout!PutManifest(d)
  PROVE  LayoutInvariant'
<1>1. /\ session.op = "push" /\ session.top = "" /\ Objects[d].kind \in {"manifest", "index"}
      /\ \A w \in Workers : workers[w] = Layout!Free
      /\ \A k \in DOMAIN Objects[d].uses : Objects[d].uses[k] \in session.have
      /\ session' = [session EXCEPT !.op = "manifest", !.have = @ \union {d}, !.top = d]
      /\ blobs' = Layout!Stored(d, "torn")
      /\ UNCHANGED <<index, shared, workers, sessions, promised>>
  BY DEF Layout!PutManifest, Layout!ToSet
<1>2. session \in Pushes /\ LayoutTypes
  BY <1>1, SessionFacts DEF LayoutInvariant, Pushing
<1>3. /\ session' \in Pushes /\ session'.have = session.have \cup {d}
      /\ session'.op = "manifest" /\ session'.top = d /\ session'.name = session.name
      /\ session'.entries = session.entries
  BY <1>1, <1>2 DEF Pushes
<1>4. /\ DOMAIN blobs' = DOMAIN blobs \cup {d} /\ blobs' \in [DOMAIN blobs' -> {"ok", "torn"}]
      /\ \A x \in DOMAIN blobs : x # d => blobs'[x] = blobs[x]
  BY <1>1, <1>2 DEF Layout!Stored, Layout!Present, LayoutTypes
<1>5. LayoutTypes'
  BY <1>1, <1>2, <1>3, <1>4 DEF LayoutTypes
<1>6. BlobsAreWhole'
  BY <1>1, <1>4 DEF LayoutInvariant, BlobsAreWhole
<1>7. ImagesAreKept' /\ (index.state # "torn" => IndexIsRight(index.entries))'
  BY <1>1, <1>4, NothingIsLost
<1>8. WritersPush'
  BY <1>1 DEF WritersPush
<1>9. PushIsClosed'
  <2>1. /\ session.have \subseteq DOMAIN blobs
        /\ \A x \in session.have : \A k \in DOMAIN Objects[x].uses : Objects[x].uses[k] \in session.have
    BY <1>1 DEF LayoutInvariant, PushIsClosed, Pushing
  <2>2. \A x \in session'.have : \A k \in DOMAIN Objects[x].uses : Objects[x].uses[k] \in session'.have
    BY <1>1, <1>3, <2>1
  <2>3. session'.have \subseteq DOMAIN blobs' /\ d \in session'.have /\ d # ""
    BY <1>3, <1>4, <2>1, ObjectFacts
  <2> QED BY <1>1, <1>3, <2>2, <2>3 DEF PushIsClosed, Pushing
<1>10. PushIsRight' /\ SessionIndex'
  BY <1>1, <1>3 DEF LayoutInvariant, PushIsRight, SessionIndex, Pushing, Entered
<1> QED BY <1>5, <1>6, <1>7, <1>8, <1>9, <1>10 DEF LayoutInvariant

(* A complete manifest gets its entry, or none if it is one of a list.      *)
LEMMA EntryKeeps ==
  ASSUME LayoutInvariant, NEW instance \in BOOLEAN, Layout!PutManifestDone(instance)
  PROVE  LayoutInvariant'
<1> DEFINE d == session.top
<1>1. /\ session.op = "manifest" /\ blobs' = Layout!Stored(d, "ok")
      /\ UNCHANGED <<index, shared, workers, sessions, promised>>
      /\ session' = IF instance THEN [session EXCEPT !.op = "push", !.top = ""]
                    ELSE [session EXCEPT !.op = "push",
                            !.entries = Layout!addManifest(@, [digest |-> d, name |-> session.name])]
  BY DEF Layout!PutManifestDone
<1>2. session \in Pushes /\ LayoutTypes
  BY <1>1, SessionFacts DEF LayoutInvariant, Pushing
<1>3. /\ d \in session.have /\ Objects[d].kind \in {"manifest", "index"} /\ d # ""
      /\ session.have \subseteq DOMAIN blobs /\ d \in DOMAIN Objects
      /\ \A x \in session.have : \A k \in DOMAIN Objects[x].uses : Objects[x].uses[k] \in session.have
  BY <1>1, <1>2 DEF LayoutInvariant, PushIsClosed, Pushing, Pushes
<1>4. /\ OneEntryEach(session.entries) /\ session.entries \in Entries /\ session.name \in EntryNames
      /\ \A n \in DOMAIN promised : n # session.name => HasEntry(session.entries, n, promised[n])
  BY <1>1, <1>2 DEF LayoutInvariant, PushIsRight, Pushing, Pushes
<1> DEFINE new == Layout!addManifest(session.entries, [digest |-> d, name |-> session.name])
<1>5. /\ new \in Entries /\ OneEntryEach(new) /\ HasEntry(new, session.name, d)
      /\ \A m, x : m # session.name /\ m # "" /\ HasEntry(session.entries, m, x) => HasEntry(new, m, x)
  BY <1>3, <1>4, ManifestIsAdded
<1> HIDE DEF new
<1>6. /\ session' \in Pushes /\ session'.have = session.have /\ session'.op = "push"
      /\ session'.name = session.name
      /\ session'.top = IF instance THEN "" ELSE d
      /\ session'.entries = IF instance THEN session.entries ELSE new
  <2>1. CASE instance
    <3>1. session' = [session EXCEPT !.op = "push", !.top = ""]
      BY <1>1, <2>1
    <3> QED BY <1>2, <2>1, <3>1 DEF Pushes
  <2>2. CASE ~instance
    <3>1. session' = [session EXCEPT !.op = "push", !.entries = new]
      BY <1>1, <2>2 DEF new
    <3> QED BY <1>2, <1>5, <2>2, <3>1 DEF Pushes
  <2> QED BY <2>1, <2>2
<1>7. /\ DOMAIN blobs' = DOMAIN blobs /\ blobs' \in [DOMAIN blobs' -> {"ok", "torn"}]
      /\ \A x \in DOMAIN blobs : blobs'[x] \in {blobs[x], "ok"}
  <2>1. d \in DOMAIN blobs
    BY <1>3
  <2> HIDE DEF d
  <2> QED BY <1>1, <1>2, <2>1 DEF Layout!Stored, Layout!Present, LayoutTypes
<1> HIDE DEF d
<1>8. LayoutTypes'
  BY <1>1, <1>2, <1>6, <1>7 DEF LayoutTypes
<1>9. BlobsAreWhole'
  BY <1>7 DEF LayoutInvariant, BlobsAreWhole
<1>10. ImagesAreKept' /\ (index.state # "torn" => IndexIsRight(index.entries))'
  BY <1>1, <1>7, NothingIsLost
<1>11. WritersPush'
  BY <1>1 DEF LayoutInvariant, WritersPush
<1>12. PushIsClosed'
  BY <1>3, <1>6, <1>7 DEF PushIsClosed, Pushing
<1>13. PushIsRight'
  <2>1. \A n \in DOMAIN promised : n # ""
    BY <1>2, NamesAreNames DEF LayoutTypes
  <2>2. OneEntryEach(session'.entries)
    BY <1>4, <1>5, <1>6
  <2>3. \A n \in DOMAIN promised : n # session.name => HasEntry(session'.entries, n, promised[n])
    BY <1>4, <1>5, <1>6, <2>1
  <2>4. session'.top # "" => HasEntry(session'.entries, session.name, session'.top)
    BY <1>5, <1>6
  <2> QED BY <1>1, <1>6, <2>2, <2>3, <2>4 DEF PushIsRight, Pushing, Entered
<1>14. SessionIndex'
  BY <1>1, <1>6 DEF LayoutInvariant, SessionIndex
<1> QED BY <1>8, <1>9, <1>10, <1>11, <1>12, <1>13, <1>14 DEF LayoutInvariant

(* Commit replaces index.json, not atomically.                              *)
LEMMA CommitKeeps ==
  ASSUME LayoutInvariant, Layout!Commit PROVE LayoutInvariant'
<1>1. /\ session.op = "push" /\ session.top # ""
      /\ index' = [state |-> "torn", entries |-> session.entries]
      /\ session' = [session EXCEPT !.op = "commit"]
      /\ UNCHANGED <<blobs, shared, workers, sessions, promised>>
  BY DEF Layout!Commit
<1>2. session \in Pushes /\ LayoutTypes
  BY <1>1, SessionFacts DEF LayoutInvariant, Pushing
<1>3. /\ session' \in Pushes /\ session'.op = "commit" /\ session'.have = session.have
      /\ session'.top = session.top /\ session'.name = session.name /\ session'.entries = session.entries
  BY <1>1, <1>2 DEF Pushes
<1>4. index'.state = "torn" /\ index'.entries = session.entries
  BY <1>1
<1>5. index' \in [state : {"absent", "ok", "torn"}, entries : Entries]
  BY <1>1, <1>2 DEF Pushes
<1>6. LayoutTypes'
  BY <1>1, <1>2, <1>3, <1>5 DEF LayoutTypes
<1>7. BlobsAreWhole' /\ ImagesAreKept'
  BY <1>1 DEF LayoutInvariant, BlobsAreWhole, ImagesAreKept
<1>8. WritersPush' /\ SessionIndex'
  BY <1>1, <1>3, <1>4 DEF LayoutInvariant, WritersPush, SessionIndex
<1>9. PushIsClosed' /\ PushIsRight'
  BY <1>1, <1>3 DEF LayoutInvariant, PushIsClosed, PushIsRight, Pushing, Entered
<1> QED BY <1>4, <1>6, <1>7, <1>8, <1>9 DEF LayoutInvariant

(* Once index.json is complete, the image is promised.                      *)
LEMMA CommitDoneKeeps ==
  ASSUME LayoutInvariant, Layout!CommitDone PROVE LayoutInvariant'
<1>1. /\ session.op = "commit" /\ index' = [index EXCEPT !.state = "ok"]
      /\ session' = Layout!NoSession /\ session'.op = "none"
      /\ promised' = IF session.name = "" THEN promised
                     ELSE [n \in DOMAIN promised \union {session.name} |->
                             IF n = session.name THEN session.top ELSE promised[n]]
      /\ UNCHANGED <<blobs, shared, workers, sessions>>
  BY DEF Layout!CommitDone, Layout!NoSession
<1>2. session \in Pushes /\ LayoutTypes
  BY <1>1, SessionFacts DEF LayoutInvariant, Pushing
<1>3. /\ session.top \in session.have /\ Objects[session.top].kind \in {"manifest", "index"}
      /\ session.have \subseteq DOMAIN blobs
      /\ \A x \in session.have : \A k \in DOMAIN Objects[x].uses : Objects[x].uses[k] \in session.have
  BY <1>1 DEF LayoutInvariant, PushIsClosed, Pushing
<1>4. session.have \in SUBSET DOMAIN Objects /\ session.name \in EntryNames
  BY <1>2 DEF Pushes
<1>5. Layout!Uses(session.top) \subseteq DOMAIN blobs
  BY <1>3, <1>4, ClosedUnderUses
<1>6. ASSUME NEW n \in DOMAIN promised'
      PROVE  \/ n # session.name /\ n \in DOMAIN promised /\ promised'[n] = promised[n]
             \/ n = session.name /\ n # "" /\ promised'[n] = session.top
  <2>1. CASE session.name = ""
    <3>1. \A m \in DOMAIN promised : m # ""
      BY <1>2, NamesAreNames DEF LayoutTypes
    <3> QED BY <1>1, <2>1, <3>1
  <2>2. CASE session.name # ""
    BY <1>1, <2>2
  <2> QED BY <2>1, <2>2
<1>7. index'.state = "ok" /\ index'.entries = index.entries
      /\ index' \in [state : {"absent", "ok", "torn"}, entries : Entries]
  BY <1>1, <1>2 DEF LayoutTypes
<1>8. LayoutTypes'
  <2>1. promised' \in [DOMAIN promised' -> DOMAIN Objects]
    <3>1. promised' = [n \in DOMAIN promised' |-> promised'[n]]
      BY <1>1, <1>2 DEF LayoutTypes
    <3>2. \A n \in DOMAIN promised' : promised'[n] \in DOMAIN Objects
      BY <1>2, <1>3, <1>4, <1>6 DEF LayoutTypes
    <3> QED BY <3>1, <3>2
  <2>2. DOMAIN promised' \subseteq Names
    BY <1>2, <1>4, <1>6 DEF LayoutTypes, EntryNames
  <2> QED BY <1>1, <1>2, <1>7, <2>1, <2>2 DEF LayoutTypes
<1>9. BlobsAreWhole' /\ ImagesAreKept'
  BY <1>1, <1>3, <1>5, <1>6 DEF LayoutInvariant, BlobsAreWhole, ImagesAreKept
<1>10. WritersPush' /\ PushIsClosed' /\ PushIsRight' /\ SessionIndex'
  BY <1>1 DEF LayoutInvariant, WritersPush, PushIsClosed, PushIsRight, SessionIndex, Pushing
<1>11. IndexIsRight(index.entries)'
  <2>1. /\ index.entries = session.entries /\ OneEntryEach(session.entries)
        /\ \A n \in DOMAIN promised : n # session.name => HasEntry(session.entries, n, promised[n])
        /\ session.name # "" => HasEntry(session.entries, session.name, session.top)
    BY <1>1 DEF LayoutInvariant, SessionIndex, PushIsRight, Pushing, Entered
  <2>2. OneEntryEach(index'.entries)
    BY <1>7, <2>1
  <2>3. \A n \in DOMAIN promised' : HasEntry(index'.entries, n, promised'[n])
    BY <1>6, <1>7, <2>1
  <2> QED BY <2>2, <2>3 DEF IndexIsRight
<1> QED BY <1>8, <1>9, <1>10, <1>11 DEF LayoutInvariant

(* Deleting an image withdraws its promise first; none of the blobs that    *)
(* will be removed is used by another promised image.                       *)
LEMMA DeleteImageKeeps ==
  ASSUME LayoutInvariant, NEW ref \in Layout!References, Layout!DeleteImage(ref)
  PROVE  LayoutInvariant'
<1>1. PICK i \in Layout!getManifestDescriptor(ref) :
        /\ session' = [op |-> "unlink", at |-> i, todo |-> Layout!getBlobsToDelete(i)]
        /\ promised' = Layout!Without(index.entries[i].name)
  BY DEF Layout!DeleteImage
<1>2. /\ session = Layout!NoSession /\ sessions < MaxSessions /\ sessions' = sessions + 1
      /\ UNCHANGED <<blobs, index, shared, workers>>
  BY DEF Layout!DeleteImage
<1>3. LayoutTypes /\ index.entries \in Entries /\ session.op = "none"
  BY <1>2 DEF LayoutInvariant, LayoutTypes, Layout!NoSession
<1>4. i \in DOMAIN index.entries /\ index.state = "ok"
  <2>1. index.state = "ok" /\ (i \in DOMAIN index.entries \/ (i = 1 /\ Len(index.entries) = 1))
    BY DEF Layout!getManifestDescriptor
  <2>2. DOMAIN index.entries = 1..Len(index.entries)
    BY <1>3, EntryFacts
  <2>3. CASE i = 1 /\ Len(index.entries) = 1
    <3>1. 1 \in 1..1
      OBVIOUS
    <3> QED BY <2>1, <2>2, <2>3, <3>1, Zenon
  <2> QED BY <2>1, <2>3
<1>5. IndexIsRight(index.entries)
  BY <1>4 DEF LayoutInvariant
<1>6. /\ DOMAIN promised' = DOMAIN promised \ {index.entries[i].name}
      /\ \A n \in DOMAIN promised' : n \in DOMAIN promised /\ promised'[n] = promised[n] /\ n # index.entries[i].name
      /\ promised' \in [DOMAIN promised' -> DOMAIN Objects]
  BY <1>1, <1>3 DEF Layout!Without, LayoutTypes
<1>7. session'.op = "unlink" /\ session'.at = i /\ session'.todo = Layout!getBlobsToDelete(i)
  BY <1>1
<1>8. Layout!getBlobsToDelete(i) \subseteq DOMAIN Objects
  <2>1. \A j \in DOMAIN index.entries : index.entries[j].digest \in DOMAIN Objects
    BY <1>3, EntryFacts
  <2>2. \A j \in DOMAIN index.entries : Layout!Uses(index.entries[j].digest) \subseteq DOMAIN Objects
    BY <2>1, UsesAreObjects
  <2> QED BY <2>2 DEF Layout!getBlobsToDelete
<1>9. LayoutTypes'
  <2>1. session' \in Deletions
    <3>1. i \in Nat
      BY <1>3, <1>4, EntryFacts
    <3> QED BY <1>1, <1>8, <3>1 DEF Deletions
  <2>2. sessions' \in 0..MaxSessions
    <3>1. sessions \in 0..MaxSessions /\ MaxSessions \in Nat
      BY <1>3, LayoutAssumption DEF LayoutTypes
    <3> QED BY <1>2, <3>1, NaturalOrder, Zenon
  <2> QED BY <1>2, <1>3, <1>6, <2>1, <2>2 DEF LayoutTypes
<1>10. BlobsAreWhole' /\ ImagesAreKept'
  BY <1>2, <1>6 DEF LayoutInvariant, BlobsAreWhole, ImagesAreKept
<1>11. WritersPush' /\ PushIsClosed' /\ PushIsRight'
  BY <1>2, <1>3, <1>7 DEF LayoutInvariant, WritersPush, PushIsClosed, PushIsRight, Pushing
<1>12. IndexIsRight(index.entries)'
  BY <1>2, <1>5, <1>6 DEF IndexIsRight
<1>13. ASSUME NEW n \in DOMAIN promised'
       PROVE  Layout!Uses(promised'[n]) \cap Layout!getBlobsToDelete(i) = {}
  <2>1. PICK j \in DOMAIN index.entries : index.entries[j].digest = promised'[n] /\ index.entries[j].name = n
    BY <1>5, <1>6 DEF IndexIsRight, HasEntry
  <2>2. j # i
    BY <1>6, <2>1
  <2>3. \A d \in Layout!getBlobsToDelete(i) : Layout!unusedElsewhere(d, i)
    BY DEF Layout!getBlobsToDelete
  <2>4. \A d \in Layout!getBlobsToDelete(i) : d \notin Layout!Uses(index.entries[j].digest)
    BY <1>3, <1>4, <2>2, <2>3, DeletedIsUnused
  <2> QED BY <2>1, <2>4
<1>14. SessionIndex'
  BY <1>2, <1>4, <1>6, <1>7, <1>13 DEF SessionIndex
<1> QED BY <1>9, <1>10, <1>11, <1>12, <1>14 DEF LayoutInvariant

(* A removed blob is used by no promised image.                             *)
LEMMA DeleteBlobKeeps ==
  ASSUME LayoutInvariant, NEW d \in DOMAIN Objects, Layout!deleteBlob(d)
  PROVE  LayoutInvariant'
<1>1. /\ session.op = "unlink" /\ d \in session.todo
      /\ session' = [session EXCEPT !.todo = @ \ {d}]
      /\ blobs' = IF shared THEN blobs ELSE Layout!Removed(d)
      /\ UNCHANGED <<index, shared, workers, sessions, promised>>
  BY DEF Layout!deleteBlob
<1>2. session \in Deletions /\ LayoutTypes
  BY <1>1, SessionFacts DEF LayoutInvariant
<1>3. /\ session' \in Deletions /\ session'.op = "unlink" /\ session'.at = session.at
      /\ session'.todo \subseteq session.todo
  BY <1>1, <1>2 DEF Deletions
<1>4. /\ blobs' \in [DOMAIN blobs' -> {"ok", "torn"}] /\ DOMAIN blobs' \subseteq DOMAIN blobs
      /\ \A x \in DOMAIN blobs : x # d => x \in DOMAIN blobs'
      /\ \A x \in DOMAIN blobs' : blobs'[x] = blobs[x]
  <2>1. CASE blobs' = blobs
    BY <1>2, <2>1 DEF LayoutTypes
  <2>2. CASE blobs' = Layout!Removed(d)
    BY <1>2, <2>2 DEF LayoutTypes, Layout!Removed, Layout!Present
  <2> QED BY <1>1, <2>1, <2>2
<1>5. LayoutTypes'
  BY <1>1, <1>2, <1>3, <1>4 DEF LayoutTypes
<1>6. BlobsAreWhole' /\ WritersPush' /\ PushIsClosed' /\ PushIsRight'
  BY <1>1, <1>3, <1>4 DEF LayoutInvariant, BlobsAreWhole, WritersPush, PushIsClosed, PushIsRight, Pushing
<1>7. \A n \in DOMAIN promised : d \notin Layout!Uses(promised[n])
  BY <1>1 DEF LayoutInvariant, SessionIndex
<1>8. ImagesAreKept'
  BY <1>1, <1>4, <1>7 DEF LayoutInvariant, ImagesAreKept
<1>9. (index.state # "torn" => IndexIsRight(index.entries))'
  BY <1>1 DEF LayoutInvariant, IndexIsRight
<1>10. SessionIndex'
  BY <1>1, <1>3 DEF LayoutInvariant, SessionIndex
<1> QED BY <1>5, <1>6, <1>8, <1>9, <1>10 DEF LayoutInvariant

(* The entry of a deleted image goes last.                                  *)
LEMMA ReindexKeeps ==
  ASSUME LayoutInvariant, Layout!deleteReferenceFromIndex PROVE LayoutInvariant'
<1>1. /\ session.op = "unlink" /\ session' = [op |-> "reindex"]
      /\ index' = [state |-> "torn", entries |-> Layout!RemoveAt(index.entries, session.at)]
      /\ UNCHANGED <<blobs, shared, workers, sessions, promised>>
  BY DEF Layout!deleteReferenceFromIndex
<1>2. /\ index.state # "torn" /\ session.at \in DOMAIN index.entries /\ IndexIsRight(index.entries)
      /\ \A n \in DOMAIN promised : n # index.entries[session.at].name
      /\ index.entries \in Entries /\ LayoutTypes
  BY <1>1 DEF LayoutInvariant, SessionIndex, LayoutTypes
<1> DEFINE rest == Layout!RemoveAt(index.entries, session.at)
<1>3. /\ rest \in Entries
      /\ OneEntryEach(index.entries) => OneEntryEach(rest)
      /\ \A n, d : n # index.entries[session.at].name /\ HasEntry(index.entries, n, d) => HasEntry(rest, n, d)
  BY <1>2, EntryIsRemoved
<1> HIDE DEF rest
<1>4. /\ session'.op = "reindex" /\ index'.state = "torn" /\ index'.entries = rest
      /\ index' \in [state : {"absent", "ok", "torn"}, entries : Entries]
  BY <1>1, <1>3 DEF rest
<1>5. LayoutTypes'
  BY <1>1, <1>2, <1>4 DEF LayoutTypes
<1>6. IndexIsRight(index.entries)'
  BY <1>1, <1>2, <1>3, <1>4 DEF IndexIsRight
<1>7. BlobsAreWhole' /\ ImagesAreKept' /\ WritersPush'
  BY <1>1, <1>4 DEF LayoutInvariant, BlobsAreWhole, ImagesAreKept, WritersPush
<1>8. PushIsClosed' /\ PushIsRight' /\ SessionIndex'
  BY <1>4, <1>6 DEF PushIsClosed, PushIsRight, Pushing, SessionIndex
<1> QED BY <1>5, <1>6, <1>7, <1>8 DEF LayoutInvariant

(* The new index.json is complete.                                          *)
LEMMA SaveKeeps ==
  ASSUME LayoutInvariant, Layout!saveJSON PROVE LayoutInvariant'
<1>1. /\ session.op = "reindex" /\ index' = [index EXCEPT !.state = "ok"]
      /\ session' = Layout!NoSession /\ session'.op = "none"
      /\ UNCHANGED <<blobs, shared, workers, sessions, promised>>
  BY DEF Layout!saveJSON, Layout!NoSession
<1>2. /\ index'.entries = index.entries
      /\ index' \in [state : {"absent", "ok", "torn"}, entries : Entries]
  BY <1>1 DEF LayoutInvariant, LayoutTypes
<1>3. LayoutTypes'
  BY <1>1, <1>2 DEF LayoutInvariant, LayoutTypes
<1>4. IndexIsRight(index.entries)'
  BY <1>1, <1>2 DEF LayoutInvariant, SessionIndex, IndexIsRight
<1>5. BlobsAreWhole' /\ ImagesAreKept' /\ WritersPush'
  BY <1>1 DEF LayoutInvariant, BlobsAreWhole, ImagesAreKept, WritersPush
<1>6. PushIsClosed' /\ PushIsRight' /\ SessionIndex'
  BY <1>1 DEF PushIsClosed, PushIsRight, Pushing, SessionIndex
<1> QED BY <1>3, <1>4, <1>5, <1>6 DEF LayoutInvariant

(* Nothing happens.                                                         *)
LEMMA LayoutStutter == ASSUME LayoutInvariant, UNCHANGED layoutVars PROVE LayoutInvariant'
<1>1. LayoutTypes' /\ BlobsAreWhole' /\ ImagesAreKept' /\ WritersPush'
  BY DEF layoutVars, LayoutInvariant, LayoutTypes, BlobsAreWhole, ImagesAreKept, WritersPush
<1>2. PushIsClosed' /\ PushIsRight' /\ SessionIndex' /\ (index.state # "torn" => IndexIsRight(index.entries))'
  BY DEF layoutVars, LayoutInvariant, PushIsClosed, PushIsRight, SessionIndex, IndexIsRight, Pushing, Entered
<1> QED BY <1>1, <1>2 DEF LayoutInvariant

(* Every step keeps the invariant.                                          *)
LEMMA LayoutNext == LayoutInvariant /\ Layout!Next => LayoutInvariant'
<1> SUFFICES ASSUME LayoutInvariant, Layout!Next PROVE LayoutInvariant'
  OBVIOUS
<1>1. Layout!ObjectDigests = DOMAIN Objects
  BY DEF Layout!ObjectDigests
<1>2. CASE Layout!Finished
  <2>1. UNCHANGED layoutVars
    BY <1>2 DEF Layout!Finished, Layout!vars, layoutVars
  <2> QED BY <2>1, LayoutStutter
<1> QED
  BY <1>1, <1>2, SessionsKeep, WritersKeep, BlobsKeep, ManifestKeeps, EntryKeeps, CommitKeeps, CommitDoneKeeps,
     DeleteImageKeeps, DeleteBlobKeeps, ReindexKeeps, SaveKeeps DEF Layout!Next

(* The layouts to start from have no torn file.                            *)
LEMMA FilesInitially == Layout!Init => FilesAreKept
<1> SUFFICES ASSUME Layout!Init PROVE FilesAreKept
  OBVIOUS
<1>1. PICK l \in Initial : blobs = l.blobs
  BY DEF Layout!Init
<1>2. \A x \in DOMAIN blobs : blobs[x] = "ok"
  BY <1>1, LayoutAssumption
<1>3. theirs = IF shared THEN DOMAIN blobs ELSE {}
  BY DEF Layout!Init, Layout!Present
<1> QED BY <1>2, <1>3 DEF FilesAreKept

(* Steps that write no file below blobs/ *)
LEMMA OtherFilesKeep ==
  ASSUME FilesAreKept, UNCHANGED <<blobs, shared, theirs, interrupted>>,
         session' = session \/ (session.op # "manifest" /\ session'.op # "manifest")
  PROVE  FilesAreKept'
<1>1. Layout!Rewritten' = Layout!Rewritten
  BY DEF Layout!Rewritten
<1> QED BY <1>1 DEF FilesAreKept

(* Every step keeps the files.                                              *)
LEMMA FilesNext == LayoutInvariant /\ FilesAreKept /\ Layout!Next => FilesAreKept'
<1> SUFFICES ASSUME LayoutInvariant, FilesAreKept, Layout!Next PROVE FilesAreKept'
  OBVIOUS
<1>1. CASE \E name \in Names \union {""} : Layout!newImageDestination(name)
  <2>1. PICK name \in Names \union {""} : Layout!newImageDestination(name)
    BY <1>1
  <2>2. /\ session = Layout!NoSession /\ UNCHANGED <<blobs, shared, theirs, interrupted>>
        /\ session' = [op |-> "push", name |-> name, entries |-> index.entries, have |-> {}, top |-> ""]
    BY <2>1 DEF Layout!newImageDestination
  <2>3. session.op = "none" /\ session'.op = "push"
    BY <2>2 DEF Layout!NoSession
  <2> QED BY <2>2, <2>3, OtherFilesKeep
<1>2. CASE \E w \in Workers : \/ \E d \in Layout!ObjectDigests, good \in BOOLEAN : Layout!StartPutBlob(w, d, good)
                             \/ Layout!PutBlobFails(w)
  BY <1>2, OtherFilesKeep DEF Layout!StartPutBlob, Layout!PutBlobFails
<1>3. ASSUME NEW w \in Workers, Layout!blobFileSyncAndRename(w) PROVE FilesAreKept'
  <2> DEFINE d == workers[w].digest
  <2>1. /\ blobs' = Layout!Stored(d, "ok") /\ UNCHANGED <<shared, theirs, interrupted>>
        /\ session' = [session EXCEPT !.have = @ \union {d}] /\ session.op = "push"
    BY <1>3 DEF Layout!blobFileSyncAndRename, LayoutInvariant, WritersPush
  <2>2. session \in Pushes
    BY <2>1, SessionFacts DEF LayoutInvariant, Pushing
  <2>3. session'.op = "push"
    BY <2>1, <2>2 DEF Pushes
  <2> HIDE DEF d
  <2> QED BY <2>1, <2>3 DEF FilesAreKept, Layout!Stored, Layout!Present, Layout!Rewritten
<1>4. ASSUME NEW d \in Layout!ObjectDigests, Layout!TryReusingBlob(d) PROVE FilesAreKept'
  <2>1. /\ session.op = "push" /\ session' = [session EXCEPT !.have = @ \union {d}]
        /\ UNCHANGED <<blobs, shared, theirs, interrupted>>
    BY <1>4 DEF Layout!TryReusingBlob
  <2>2. session \in Pushes
    BY <2>1, SessionFacts DEF LayoutInvariant, Pushing
  <2>3. session'.op = "push"
    BY <2>1, <2>2 DEF Pushes
  <2> QED BY <2>1, <2>3, OtherFilesKeep
<1>5. ASSUME NEW d \in Layout!ObjectDigests, Layout!PutManifest(d) PROVE FilesAreKept'
  <2>1. /\ blobs' = Layout!Stored(d, "torn") /\ UNCHANGED <<shared, theirs, interrupted>>
        /\ session' = [session EXCEPT !.op = "manifest", !.have = @ \union {d}, !.top = d]
        /\ session.op = "push"
    BY <1>5 DEF Layout!PutManifest
  <2>2. session \in Pushes
    BY <2>1, SessionFacts DEF LayoutInvariant, Pushing
  <2>3. session'.op = "manifest" /\ session'.top = d
    BY <2>1, <2>2 DEF Pushes
  <2>4. Layout!Rewritten = {} /\ Layout!Rewritten' = {d}
    BY <2>1, <2>3 DEF Layout!Rewritten
  <2> QED BY <2>1, <2>4 DEF FilesAreKept, Layout!Stored, Layout!Present
<1>6. ASSUME NEW instance \in BOOLEAN, Layout!PutManifestDone(instance) PROVE FilesAreKept'
  <2>1. /\ session.op = "manifest" /\ blobs' = Layout!Stored(session.top, "ok")
        /\ interrupted' = interrupted \ {session.top} /\ UNCHANGED <<shared, theirs>>
    BY <1>6 DEF Layout!PutManifestDone
  <2>2. Layout!Rewritten = {session.top}
    BY <2>1 DEF Layout!Rewritten
  <2> QED BY <2>1, <2>2 DEF FilesAreKept, Layout!Stored, Layout!Present
<1>7. CASE Layout!Close \/ Layout!Crash
  <2>1. interrupted' = interrupted \union Layout!Rewritten /\ UNCHANGED <<blobs, shared, theirs>>
    BY <1>7 DEF Layout!Close, Layout!Crash
  <2> QED BY <2>1 DEF FilesAreKept
<1>8. CASE Layout!Commit
  <2>1. /\ session.op = "push" /\ session' = [session EXCEPT !.op = "commit"]
        /\ UNCHANGED <<blobs, shared, theirs, interrupted>>
    BY <1>8 DEF Layout!Commit
  <2>2. session \in Pushes
    BY <2>1, SessionFacts DEF LayoutInvariant, Pushing
  <2>3. session'.op = "commit"
    BY <2>1, <2>2 DEF Pushes
  <2> QED BY <2>1, <2>3, OtherFilesKeep
<1>9. CASE Layout!CommitDone \/ Layout!saveJSON
  <2>1. /\ session.op \in {"commit", "reindex"} /\ session' = Layout!NoSession
        /\ UNCHANGED <<blobs, shared, theirs, interrupted>>
    BY <1>9 DEF Layout!CommitDone, Layout!saveJSON
  <2>2. session.op # "manifest" /\ session'.op # "manifest"
    BY <2>1 DEF Layout!NoSession
  <2> QED BY <2>1, <2>2, OtherFilesKeep
<1>10. CASE \E ref \in Layout!References : Layout!DeleteImage(ref)
  BY <1>10, OtherFilesKeep DEF Layout!DeleteImage, Layout!NoSession
<1>11. ASSUME NEW d \in Layout!ObjectDigests, Layout!deleteBlob(d) PROVE FilesAreKept'
  <2>1. /\ session.op = "unlink" /\ session' = [session EXCEPT !.todo = @ \ {d}]
        /\ blobs' = (IF shared THEN blobs ELSE Layout!Removed(d)) /\ UNCHANGED <<shared, theirs, interrupted>>
    BY <1>11 DEF Layout!deleteBlob
  <2>2. session \in Deletions
    BY <2>1, SessionFacts DEF LayoutInvariant
  <2>3. session'.op = "unlink"
    BY <2>1, <2>2 DEF Deletions
  <2>4. Layout!Rewritten = {} /\ Layout!Rewritten' = {}
    BY <2>1, <2>3 DEF Layout!Rewritten
  <2> QED BY <2>1, <2>4 DEF FilesAreKept, Layout!Removed, Layout!Present
<1>12. CASE Layout!deleteReferenceFromIndex
  BY <1>12, OtherFilesKeep DEF Layout!deleteReferenceFromIndex
<1>13. CASE Layout!Finished
  BY <1>13, OtherFilesKeep DEF Layout!Finished, Layout!vars
<1> QED
  BY <1>1, <1>2, <1>3, <1>4, <1>5, <1>6, <1>7, <1>8, <1>9, <1>10, <1>11, <1>12, <1>13 DEF Layout!Next

(* In an OCI layout, however pushes and deletions fail and the process      *)
(* dies, blobs are whole; an image that was committed under a name and      *)
(* neither replaced nor deleted keeps its files, and so do other layouts    *)
(* in a shared directory, but for a manifest file whose rewriting was       *)
(* interrupted; while index.json is not torn it is found under its name.    *)
(* For any objects, names, number of goroutines and number of sessions.     *)
THEOREM LayoutsAreSound == Spec => []LayoutIsSound
<1> DEFINE Inv == part = "layout" => LayoutInvariant /\ FilesAreKept
<1>1. Init => Inv
  BY LayoutInitially, FilesInitially DEF Init, layoutInit
<1>2. Inv /\ [Next]_vars => Inv'
  <2> SUFFICES ASSUME Inv, [Next]_vars, part' = "layout" PROVE LayoutInvariant' /\ FilesAreKept'
    OBVIOUS
  <2>1. CASE UNCHANGED <<part, layoutVars>>
    BY <2>1, LayoutStutter, OtherFilesKeep DEF layoutVars
  <2>2. CASE LayoutStep
    BY <2>2, LayoutNext, FilesNext DEF LayoutStep
  <2>3. CASE DownloadStep \/ ChunksStep \/ UploadStep \/ SignaturesStep \/ BoltStep \/ MayStop \/ UNCHANGED vars
    <3>1. UNCHANGED <<part, layoutVars>>
      BY <2>3 DEF DownloadStep, ChunksStep, UploadStep, SignaturesStep, BoltStep, MayStop, vars
    <3> QED BY <2>1, <3>1
  <2> QED BY <2>2, <2>3 DEF Next
<1>3. Inv => LayoutIsSound
  BY LayoutFollows DEF LayoutIsSound
<1> QED BY <1>1, <1>2, <1>3, PTL DEF Spec
=============================================================================
