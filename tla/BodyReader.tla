------------------------------ MODULE BodyReader ------------------------------
(***************************************************************************)
(* The reader of a blob that a registry sends (docker/body_reader.go): a   *)
(* connection that breaks off is resumed with a Range request, if the      *)
(* heuristic finds it worth a retry.  Bytes are numbered from 0; what the  *)
(* caller got is the sequence of their numbers.                            *)
(***************************************************************************)
EXTENDS Integers, Sequences

CONSTANTS
  Size,            \* of the blob
  MinimumProgress, \* bodyReaderMinimumProgress
  SinceLastRetry,  \* bodyReaderMSSinceLastRetry
  MaxTime          \* bound on the clock

VARIABLES
  body,            \* br.body: the range [pos, end) the connection still has, or Closed
  offset,          \* br.offset
  lastRetryOffset, \* br.lastRetryOffset, -1 if N/A
  lastRetryTime,   \* br.lastRetryTime, -1 if N/A
  now,             \* the clock
  received,        \* the bytes handed to the caller
  retries,         \* Range requests sent
  lengthKnown,     \* every response named the length of the blob
  result           \* of the last Read

vars == <<body, offset, lastRetryOffset, lastRetryTime, now, received, retries, lengthKnown, result>>

Closed == [pos |-> -1, end |-> -1]

TypeOK ==
  /\ body \in [pos : -1..Size, end : -1..Size]
  /\ offset \in 0..Size
  /\ lastRetryOffset \in -1..Size
  /\ lastRetryTime \in -1..MaxTime
  /\ now \in 0..MaxTime
  /\ received \in Seq(0..(Size - 1))
  /\ retries \in Nat
  /\ lengthKnown \in BOOLEAN
  /\ result \in {"reading", "reconnect", "EOF", "error"}

(* newBodyReader                                                           *)
Init ==
  /\ body = [pos |-> 0, end |-> Size]
  /\ offset = 0
  /\ lastRetryOffset = -1
  /\ lastRetryTime = -1
  /\ now = 0
  /\ received = <<>>
  /\ retries = 0
  /\ lengthKnown = TRUE
  /\ result = "reading"

(* Mutation: progress is counted from the start of the blob.               *)
reconnectingByOffset(off) ==
  \/ off >= MinimumProgress
  \/ lastRetryTime = -1
  \/ now - lastRetryTime >= SinceLastRetry

(* errorIfNotReconnecting returns nil when off bytes were read             *)
reconnecting(off) ==
  \/ off - lastRetryOffset >= MinimumProgress
  \/ lastRetryTime = -1
  \/ now - lastRetryTime >= SinceLastRetry

(* Read: n bytes of the connection, and how it ended.  Only a broken       *)
(* connection (ErrUnexpectedEOF, ECONNRESET) is a reason to reconnect; it  *)
(* is closed first.                                                        *)
Read ==
  /\ result = "reading" /\ body # Closed
  /\ \E n \in 0..(body.end - body.pos), err \in {"none", "EOF", "broken", "other"} :
       /\ err = "EOF" => body.pos + n = body.end
       /\ err = "none" => n > 0
       /\ received' = received \o [k \in 1..n |-> body.pos + k - 1]
       /\ offset' = offset + n
       /\ result' = CASE err = "none"   -> "reading"
                      [] err = "EOF"    -> "EOF"
                      [] err = "broken" -> IF reconnecting(offset + n) THEN "reconnect" ELSE "error"
                      [] OTHER          -> "error"
       /\ body' = IF result' = "reconnect" THEN Closed ELSE [body EXCEPT !.pos = @ + n]
  /\ UNCHANGED <<lastRetryOffset, lastRetryTime, now, retries, lengthKnown>>

(* The responses a server may give to "Range: bytes=offset-": status and   *)
(* the Content-Range header, whose complete length may be "*" (-1).  The   *)
(* body is the range the header names.                                     *)
Responses ==
  [status : {200, 404}, first : {0}, last : {Size - 1}, complete : {Size}]
  \cup {r \in [status : {206}, first : 0..(Size - 1), last : 0..(Size - 1), complete : {-1, Size}] :
          r.first <= r.last}

(* Mutation: the start of the range is not compared with the offset.       *)
acceptableByEnd(r) ==
  /\ r.status = 206
  /\ r.complete # -1 => r.last + 1 = r.complete

(* parseContentRange, and what Read demands of it                          *)
acceptable(r) ==
  /\ r.status = 206
  /\ r.first = offset
  /\ r.complete # -1 => r.last + 1 = r.complete

(* The rest of Read after the heuristic: the Range request                 *)
Reconnect ==
  /\ result = "reconnect"
  /\ retries' = retries + 1
  /\ \/ \E r \in Responses :
          IF acceptable(r)
          THEN /\ body' = [pos |-> r.first, end |-> r.last + 1]
               /\ lastRetryOffset' = offset
               /\ lastRetryTime' = now
               /\ lengthKnown' = (lengthKnown /\ r.complete # -1)
               /\ result' = "reading"
          ELSE /\ result' = "error"
               /\ UNCHANGED <<body, lastRetryOffset, lastRetryTime, lengthKnown>>
     \/ /\ result' = "error"      \* makeRequest failed
        /\ UNCHANGED <<body, lastRetryOffset, lastRetryTime, lengthKnown>>
  /\ UNCHANGED <<offset, now, received>>

Tick ==
  /\ now < MaxTime /\ result \in {"reading", "reconnect"}
  /\ now' = now + 1
  /\ UNCHANGED <<body, offset, lastRetryOffset, lastRetryTime, received, retries, lengthKnown, result>>

(* The caller stops at the first error and closes the reader.              *)
Close ==
  /\ result \in {"EOF", "error"}
  /\ body' = Closed
  /\ UNCHANGED <<offset, lastRetryOffset, lastRetryTime, now, received, retries, lengthKnown, result>>

Next == Read \/ Reconnect \/ Tick \/ Close

Spec == Init /\ [][Next]_vars

-----------------------------------------------------------------------------
(* Across any number of reconnections the caller gets the bytes of the     *)
(* blob in order, none lost and none repeated.                             *)
NoGapsNoRepeats ==
  /\ Len(received) = offset
  /\ \A k \in 1..Len(received) : received[k] = k - 1

(* A reader that reports EOF has delivered the whole blob, if the server   *)
(* told its length with every range.                                       *)
EOFMeansComplete == result = "EOF" /\ lengthKnown => offset = Size

(* The heuristic cannot retry for ever: the number of Range requests is    *)
(* bounded by the bytes read and by the time passed.                       *)
RetriesAreBounded == retries <= 2 + (offset \div MinimumProgress) + (now \div SinceLastRetry)

(* Resuming is invisible to the caller.                                    *)
DownloadIsExact == TypeOK /\ NoGapsNoRepeats /\ EOFMeansComplete
===============================================================================
