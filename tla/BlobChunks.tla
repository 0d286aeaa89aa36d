------------------------------ MODULE BlobChunks ------------------------------
(***************************************************************************)
(* GetBlobAt of docker/docker_image_src.go: a producer goroutine turns the *)
(* answer to a Range request into one stream per chunk, sent through a     *)
(* channel; the consumer reads and closes each before the next is sent.  A *)
(* third goroutine reads the network ahead into a fixed set of buffers.    *)
(* Bytes of the blob are numbered.  A buffer holds one token of the body:  *)
(* a byte, a boundary, the end, or a failure, with or without data, and (a *)
(* ghost) the place in the body where it was read.                         *)
(***************************************************************************)
EXTENDS Integers, Sequences

CONSTANTS
  Size,     \* bytes of the blob
  Requests, \* the sequences of chunks callers ask for: [off, len], len may be Rest
  Buffers   \* nBuffers of makeBufferedNetworkReader

Rest    == -1   \* math.MaxUint64: up to the end of the blob
Garbage == -1   \* a byte of the reader's own buffer that nothing was copied to

VARIABLES
  chunks,    \* the chunks asked for
  reply,     \* how the server answers: its form, the number of parts, and what one part spans
  body,      \* the place in the body from which the network is read
  closed,    \* what has been closed: "terminate", "emptyBuffer", "body"
  empty,     \* buffers in emptyBuffer
  ready,     \* the tokens in readyBuffer
  handler,   \* the goroutine of bufferedNetworkReader
  producer,  \* splitHTTP200ResponseToPartial or handle206Response
  offset,    \* currentOffset, or parts for a multipart body
  skip,      \* bytes to discard before the chunk
  left,      \* bytes the consumer may still read of its stream, Rest if not limited
  got,       \* what the consumer read of each stream
  ended,     \* how the reading of each stream ended
  errors     \* values sent through errs

network == <<body, closed, empty, ready, handler>>
vars == <<chunks, reply, network, producer, offset, skip, left, got, ended, errors>>

(* The bytes of the blob in the chunk c, which may reach beyond its end    *)
BytesOf(c) ==
  LET end == IF c.len = Rest \/ c.off + c.len > Size THEN Size ELSE c.off + c.len
  IN  [k \in 1..(end - c.off) |-> c.off + k - 1]

(* The bodies a server that has the blob may send: all of it; some parts,  *)
(* each after a boundary, which may not be as many as asked for; or one    *)
(* range that spans what it can satisfy of the chunks (RFC 7233 lets a     *)
(* server coalesce ranges), or parts with no boundary given.  A place in a *)
(* body is after the n-th byte of the k-th part.                           *)
Place(k, n) == [part |-> k, nr |-> n]
WholeBlob == [off |-> 0, len |-> Rest]
Part(k) ==
  IF k = 0 THEN <<>> ELSE IF reply.form # "multipart" THEN BytesOf(reply.span)
  ELSE IF k <= Len(chunks) THEN BytesOf(chunks[k]) ELSE <<0>>

Satisfiable == {k \in DOMAIN chunks : chunks[k].off < Size}
Until(c) == IF c.len = Rest THEN Size ELSE c.off + c.len
Outermost(i, j) ==
  \A k \in Satisfiable : chunks[i].off <= chunks[k].off /\ Until(chunks[k]) <= Until(chunks[j])
Span(i, j) ==
  [off |-> chunks[i].off,
   len |-> IF chunks[j].len = Rest THEN Rest ELSE chunks[j].off + chunks[j].len - chunks[i].off]

(* Several chunks were asked for, and the server coalesced them.           *)
Coalesced == reply.form = "single" /\ Len(chunks) # 1

(* What follows a place, and the place behind that                         *)
Following(p) ==
  IF p.nr < Len(Part(p.part)) THEN "byte" ELSE IF p.part < reply.parts THEN "boundary" ELSE "EOF"
Behind(p, kind) ==
  IF kind = "byte" THEN Place(p.part, p.nr + 1)
  ELSE IF kind = "boundary" THEN Place(p.part + 1, 0) ELSE p

Places  == [part : Nat, nr : Nat]
Replies ==
  [form : {"200", "no boundary"}, parts : {1}, span : {WholeBlob}]
    \cup [form : {"single"}, parts : {1}, span : [off : Nat, len : Int]]
    \cup [form : {"multipart"}, parts : Nat, span : {WholeBlob}]
Failures == {"error", "error with data"}
Tokens  == [kind : {"byte", "boundary", "EOF"} \cup Failures, at : Places]

TypeOK ==
  /\ chunks \in Requests
  /\ reply \in Replies
  /\ body \in Places
  /\ closed \in SUBSET {"terminate", "emptyBuffer", "body"}
  /\ empty \in 0..Buffers
  /\ ready \in Seq(Tokens)
  /\ handler \in {"select", "parked", "reading", "ended", "panicked"}
  /\ producer \in {"next", "skip", "offer", "wait", "direct", "error", "error2", "close", "done",
                  "crashed"}
  /\ offset \in Nat /\ skip \in Nat /\ left \in Nat \cup {Rest}
  /\ got \in Seq(Seq(Int)) /\ ended \in Seq({"reading", "EOF", "error", "early"})
  /\ Len(got) = Len(ended)
  /\ errors \in Nat

Init ==
  /\ chunks \in Requests
  /\ \/ reply = [form |-> "200", parts |-> 1, span |-> WholeBlob]
     \/ \E i, j \in Satisfiable :
          Outermost(i, j) /\ reply = [form |-> "single", parts |-> 1, span |-> Span(i, j)]
     \/ \E n \in 0..(Len(chunks) + 1) :
          reply = [form |-> "multipart", parts |-> n, span |-> WholeBlob]
     \/ reply = [form |-> "no boundary", parts |-> 1, span |-> WholeBlob]
  /\ body = Place(IF reply.form = "multipart" THEN 0 ELSE 1, 0)
  /\ closed = {}
  /\ empty = Buffers
  /\ ready = <<>>
  /\ handler = IF reply.form \in {"200", "multipart"} THEN "select" ELSE "ended"   \* not started
  /\ producer = "next"
  /\ offset = 0 /\ skip = 0 /\ left = 0
  /\ got = <<>> /\ ended = <<>>
  /\ errors = 0

-----------------------------------------------------------------------------
(* handleBufferedNetworkReader: its select waits if there is nothing to    *)
(* choose, and takes what comes first; else it chooses among what there    *)
(* is.  A receive from the closed channel, once it is drained, gives no    *)
(* buffer, and the read into it panics.                                    *)
Park ==
  /\ handler = "select" /\ empty = 0 /\ closed = {}
  /\ handler' = "parked"
  /\ UNCHANGED <<chunks, reply, body, closed, empty, ready, producer, offset, skip, left, got, ended, errors>>

Select ==
  /\ handler \in {"select", "parked"}
  /\ \/ empty > 0 /\ empty' = empty - 1 /\ handler' = "reading"
     \/ empty = 0 /\ "emptyBuffer" \in closed /\ handler' = "panicked" /\ UNCHANGED empty
     \/ "terminate" \in closed /\ handler' = "ended" /\ UNCHANGED empty
  /\ UNCHANGED <<chunks, reply, body, closed, ready, producer, offset, skip, left, got, ended, errors>>

(* One read of the network: the next token, the end, or a failure, which   *)
(* is certain once the body is closed and may come with data.              *)
ReadNetwork ==
  /\ handler = "reading"
  /\ \E kind \in {Following(body)} \cup Failures :
       /\ "body" \in closed => kind = "error"
       /\ ready' = Append(ready, [kind |-> kind, at |-> body])
       /\ body' = Behind(body, kind)
       /\ handler' = IF kind \in {"EOF"} \cup Failures THEN "ended" ELSE "select"
  /\ UNCHANGED <<chunks, reply, closed, empty, producer, offset, skip, left, got, ended, errors>>

(* bufferedNetworkReader.read: the token at the head of readyBuffer, whose *)
(* buffer is given back.  The end stays (gotEOF).  A failure is returned   *)
(* once, with the length of the data that came with it, none of which is   *)
(* copied; its buffer is not given back.  multipart.Reader never reads     *)
(* after a failure and returns it again, so there the token stays.         *)
token  == Head(ready)
byte   == Part(token.at.part)[token.at.nr + 1]
Take   == ready' = Tail(ready) /\ empty' = empty + 1
Failed == token.kind \in Failures
TakeFailure ==
  /\ ready' = IF reply.form = "multipart" THEN ready ELSE Tail(ready)
  /\ UNCHANGED empty

(* A read after the failure: the handler has closed readyBuffer, receiving *)
(* from it gives no buffer, and using that panics.                         *)
Dead == handler = "ended" /\ ready = <<>>

-----------------------------------------------------------------------------
(* Mutation: what is skipped is not counted.                               *)
AfterSkippingUncounted(c) == offset

(* currentOffset once the chunk c is reached                               *)
AfterSkipping(c) == c.off

\* the chunk the producer is at
current == chunks[Len(got) + 1]

(* splitHTTP200ResponseToPartial, the head of its loop                     *)
NextChunk ==
  /\ producer = "next" /\ reply.form = "200"
  /\ IF Len(got) = Len(chunks)
     THEN producer' = "close" /\ UNCHANGED <<offset, skip>>
     ELSE IF current.off < offset
     THEN producer' = "error" /\ UNCHANGED <<offset, skip>>
     ELSE /\ producer' = "skip"
          /\ skip' = current.off - offset
          /\ offset' = AfterSkipping(current)
  /\ UNCHANGED <<chunks, reply, network, left, got, ended, errors>>

(* io.Copy to io.Discard: the end of the body is no failure                *)
Skip ==
  /\ producer = "skip"
  /\ \/ /\ skip = 0
        /\ producer' = "offer" /\ left' = current.len
        /\ UNCHANGED <<skip, ready, empty>>
     \/ /\ skip > 0 /\ ready # <<>> /\ token.kind = "byte"
        /\ skip' = skip - 1 /\ Take
        /\ UNCHANGED <<producer, left>>
     \/ /\ skip > 0 /\ ready # <<>> /\ token.kind = "EOF"
        /\ skip' = 0
        /\ UNCHANGED <<producer, left, ready, empty>>
     \/ /\ skip > 0 /\ ready # <<>> /\ Failed
        /\ producer' = "error" /\ TakeFailure
        /\ UNCHANGED <<skip, left>>
     \/ /\ skip > 0 /\ Dead
        /\ producer' = "crashed"
        /\ UNCHANGED <<skip, left, ready, empty>>
  /\ UNCHANGED <<chunks, reply, body, closed, handler, offset, got, ended, errors>>

(* handle206Response: multipart.Reader.NextPart discards what is left of   *)
(* the part before; offset counts the parts.                               *)
NextPart ==
  /\ producer = "next" /\ reply.form = "multipart" /\ ready # <<>>
  /\ CASE token.kind = "byte" -> Take /\ UNCHANGED <<producer, left>>
       [] token.kind = "boundary" ->
            /\ producer' = IF offset >= Len(chunks) THEN "error" ELSE "offer"
            /\ left' = Rest
            /\ Take
       [] token.kind = "EOF" ->
            /\ producer' = IF offset # Len(chunks) THEN "error" ELSE "close"
            /\ UNCHANGED <<left, ready, empty>>
       [] Failed ->
            /\ producer' = IF offset # Len(chunks) THEN "error2" ELSE "error"
            /\ UNCHANGED <<left, ready, empty>>
  /\ UNCHANGED <<chunks, reply, body, closed, handler, offset, skip, got, ended, errors>>

(* handle206Response with one range: the body itself is the stream and the *)
(* channels are closed, however many chunks were asked for.  What the      *)
(* consumer reads, and how it ends, is between it and the network.         *)
SingleRange ==
  /\ producer = "next" /\ reply.form = "single"
  /\ producer' = "direct"
  /\ got' = <<<<>>>> /\ ended' = <<"reading">>
  /\ UNCHANGED <<chunks, reply, network, offset, skip, left, errors>>

DirectRead ==
  /\ producer = "direct" /\ ended[1] = "reading"
  /\ \E kind \in {Following(body), "error"} :
       /\ got' = IF kind = "byte" THEN [got EXCEPT ![1] = Append(@, Part(body.part)[body.nr + 1])]
                 ELSE got
       /\ ended' = IF kind = "byte" THEN ended ELSE [ended EXCEPT ![1] = kind]
       /\ body' = Behind(body, kind)
  /\ UNCHANGED <<chunks, reply, closed, empty, ready, handler, producer, offset, skip, left, errors>>

DirectClose ==
  /\ producer = "direct"
  /\ producer' = "done" /\ closed' = {"body"}
  /\ ended' = IF ended[1] = "reading" THEN <<"early">> ELSE ended
  /\ UNCHANGED <<chunks, reply, body, empty, ready, handler, offset, skip, left, got, errors>>

(* A multipart answer that names no boundary                               *)
NoBoundary ==
  /\ producer = "next" /\ reply.form = "no boundary"
  /\ producer' = "done" /\ errors' = errors + 1 /\ closed' = {"body"}
  /\ UNCHANGED <<chunks, reply, body, empty, ready, handler, offset, skip, left, got, ended>>

(* streams <- s                                                            *)
Offer ==
  /\ producer = "offer"
  /\ producer' = "wait"
  /\ got' = Append(got, <<>>) /\ ended' = Append(ended, "reading")
  /\ UNCHANGED <<chunks, reply, network, offset, skip, left, errors>>

atEnd == Len(got)

\* what io.LimitReader leaves after one byte more
OneLess == IF left = Rest THEN Rest ELSE left - 1

(* The consumer reads its stream, up to its end or a failure.              *)
Consume ==
  /\ producer = "wait" /\ ended[atEnd] = "reading"
  /\ \/ /\ left = 0
        /\ ended' = [ended EXCEPT ![atEnd] = "EOF"]
        /\ UNCHANGED <<got, left, ready, empty, producer>>
     \/ /\ left # 0 /\ ready # <<>> /\ token.kind = "byte"
        /\ got' = [got EXCEPT ![atEnd] = Append(@, byte)]
        /\ left' = OneLess /\ Take
        /\ UNCHANGED <<ended, producer>>
     \/ /\ left # 0 /\ ready # <<>> /\ token.kind \in {"boundary", "EOF"}
        /\ ended' = [ended EXCEPT ![atEnd] = "EOF"]
        /\ UNCHANGED <<got, left, ready, empty, producer>>
     \/ /\ left # 0 /\ ready # <<>> /\ token.kind = "error"
        /\ ended' = [ended EXCEPT ![atEnd] = "error"] /\ TakeFailure
        /\ UNCHANGED <<got, left, producer>>
     \/ /\ left # 0 /\ ready # <<>> /\ token.kind = "error with data"
        /\ got' = [got EXCEPT ![atEnd] = Append(@, Garbage)]
        /\ ended' = [ended EXCEPT ![atEnd] = "error"]
        /\ left' = OneLess /\ TakeFailure
        /\ UNCHANGED producer
     \/ /\ left # 0 /\ Dead
        /\ producer' = "crashed"
        /\ UNCHANGED <<got, ended, left, ready, empty>>
  /\ UNCHANGED <<chunks, reply, body, closed, handler, offset, skip, errors>>

(* The consumer closes its stream before the end                           *)
StopEarly ==
  /\ producer = "wait" /\ ended[atEnd] = "reading"
  /\ ended' = [ended EXCEPT ![atEnd] = "early"]
  /\ UNCHANGED <<chunks, reply, network, producer, offset, skip, left, got, errors>>

(* signalCloseReader.Close: of a stream of a 200 answer the rest is        *)
(* consumed, however its reading ended, up to its end or a failure, which  *)
(* is the consumer's; then the producer goes on.                           *)
consuming == reply.form = "200" /\ left # 0

CloseStream ==
  /\ producer = "wait" /\ ended[atEnd] # "reading"
  /\ \/ /\ consuming /\ ready # <<>> /\ token.kind = "byte"
        /\ left' = OneLess /\ Take
        /\ UNCHANGED <<producer, offset>>
     \/ /\ consuming /\ Dead
        /\ producer' = "crashed"
        /\ UNCHANGED <<left, ready, empty, offset>>
     \/ /\ consuming => ready # <<>> /\ token.kind # "byte"
        /\ producer' = "next"
        /\ offset' = IF reply.form = "multipart" THEN offset + 1
                     ELSE offset + (IF chunks[atEnd].len = Rest THEN Size ELSE chunks[atEnd].len)
        /\ IF consuming /\ Failed THEN TakeFailure ELSE UNCHANGED <<ready, empty>>
        /\ UNCHANGED left
  /\ UNCHANGED <<chunks, reply, body, closed, handler, skip, got, ended, errors>>

(* errs <- err; the consumer receives until both channels are closed.      *)
SendError ==
  /\ producer \in {"error", "error2"}
  /\ errors' = errors + 1
  /\ producer' = IF producer = "error2" THEN "error" ELSE "close"
  /\ UNCHANGED <<chunks, reply, network, offset, skip, left, got, ended>>

(* The deferred Close of the network reader, one step at a time, and of    *)
(* the channels                                                            *)
Close ==
  /\ producer = "close"
  /\ \/ closed = {} /\ closed' = {"terminate"} /\ UNCHANGED producer
     \/ closed = {"terminate"} /\ closed' = {"terminate", "emptyBuffer"} /\ UNCHANGED producer
     \/ /\ closed = {"terminate", "emptyBuffer"}
        /\ closed' = {"terminate", "emptyBuffer", "body"}
        /\ producer' = "done"
  /\ handler' = IF handler = "parked" THEN "ended" ELSE handler   \* <-br.terminate
  /\ UNCHANGED <<chunks, reply, body, empty, ready, offset, skip, left, got, ended, errors>>

Finished ==
  /\ producer \in {"done", "crashed"} /\ handler \in {"ended", "panicked"}
  /\ UNCHANGED vars

Next ==
  \/ Park \/ Select \/ ReadNetwork
  \/ NextChunk \/ Skip \/ NextPart \/ SingleRange \/ DirectRead \/ DirectClose \/ NoBoundary
  \/ Offer \/ Consume \/ StopEarly \/ CloseStream
  \/ SendError \/ Close \/ Finished

Spec == Init /\ [][Next]_vars

-----------------------------------------------------------------------------
(* The k-th stream holds the bytes of the k-th chunk, in order and without *)
(* gaps, and all of them when it ends without a failure, even if the       *)
(* stream before was closed early.  The reading that fails may count bytes *)
(* that nothing was copied to.                                             *)
Copied(k) ==
  IF ended[k] = "error" /\ got[k] # <<>> /\ got[k][Len(got[k])] = Garbage
  THEN Len(got[k]) - 1 ELSE Len(got[k])
StreamsHoldTheirChunks ==
  \A k \in DOMAIN got :
     /\ Copied(k) <= Len(BytesOf(chunks[k]))
     /\ \A j \in 1..Copied(k) : got[k][j] = BytesOf(chunks[k])[j]
     /\ ended[k] = "EOF" => got[k] = BytesOf(chunks[k])

(* The producer leaves nobody waiting: when it is done, the body is closed *)
(* and a failure was reported, unless all chunks were handed out.          *)
EndIsReported ==
  producer = "done" => "body" \in closed /\ (errors > 0 \/ Len(got) = Len(chunks))

(* Unless the server coalesces several chunks, what GetBlobAt hands out is *)
(* what was asked for, and its end is told.                                *)
ChunksAreExact == TypeOK /\ (~Coalesced => StreamsHoldTheirChunks /\ EndIsReported)

(* What goes wrong with the network or with closing the reader is reported *)
(* as an error value: the reading goroutine does not crash the process.    *)
ReaderNeverPanics == handler # "panicked"
===============================================================================
