----------------------------- MODULE HttpOutput -----------------------------
(***************************************************************************)
(* How the web server sends one answer (bus_webserver/src/http.c): through *)
(* the output buffer, for an answer of unknown length by way of the chunk  *)
(* buffer, and for a file straight to the socket.  The socket takes as     *)
(* much as it likes; the handler, the flushing it calls and the events of  *)
(* the socket run one after the other in one thread.                       *)
(*                                                                         *)
(* Bytes are told apart by what they are and by their place in it.         *)
(***************************************************************************)
EXTENDS WebsBuf

CONSTANTS
    Header,     \* bytes of the headers
    PrefixLen,  \* bytes of "\r\n%x\r\n", for each chunk length
    Trailer,    \* bytes of "\r\n0\r\n\r\n"
    Reserve,    \* the 16 bytes kept free for each of them
    CHUNK_LOW,  \* room too small for a chunk
    FileBuf,    \* bytes of a file read at a time
    Sizes       \* bound: lengths of a body

ASSUME HttpOutputAssumption ==
    /\ Reserve \in Nat /\ CHUNK_LOW \in Nat /\ Reserve <= CHUNK_LOW
    /\ PrefixLen \in [1 .. BufLen -> 1 .. Reserve]
    /\ Trailer \in 1 .. Reserve /\ Header \in 1 .. BufLen - 1 - Reserve
    /\ FileBuf \in Nat \ {0} /\ Sizes \subseteq Nat

VARIABLES
    pc,         \* where the thread is
    caller,     \* who called websFlush
    kind, size, \* the answer: "chunked", "sized" or "file"; its length
    left,       \* bytes of the body the handler, or the file, still has
    output, chunkbuf,
    txState, txChunkLen, txPrefixNext,  \* chunk state; bytes of prefix put
    chunking, finalized, state,         \* flags and state of the request
    writable,   \* whether writable events are handled
    ready,      \* whether the socket said it takes something
    failed,     \* whether the connection is broken
    client      \* what the client made of the bytes it got

buffers == <<output, chunkbuf>>
chunk   == <<txState, txChunkLen, txPrefixNext>>
answer  == <<kind, size>>
request == <<chunking, finalized, state>>
socket  == <<writable, ready, failed>>
vars    == <<pc, caller, answer, left, buffers, chunk, request, socket, client>>

Byte(k, v, of) == [k |-> k, v |-> v, of |-> of]
HeaderBytes == [i \in 1 .. Header |-> Byte("head", i, 0)]
TrailerBytes == [i \in 1 .. Trailer |-> Byte("end", i, 0)]
PrefixBytes(len, from) ==
    [i \in 1 .. PrefixLen[len] - from |-> Byte("size", from + i, len)]
BodyBytes(n) == [i \in 1 .. n |-> Byte("body", size - left + i, 0)]

(* The client reads headers, then a body of the length announced, or       *)
(* chunks of the lengths they announce and the end.                        *)
NewClient == [head |-> 0, pre |-> 0, due |-> 0, got |-> 0, end |-> 0, ok |-> TRUE]

Reads(c, b) ==
    LET between == c.pre = 0 /\ c.due = 0
    IN CASE b.k = "head" /\ b.v = c.head + 1 /\ between /\ c.got = 0 ->
              [c EXCEPT !.head = b.v]
         [] b.k = "size" /\ b.v = c.pre + 1 /\ c.due = 0 /\ c.end = 0 /\ c.head = Header ->
              [c EXCEPT !.pre = IF b.v = PrefixLen[b.of] THEN 0 ELSE b.v,
                        !.due = IF b.v = PrefixLen[b.of] THEN b.of ELSE 0]
         [] b.k = "body" /\ b.v = c.got + 1 /\ c.head = Header
                /\ (kind = "chunked" => c.due > 0) ->
              [c EXCEPT !.got = b.v, !.due = IF kind = "chunked" THEN @ - 1 ELSE 0]
         [] b.k = "end" /\ b.v = c.end + 1 /\ between ->
              [c EXCEPT !.end = b.v]
         [] OTHER -> [c EXCEPT !.ok = FALSE]

After(c, bytes) ==
    LET read[i \in 0 .. Len(bytes)] ==
            IF i = 0 THEN c ELSE Reads(read[i - 1], bytes[i])
    IN read[Len(bytes)]

Received(bytes) == client' = After(client, bytes)

Init ==
    /\ pc = "begin" /\ caller = "none"
    /\ kind \in {"chunked", "sized", "file"} /\ size \in Sizes
    /\ left = size
    /\ output = EmptyBuf /\ chunkbuf = EmptyBuf
    /\ txState = "start" /\ txChunkLen = 0 /\ txPrefixNext = 0
    /\ chunking = FALSE /\ finalized = FALSE /\ state = "running"
    /\ writable = FALSE /\ ready = FALSE /\ failed = FALSE
    /\ client = NewClient

-----------------------------------------------------------------------------
(* websFlush.                                                              *)

Flush(who) ==
    /\ caller' = who
    /\ pc' = IF chunking THEN "chunk" ELSE "send"

RoomForChunk == Room(output) - Reserve

(* flushChunkData goes on while there are data and room for a chunk.       *)
MoreChunks == pc = "chunk" /\ Len(chunkbuf.data) > 0 /\ RoomForChunk > CHUNK_LOW

MutChunkStart ==
    /\ MoreChunks /\ txState = "start"
    /\ txChunkLen' = Least(Len(chunkbuf.data), RoomForChunk)
    /\ txPrefixNext' = 0 /\ txState' = "header"
    /\ UNCHANGED <<pc, caller, answer, left, buffers, request, socket, client>>

ChunkStart ==
    /\ MoreChunks /\ txState = "start"
    /\ txChunkLen' = Least(Len(chunkbuf.data), RoomForChunk - Reserve)
    /\ txPrefixNext' = 0 /\ txState' = "header"
    /\ UNCHANGED <<pc, caller, answer, left, buffers, request, socket, client>>

(* A prefix that does not fit whole is resumed by the next flush.          *)
ChunkHeader ==
    /\ MoreChunks /\ txState = "header"
    /\ LET prefix == PrefixBytes(txChunkLen, txPrefixNext)
           put == Put(output, prefix)
           n == Len(put.data) - Len(output.data)
       IN /\ output' = put
          /\ txPrefixNext' = txPrefixNext + n
          /\ txState' = IF n = Len(prefix) THEN "data" ELSE txState
          /\ pc' = IF n = Len(prefix) THEN pc ELSE "send"
    /\ UNCHANGED <<caller, answer, left, chunkbuf, txChunkLen, request, socket, client>>

MutChunkData ==
    /\ MoreChunks /\ txState = "data" /\ txChunkLen > 0
    /\ LET n == Least(RoomForChunk, txChunkLen)
       IN /\ output' = Put(output, Straight(chunkbuf, n))
          /\ txChunkLen' = txChunkLen - n
          /\ txState' = IF txChunkLen = n THEN "start" ELSE "data"
          /\ chunkbuf' = AdjustStart(chunkbuf, n)
    /\ UNCHANGED <<pc, caller, answer, left, txPrefixNext, request, socket, client>>

ChunkData ==
    /\ MoreChunks /\ txState = "data" /\ txChunkLen > 0
    /\ LET n == Least(RoomForChunk, txChunkLen)
           rest == AdjustStart(chunkbuf, n)
       IN /\ output' = Put(output, Straight(chunkbuf, n))
          /\ txChunkLen' = txChunkLen - n
          /\ txState' = IF txChunkLen = n THEN "start" ELSE txState
          /\ chunkbuf' = IF txChunkLen = n THEN Compact(rest) ELSE rest
    /\ UNCHANGED <<pc, caller, answer, left, txPrefixNext, request, socket, client>>

MutAllChunked == finalized

(* Nothing is left of the body, and nothing more will come.                *)
AllChunked == Len(chunkbuf.data) = 0 /\ finalized

ChunkEnd ==
    /\ pc = "chunk" /\ (Len(chunkbuf.data) = 0 \/ RoomForChunk <= CHUNK_LOW)
    /\ pc' = "send"
    /\ \/ /\ AllChunked
          /\ output' = Put(output, TrailerBytes)
          /\ chunking' = FALSE
       \/ ~AllChunked /\ UNCHANGED <<output, chunking>>
    /\ UNCHANGED <<caller, answer, left, chunkbuf, chunk, finalized, state, socket, client>>

Sent(n) == Compact(AdjustStart(output, n))

Send(n) ==
    /\ pc = "send" /\ n \in 1 .. Len(output.data) /\ ~failed
    /\ Received(Straight(output, n))
    /\ output' = Sent(n)
    /\ ready' = FALSE
    /\ UNCHANGED <<pc, caller, answer, left, chunkbuf, chunk, request, writable, failed>>

MutHandled(wait) == writable

(* The handler for writable events, once there is something to wait for.   *)
Handled(wait) == writable \/ wait

(* Back to who called websFlush; websDone and websSetBackgroundWriter see  *)
(* that writable events are handled.                                       *)
Return(flushed) ==
    \/ caller = "write" /\ pc' = "put" /\ UNCHANGED writable
    \/ caller = "done" /\ pc' = "pump" /\ writable' = Handled(~flushed)
    \/ caller = "event" /\ pc' = "event" /\ UNCHANGED writable
    \/ /\ caller = "background"
       /\ \/ flushed /\ pc' = "file" /\ UNCHANGED writable
          \/ ~flushed /\ pc' = "pump" /\ writable' = Handled(state' = "running")

(* The socket takes nothing, unless it just said it would.                 *)
SocketFull ==
    /\ pc = "send" /\ Len(output.data) > 0 /\ ~failed /\ ~ready
    /\ UNCHANGED <<caller, answer, left, buffers, chunk, request, ready, failed, client>>
    /\ Return(FALSE)

(* The connection breaks, at once or after a piece was taken by Send.      *)
SendFails ==
    /\ pc = "send" /\ Len(output.data) > 0
    /\ failed' = TRUE
    /\ output' = EmptyBuf /\ state' = "complete"
    /\ Return(FALSE)
    /\ UNCHANGED <<caller, answer, left, chunkbuf, chunk, chunking, finalized, ready, client>>

MutWholeAnswer == Len(output.data) = 0 /\ chunkbuf.data = <<>>
MutNeverWhole  == Len(output.data) = 0 /\ finalized /\ state = "complete"

(* The answer counts as complete, whatever is left in chunkbuf.            *)
WholeAnswer == Len(output.data) = 0 /\ finalized

FlushEnd ==
    /\ pc = "send" /\ Len(output.data) = 0
    /\ state' = IF WholeAnswer THEN "complete" ELSE state
    /\ Return(TRUE)
    /\ UNCHANGED <<caller, answer, left, buffers, chunk, chunking, finalized, ready,
                   failed, client>>

-----------------------------------------------------------------------------
(* The handler: headers, then the body by websWrite and websDone, or by a  *)
(* background writer.                                                      *)
WriteHeaders ==
    /\ pc = "begin"
    /\ output' = Put(output, HeaderBytes)
    /\ chunking' = (kind = "chunked")
    /\ \/ kind # "file" /\ pc' = "write" /\ UNCHANGED caller
       \/ kind = "file" /\ size = 0 /\ pc' = "done" /\ UNCHANGED caller
       \/ kind = "file" /\ size > 0 /\ pc' = "send" /\ caller' = "background"
    /\ UNCHANGED <<answer, left, chunkbuf, chunk, finalized, state, socket, client>>

Op == IF chunking THEN chunkbuf ELSE output

PutBody ==
    LET n == Least(Room(Op), left)
    IN /\ \/ chunking /\ chunkbuf' = Put(chunkbuf, BodyBytes(n)) /\ UNCHANGED output
          \/ ~chunking /\ output' = Put(output, BodyBytes(n)) /\ UNCHANGED chunkbuf
       /\ left' = left - n

(* websWriteBlock: one turn of its loop, flushing first if the rest does   *)
(* not fit, and giving up if nothing fits after that.                      *)
WriteBlock ==
    /\ pc = "write" /\ left > 0 /\ state = "running"
    /\ \/ Room(Op) < left /\ Flush("write") /\ UNCHANGED <<left, buffers>>
       \/ Room(Op) >= left /\ PutBody /\ UNCHANGED <<pc, caller>>
    /\ UNCHANGED <<answer, chunk, request, socket, client>>

PutBlock ==
    /\ pc = "put"
    /\ \/ Room(Op) = 0 /\ pc' = "done" /\ UNCHANGED <<left, buffers>>
       \/ Room(Op) > 0 /\ pc' = "write" /\ PutBody
    /\ UNCHANGED <<caller, answer, chunk, request, socket, client>>

WriteEnd ==
    /\ pc = "write" /\ (left = 0 \/ state = "complete")
    /\ pc' = "done"
    /\ UNCHANGED <<caller, answer, left, buffers, chunk, request, socket, client>>

websDone ==
    /\ pc = "done"
    /\ finalized' = TRUE
    /\ IF finalized THEN pc' = "pump" /\ UNCHANGED caller ELSE Flush("done")
    /\ UNCHANGED <<answer, left, buffers, chunk, chunking, state, socket, client>>

(* fileWriteEvent, with memory for its block: what the socket did not take *)
(* is read again.  After an error the file has moved on.                   *)
MutSeekBack(n, wrote) == left - n

SeekBack(n, wrote) == left - wrote

FileWrite ==
    /\ pc = "file" /\ left > 0
    /\ LET n == Least(left, FileBuf)
       IN \E wrote \in 0 .. n :
              /\ ~failed /\ (wrote = 0 => ~ready)
              /\ Received(BodyBytes(wrote))
              /\ left' = SeekBack(n, wrote)
              /\ \/ wrote = n /\ UNCHANGED <<pc, writable>>
                 \/ /\ wrote < n /\ pc' = "pump"
                    /\ writable' = Handled(state = "running")
    /\ ready' = FALSE
    /\ UNCHANGED <<caller, answer, buffers, chunk, request, failed>>

(* The connection breaks, perhaps after it took some of what was read.     *)
FileFails ==
    /\ pc = "file" /\ left > 0
    /\ \/ ~failed /\ \E wrote \in 0 .. Least(left, FileBuf) - 1 : Received(BodyBytes(wrote))
       \/ failed /\ UNCHANGED client
    /\ failed' = TRUE /\ left' = left - Least(left, FileBuf)
    /\ pc' = "pump" /\ writable' = Handled(state = "running")
    /\ UNCHANGED <<caller, answer, buffers, chunk, request, ready>>

FileEnd ==
    /\ pc = "file" /\ left = 0 /\ pc' = "done"
    /\ UNCHANGED <<caller, answer, left, buffers, chunk, request, socket, client>>

-----------------------------------------------------------------------------
(* websPump after the handler or the event: the connection is reused or    *)
(* closed, or the request waits for the socket.                            *)
Pump ==
    /\ pc = "pump"
    /\ pc' = IF state = "complete" THEN "over" ELSE "idle"
    /\ UNCHANGED <<caller, answer, left, buffers, chunk, request, socket, client>>

(* socketEvent with SOCKET_WRITABLE, and writeEvent.                       *)
WritableEvent ==
    /\ pc = "idle" /\ writable
    /\ ready' = ~failed
    /\ \/ Len(output.data) > 0 /\ Flush("event")
       \/ Len(output.data) = 0 /\ pc' = "event" /\ UNCHANGED caller
    /\ UNCHANGED <<answer, left, buffers, chunk, request, writable, failed, client>>

EventEnd ==
    /\ pc = "event"
    /\ pc' = IF Len(output.data) = 0 /\ kind = "file" /\ size > 0 THEN "file" ELSE "pump"
    /\ UNCHANGED <<caller, answer, left, buffers, chunk, request, socket, client>>

(* checkTimeout: the client took nothing for too long.  complete() asserts *)
(* a state this request is not in, which is logged, and closes it.         *)
Timeout ==
    /\ pc = "idle" /\ pc' = "closed"
    /\ failed' = TRUE
    /\ UNCHANGED <<caller, answer, left, buffers, chunk, request, writable, ready, client>>

Thread ==
    \/ WriteHeaders \/ WriteBlock \/ PutBlock \/ WriteEnd \/ websDone
    \/ ChunkStart \/ ChunkHeader \/ ChunkData \/ ChunkEnd
    \/ (\E n \in 1 .. BufLen : Send(n)) \/ SocketFull \/ SendFails \/ FlushEnd
    \/ FileWrite \/ FileFails \/ FileEnd \/ Pump \/ EventEnd

Next == Thread \/ WritableEvent \/ Timeout

Spec == Init /\ [][Next]_vars

(* The thread runs on, and the event loop calls it when the socket can be  *)
(* written to or the request has been idle for too long.                   *)
FairSpec == Spec /\ WF_vars(Thread) /\ WF_vars(WritableEvent \/ Timeout)

-----------------------------------------------------------------------------
(* The variables keep their shapes.                                        *)
TypeOK ==
    /\ pc \in {"begin", "write", "put", "done", "chunk", "send", "file", "pump",
               "idle", "event", "over", "closed"}
    /\ caller \in {"none", "write", "done", "event", "background"}
    /\ kind \in {"chunked", "sized", "file"} /\ size \in Sizes /\ left \in 0 .. size
    /\ txState \in {"start", "header", "data"}
    /\ txChunkLen \in 0 .. BufLen - 1 /\ txPrefixNext \in 0 .. Reserve
    /\ chunking \in BOOLEAN /\ finalized \in BOOLEAN /\ state \in {"running", "complete"}
    /\ writable \in BOOLEAN /\ ready \in BOOLEAN /\ failed \in BOOLEAN

(* Between two steps both rings start at the start of their memory, so     *)
(* that no reader runs around their end and no compaction drops a byte.    *)
RingsInPlace == output.at = 0 /\ chunkbuf.at = 0

(* Room is kept for the prefix and the data of a chunk once begun, whenever *)
(* it is resumed, and for the trailer: each of them is put whole.           *)
ChunkFits ==
    /\ txState = "header" => txPrefixNext = 0 /\ txChunkLen + Reserve <= RoomForChunk
    /\ txState # "start" => txChunkLen \in 1 .. Len(chunkbuf.data) /\ txChunkLen <= RoomForChunk
    /\ chunking => Room(output) >= Reserve

(* The client never meets a byte that is out of place.                     *)
WireInOrder == client.ok

(* Unless the connection breaks, what the client misses when the answer is *)
(* over is what the handler could not write and what chunkbuf still held;  *)
(* if it held nothing, the end of the chunks was sent.                     *)
NothingElseLost ==
    pc = "over" /\ ~failed =>
        /\ client.head = Header
        /\ client.got + Len(chunkbuf.data) + left = size
        /\ kind = "file" => left = 0
        /\ kind = "chunked" /\ chunkbuf.data = <<>> => client.end = Trailer

(* A request that waits for the socket will hear from it, and has          *)
(* something to send then.                                                 *)
WaitsForSocket ==
    pc = "idle" => writable /\ (Len(output.data) > 0 \/ kind = "file")

Wire == INSTANCE ByteStream
            WITH taken <- size - left, got <- client.got, ended <- client.end = Trailer

(* The client gets the stream of bytes the handler wrote, in order, and    *)
(* sees its end only after the last of them.                               *)
ImplementsStream == Wire!Stream

(* Every answer comes to its end, whatever the client takes and when.      *)
AnswerEnds == <>(pc \in {"over", "closed"})

(* http.c:2044: websFlush returns true if all data is written to the       *)
(* socket; the request is complete on its word.                            *)
CompleteIsWritten == state = "complete" /\ ~failed => chunkbuf.data = <<>>
=============================================================================
