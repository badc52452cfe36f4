-------------------------- MODULE HttpOutputProofs --------------------------
(***************************************************************************)
(* What holds of HttpOutput for buffers, headers, chunk prefixes and       *)
(* bodies of every size.  A first inductive invariant relates the lengths  *)
(* of the two buffers with the chunk under way, and the place of the       *)
(* thread with the handler for writable events.  A second one says what    *)
(* bytes are in the buffers: those the client expects next.  Last, that    *)
(* the thread always comes back to the event loop.                         *)
(***************************************************************************)
EXTENDS HttpOutput, SequenceTheorems, WellFoundedInduction, TLAPS

Bytes == [k : {"head", "size", "body", "end", "junk"}, v : Int, of : Int]

(* A buffer as it is between two steps: in place, and never full.          *)
InPlace(b) ==
    /\ b \in [at : {0}, data : Seq(Bytes)]
    /\ Len(b.data) <= BufLen - 1

-----------------------------------------------------------------------------
(* The ring operations on buffers in place.                                *)

(* A buffer in place has its room in one piece.                            *)
LEMMA RoomInPlace ==
    ASSUME NEW b, InPlace(b)
    PROVE  Len(b.data) \in Nat /\ Room(b) \in Nat /\ Room(b) = BufLen - 1 - Len(b.data)
<1>1. Len(b.data) \in Nat /\ b.at = 0 /\ Len(b.data) <= BufLen - 1
  BY LenProperties DEF InPlace
<1>2. End(b) = Len(b.data)
  <2>1. 0 + Len(b.data) = Len(b.data) /\ ~(Len(b.data) >= BufLen)
    BY <1>1, BufLenAssumption
  <2> QED
    BY <1>1, <2>1 DEF End, Wrap
<1>3. Room(b) = Least(BufLen - Len(b.data), BufLen - Len(b.data) - 1)
  BY <1>2 DEF Room
<1>4. \A l \in Nat : Least(BufLen - l, BufLen - l - 1) = BufLen - 1 - l
  BY BufLenAssumption DEF Least
<1>5. \A l \in Nat : l <= BufLen - 1 => BufLen - 1 - l \in Nat
  BY BufLenAssumption
<1> QED
  BY <1>1, <1>3, <1>4, <1>5

(* An empty buffer is in place.                                            *)
LEMMA EmptyInPlace == InPlace(EmptyBuf) /\ Len(EmptyBuf.data) = 0
  BY EmptySeq, BufLenAssumption DEF InPlace, EmptyBuf

(* Putting bytes keeps a buffer in place and takes what there is room for. *)
LEMMA PutInPlace ==
    ASSUME NEW b, InPlace(b), NEW bytes \in Seq(Bytes)
    PROVE  /\ InPlace(Put(b, bytes))
           /\ Len(Put(b, bytes).data) = Len(b.data) + Least(Len(bytes), Room(b))
<1> DEFINE n == Least(Len(bytes), BufLen - 1 - Len(b.data))
           piece == SubSeq(bytes, 1, n)
<1>1. /\ Len(b.data) \in Nat /\ Room(b) = BufLen - 1 - Len(b.data)
      /\ b \in [at : {0}, data : Seq(Bytes)] /\ Len(b.data) <= BufLen - 1
  BY RoomInPlace DEF InPlace
<1>2. Len(bytes) \in Nat /\ bytes \in [1 .. Len(bytes) -> Bytes]
  BY LenProperties
<1>3. n \in Nat /\ n <= Len(bytes) /\ n <= BufLen - 1 - Len(b.data)
  BY <1>1, <1>2, BufLenAssumption DEF Least
<1>4. \A i \in 1 .. n : bytes[i] \in Bytes
  BY <1>2, <1>3
<1>5. piece \in Seq(Bytes) /\ Len(piece) = n
  <2>1. 1 \in Int /\ n \in Int
    BY <1>3
  <2> HIDE DEF n
  <2>2. piece \in Seq(Bytes) /\ Len(piece) = IF 1 <= n THEN n - 1 + 1 ELSE 0
    BY <1>4, <2>1, SubSeqProperties
  <2> QED
    BY <2>2, <1>3
<1> HIDE DEF n, piece
<1>6. b.data \o piece \in Seq(Bytes) /\ Len(b.data \o piece) = Len(b.data) + n
  BY <1>1, <1>5, ConcatProperties
<1>7. Put(b, bytes) = [b EXCEPT !.data = b.data \o piece]
  BY DEF Put, piece, n
<1>8. Put(b, bytes).data = b.data \o piece /\ Put(b, bytes).at = 0
      /\ Put(b, bytes) \in [at : {0}, data : Seq(Bytes)]
  BY <1>1, <1>6, <1>7
<1> QED
  BY <1>1, <1>3, <1>6, <1>8, BufLenAssumption DEF InPlace, n

(* If there is room, what is put comes after what was there.               *)
LEMMA PutAppends ==
    ASSUME NEW b, InPlace(b), NEW bytes \in Seq(Bytes), Len(bytes) <= Room(b)
    PROVE  Put(b, bytes).data = b.data \o bytes
<1>1. /\ b \in [at : {0}, data : Seq(Bytes)] /\ Len(b.data) \in Nat
      /\ Room(b) = BufLen - 1 - Len(b.data)
  BY RoomInPlace DEF InPlace
<1>2. Len(bytes) \in Nat
  BY LenProperties
<1>3. Least(Len(bytes), BufLen - 1 - Len(b.data)) = Len(bytes)
  BY <1>1, <1>2, BufLenAssumption DEF Least
<1>4. SubSeq(bytes, 1, Len(bytes)) = bytes
  BY <1>2
<1> QED
  BY <1>1, <1>3, <1>4 DEF Put

(* A reader of a buffer in place gets what is in it.                       *)
LEMMA StraightInPlace ==
    ASSUME NEW b, InPlace(b), NEW n \in 0 .. Len(b.data)
    PROVE  /\ Straight(b, n) \in Seq(Bytes) /\ Len(Straight(b, n)) = n
           /\ Straight(b, n) = SubSeq(b.data, 1, n)
<1>1. /\ Len(b.data) \in Nat /\ b.at = 0 /\ Len(b.data) <= BufLen - 1
      /\ b.data \in [1 .. Len(b.data) -> Bytes]
  BY LenProperties DEF InPlace
<1>2. Straight(b, n) = [i \in 1 .. n |-> b.data[i]]
  BY <1>1, BufLenAssumption DEF Straight
<1>3. SubSeq(b.data, 1, n) = [i \in 1 .. n |-> b.data[i]]
  BY <1>1 DEF InPlace
<1>4. n \in Nat /\ \A i \in 1 .. n : b.data[i] \in Bytes
  BY <1>1
<1> QED
  BY <1>2, <1>3, <1>4

(* What is left after a reader moves to the start of the memory.           *)
LEMMA CompactInPlace ==
    ASSUME NEW b, InPlace(b), NEW n \in 1 .. Len(b.data)
    PROVE  /\ InPlace(Compact(AdjustStart(b, n)))
           /\ Len(Compact(AdjustStart(b, n)).data) = Len(b.data) - n
           /\ Compact(AdjustStart(b, n)).data = SubSeq(b.data, n + 1, Len(b.data))
<1> DEFINE rest == SubSeq(b.data, n + 1, Len(b.data))
<1>1. /\ Len(b.data) \in Nat /\ b.at = 0 /\ Len(b.data) <= BufLen - 1
      /\ b.data \in [1 .. Len(b.data) -> Bytes]
  BY LenProperties DEF InPlace
<1>2. \A i \in n + 1 .. Len(b.data) : b.data[i] \in Bytes
  BY <1>1
<1>3. rest \in Seq(Bytes) /\ Len(rest) = Len(b.data) - n
  <2>1. n + 1 \in Int /\ Len(b.data) \in Int
    BY <1>1
  <2>2. /\ rest \in Seq(Bytes)
        /\ Len(rest) = IF n + 1 <= Len(b.data) THEN Len(b.data) - (n + 1) + 1 ELSE 0
    BY <1>2, <2>1, SubSeqProperties
  <2> QED
    BY <2>2, <1>1
<1> HIDE DEF rest
<1>4. AdjustStart(b, n) = [at |-> n, data |-> rest]
  <2>1. 0 + n = n /\ ~(n >= BufLen)
    BY <1>1, BufLenAssumption
  <2>2. Wrap(b.at + n) = n
    BY <1>1, <2>1 DEF Wrap
  <2> QED
    BY <2>2 DEF AdjustStart, rest
<1>5. End(AdjustStart(b, n)) = Len(b.data)
  BY <1>1, <1>3, <1>4, BufLenAssumption DEF End, Wrap
<1>6. CASE n < Len(b.data)
  <2>1. Compact(AdjustStart(b, n)) = [at |-> 0, data |-> rest]
    BY <1>4, <1>5, <1>6 DEF Compact
  <2> QED
    BY <1>1, <1>3, <2>1, BufLenAssumption DEF InPlace, rest
<1>7. CASE n = Len(b.data)
  <2>1. Compact(AdjustStart(b, n)) = EmptyBuf
    BY <1>4, <1>5, <1>7 DEF Compact
  <2>2. rest = EmptyBuf.data
    BY <1>1, <1>3, <1>7, EmptySeq DEF EmptyBuf
  <2>3. Compact(AdjustStart(b, n)).data = SubSeq(b.data, n + 1, Len(b.data))
    BY <2>1, <2>2 DEF rest
  <2> QED
    BY <1>1, <1>7, <2>1, <2>3, EmptyInPlace
<1> QED
  BY <1>1, <1>6, <1>7

-----------------------------------------------------------------------------
(* The inductive invariant.                                                *)

Flushing == pc \in {"chunk", "send"}

Shape == TypeOK /\ InPlace(output) /\ InPlace(chunkbuf)

ChunkUnderWay ==
    /\ ChunkFits
    /\ txState # "start" => chunking
    /\ pc = "chunk" => chunking
    /\ pc = "begin" => Len(output.data) = 0 /\ txState = "start"

(* What is done already at each place of the thread.                       *)
Finalizing ==
    /\ pc \in {"begin", "write", "put"} => ~finalized
    /\ pc = "done" => (finalized => writable /\ kind = "file")
    /\ pc = "file" => kind = "file" /\ (finalized => writable)
    /\ pc \in {"event", "pump", "idle"} => finalized \/ kind = "file"

Calling ==
    Flushing =>
        /\ caller # "none"
        /\ caller \in {"write", "background"} => ~finalized
        /\ caller = "background" => kind = "file"
        /\ caller = "done" => finalized
        /\ caller = "event" => writable /\ (finalized \/ kind = "file")

Waiting ==
    /\ pc = "event" =>
           writable /\ (kind = "file" \/ state = "complete" \/ Len(output.data) > 0)
    /\ pc = "pump" =>
           state = "complete" \/ (writable /\ (kind = "file" \/ Len(output.data) > 0))
    /\ WaitsForSocket

IInv == Shape /\ ChunkUnderWay /\ Finalizing /\ Calling /\ Waiting

-----------------------------------------------------------------------------
(* The pieces the server puts.                                             *)
LEMMA ByteType ==
    ASSUME NEW k \in {"head", "size", "body", "end"}, NEW v \in Int, NEW of \in Int
    PROVE  Byte(k, v, of) \in Bytes
  BY DEF Byte, Bytes

LEMMA PrefixPut ==
    ASSUME NEW len \in 1 .. BufLen
    PROVE  /\ PrefixBytes(len, 0) \in Seq(Bytes)
           /\ Len(PrefixBytes(len, 0)) = PrefixLen[len]
           /\ PrefixLen[len] \in 1 .. Reserve
<1>1. PrefixLen[len] \in 1 .. Reserve /\ len \in Int
  BY HttpOutputAssumption, BufLenAssumption
<1>2. PrefixLen[len] - 0 = PrefixLen[len] /\ PrefixLen[len] \in Nat
  BY <1>1, HttpOutputAssumption
<1>3. \A i \in 1 .. PrefixLen[len] : Byte("size", 0 + i, len) \in Bytes
  BY <1>1, <1>2, ByteType
<1>4. PrefixBytes(len, 0) = [i \in 1 .. PrefixLen[len] |-> Byte("size", 0 + i, len)]
  BY <1>2 DEF PrefixBytes
<1> QED
  BY <1>1, <1>2, <1>3, <1>4

LEMMA TrailerPut == TrailerBytes \in Seq(Bytes) /\ Len(TrailerBytes) = Trailer
<1>1. Trailer \in Nat
  BY HttpOutputAssumption
<1>2. \A i \in 1 .. Trailer : Byte("end", i, 0) \in Bytes
  BY <1>1, ByteType
<1> QED
  BY <1>1, <1>2 DEF TrailerBytes

LEMMA HeaderPut == HeaderBytes \in Seq(Bytes) /\ Len(HeaderBytes) = Header
<1>1. Header \in Nat
  BY HttpOutputAssumption, BufLenAssumption
<1>2. \A i \in 1 .. Header : Byte("head", i, 0) \in Bytes
  BY <1>1, ByteType
<1> QED
  BY <1>1, <1>2 DEF HeaderBytes

LEMMA BodyPut ==
    ASSUME TypeOK, NEW n \in Nat
    PROVE  BodyBytes(n) \in Seq(Bytes) /\ Len(BodyBytes(n)) = n
<1>1. size \in Int /\ left \in Int
  BY HttpOutputAssumption DEF TypeOK
<1>2. \A i \in 1 .. n : Byte("body", size - left + i, 0) \in Bytes
  BY <1>1, ByteType
<1> QED
  BY <1>2 DEF BodyBytes

-----------------------------------------------------------------------------
LEMMA InitIInv == Init => IInv
<1> SUFFICES ASSUME Init PROVE IInv
  OBVIOUS
<1>1. Shape
  <2>1. size \in Nat /\ left = size
    BY HttpOutputAssumption DEF Init
  <2>2. 0 \in 0 .. BufLen - 1 /\ 0 \in 0 .. Reserve /\ left \in 0 .. size
    BY <2>1, HttpOutputAssumption, BufLenAssumption
  <2> QED
    BY <2>1, <2>2, EmptyInPlace DEF Init, Shape, TypeOK
<1>2. ChunkUnderWay
  BY EmptyInPlace DEF Init, ChunkUnderWay, ChunkFits
<1>3. Finalizing /\ Calling /\ Waiting
  BY DEF Init, Finalizing, Calling, Flushing, Waiting, WaitsForSocket
<1> QED
  BY <1>1, <1>2, <1>3 DEF IInv

-----------------------------------------------------------------------------
(* The steps that leave the buffers and the chunk under way alone.         *)
LEMMA BuffersKept ==
    ASSUME Shape, ChunkUnderWay, UNCHANGED <<buffers, chunk, chunking>>
    PROVE  /\ InPlace(output)' /\ InPlace(chunkbuf)'
           /\ pc' # "begin" /\ (pc' = "chunk" => chunking) => ChunkUnderWay'
  BY DEF Shape, InPlace, ChunkUnderWay, ChunkFits, RoomForChunk, buffers, chunk

LEMMA ControlSteps ==
    ASSUME IInv,
           \/ SocketFull
           \/ FlushEnd
           \/ WriteEnd
           \/ websDone
           \/ FileEnd
           \/ Pump
           \/ WritableEvent
           \/ EventEnd
           \/ Timeout
           \/ FileWrite
           \/ FileFails
    PROVE  IInv'
<1> USE DEF IInv, answer, buffers, chunk, request, socket
<1>1. CASE SocketFull
  <2>1. UNCHANGED <<buffers, chunk, chunking>>
    BY <1>1 DEF SocketFull
  <2>2. TypeOK'
    BY <1>1 DEF SocketFull, Return, Handled, Shape, TypeOK
  <2>3. ChunkUnderWay'
    BY <1>1, <2>1, BuffersKept DEF SocketFull, Return, Handled, ChunkUnderWay
  <2>4. pc' \in {"put", "pump", "event"} /\ Len(output.data)' > 0
    BY <1>1 DEF SocketFull, Return
  <2>5. pc' \in {"pump", "event"} => writable' \/ state' = "complete"
    <3>1. state \in {"running", "complete"} /\ state' = state
      BY <1>1 DEF SocketFull, Shape, TypeOK
    <3>2. caller = "event" => writable
      BY <1>1 DEF SocketFull, Calling, Flushing
    <3>3. Return(FALSE)
      BY <1>1 DEF SocketFull
    <3>4. \/ pc' = "put"
          \/ caller = "event" /\ writable' = writable
          \/ writable' = (writable \/ TRUE)
          \/ writable' = (writable \/ state' = "running")
      BY <3>3 DEF Return, Handled
    <3> QED
      BY <3>1, <3>2, <3>4
  <2>6. (pc' = "event" => writable') /\ (pc' = "put" => ~finalized')
        /\ (pc' \in {"pump", "event"} => finalized' \/ kind' = "file")
    BY <1>1 DEF SocketFull, Return, Calling, Flushing
  <2>7. Finalizing' /\ Calling' /\ Waiting'
    BY <2>4, <2>5, <2>6 DEF Finalizing, Calling, Flushing, Waiting, WaitsForSocket
  <2> QED
    BY <2>1, <2>2, <2>3, <2>7, BuffersKept DEF Shape
<1>2. CASE FlushEnd
  <2>1. UNCHANGED <<buffers, chunk, chunking>>
    BY <1>2 DEF FlushEnd
  <2>2. TypeOK'
    BY <1>2 DEF FlushEnd, Return, Handled, WholeAnswer, Shape, TypeOK
  <2>3. ChunkUnderWay'
    BY <1>2, <2>1, BuffersKept DEF FlushEnd, Return, Handled, WholeAnswer, ChunkUnderWay
  <2>4. Finalizing' /\ Calling' /\ Waiting'
    BY <1>2 DEF FlushEnd, Return, Handled, WholeAnswer, Shape, TypeOK, Finalizing, Calling,
       Flushing, Waiting, WaitsForSocket, ChunkUnderWay
  <2> QED
    BY <2>1, <2>2, <2>3, <2>4, BuffersKept DEF Shape
<1>3. CASE WriteEnd
  <2>1. UNCHANGED <<buffers, chunk, chunking>>
    BY <1>3 DEF WriteEnd
  <2>2. TypeOK'
    BY <1>3 DEF WriteEnd, Shape, TypeOK
  <2>3. ChunkUnderWay'
    BY <1>3, <2>1, BuffersKept DEF WriteEnd, ChunkUnderWay
  <2>4. Finalizing' /\ Calling' /\ Waiting'
    BY <1>3 DEF WriteEnd, Shape, TypeOK, Finalizing, Calling, Flushing, Waiting,
       WaitsForSocket, ChunkUnderWay
  <2> QED
    BY <2>1, <2>2, <2>3, <2>4, BuffersKept DEF Shape
<1>4. CASE websDone
  <2>1. UNCHANGED <<buffers, chunk, chunking>>
    BY <1>4 DEF websDone
  <2>2. TypeOK'
    BY <1>4 DEF websDone, Flush, Shape, TypeOK
  <2>3. ChunkUnderWay'
    BY <1>4, <2>1, BuffersKept DEF websDone, Flush, ChunkUnderWay
  <2>4. Finalizing' /\ Calling' /\ Waiting'
    BY <1>4 DEF websDone, Flush, Shape, TypeOK, Finalizing, Calling, Flushing, Waiting,
       WaitsForSocket, ChunkUnderWay
  <2> QED
    BY <2>1, <2>2, <2>3, <2>4, BuffersKept DEF Shape
<1>5. CASE FileEnd
  <2>1. UNCHANGED <<buffers, chunk, chunking>>
    BY <1>5 DEF FileEnd
  <2>2. TypeOK'
    BY <1>5 DEF FileEnd, Shape, TypeOK
  <2>3. ChunkUnderWay'
    BY <1>5, <2>1, BuffersKept DEF FileEnd, ChunkUnderWay
  <2>4. Finalizing' /\ Calling' /\ Waiting'
    BY <1>5 DEF FileEnd, Shape, TypeOK, Finalizing, Calling, Flushing, Waiting,
       WaitsForSocket, ChunkUnderWay
  <2> QED
    BY <2>1, <2>2, <2>3, <2>4, BuffersKept DEF Shape
<1>6. CASE Pump
  <2>1. UNCHANGED <<buffers, chunk, chunking>>
    BY <1>6 DEF Pump
  <2>2. TypeOK'
    BY <1>6 DEF Pump, Shape, TypeOK
  <2>3. ChunkUnderWay'
    BY <1>6, <2>1, BuffersKept DEF Pump, ChunkUnderWay
  <2>4. Finalizing' /\ Calling' /\ Waiting'
    BY <1>6 DEF Pump, Shape, TypeOK, Finalizing, Calling, Flushing, Waiting, WaitsForSocket,
       ChunkUnderWay
  <2> QED
    BY <2>1, <2>2, <2>3, <2>4, BuffersKept DEF Shape
<1>7. CASE WritableEvent
  <2>1. UNCHANGED <<buffers, chunk, chunking>>
    BY <1>7 DEF WritableEvent
  <2>2. TypeOK'
    BY <1>7 DEF WritableEvent, Flush, Shape, TypeOK
  <2>3. ChunkUnderWay'
    BY <1>7, <2>1, BuffersKept DEF WritableEvent, Flush, ChunkUnderWay
  <2>4. Finalizing' /\ Calling' /\ Waiting'
    BY <1>7 DEF WritableEvent, Flush, Shape, TypeOK, Finalizing, Calling, Flushing, Waiting,
       WaitsForSocket, ChunkUnderWay
  <2> QED
    BY <2>1, <2>2, <2>3, <2>4, BuffersKept DEF Shape
<1>8. CASE EventEnd
  <2>1. UNCHANGED <<buffers, chunk, chunking>>
    BY <1>8 DEF EventEnd
  <2>2. TypeOK'
    BY <1>8 DEF EventEnd, Shape, TypeOK
  <2>3. ChunkUnderWay'
    BY <1>8, <2>1, BuffersKept DEF EventEnd, ChunkUnderWay
  <2>4. Finalizing' /\ Calling' /\ Waiting'
    BY <1>8 DEF EventEnd, Shape, TypeOK, Finalizing, Calling, Flushing, Waiting,
       WaitsForSocket, ChunkUnderWay
  <2> QED
    BY <2>1, <2>2, <2>3, <2>4, BuffersKept DEF Shape
<1>9. CASE Timeout
  <2>1. UNCHANGED <<buffers, chunk, chunking>>
    BY <1>9 DEF Timeout
  <2>2. TypeOK'
    BY <1>9 DEF Timeout, Shape, TypeOK
  <2>3. ChunkUnderWay'
    BY <1>9, <2>1, BuffersKept DEF Timeout, ChunkUnderWay
  <2>4. Finalizing' /\ Calling' /\ Waiting'
    BY <1>9 DEF Timeout, Shape, TypeOK, Finalizing, Calling, Flushing, Waiting,
       WaitsForSocket, ChunkUnderWay
  <2> QED
    BY <2>1, <2>2, <2>3, <2>4, BuffersKept DEF Shape
<1>10. CASE FileWrite
  <2>1. UNCHANGED <<buffers, chunk, chunking>>
    BY <1>10 DEF FileWrite
  <2>2. left' \in 0 .. size /\ pc' \in {"file", "pump"}
    <3>1. left \in 0 .. size /\ size \in Nat /\ left > 0
      BY <1>10, HttpOutputAssumption DEF FileWrite, Shape, TypeOK
    <3>2. PICK wrote \in 0 .. Least(left, FileBuf) : left' = left - wrote
      BY <1>10 DEF FileWrite, SeekBack
    <3> QED
      BY <1>10, <3>1, <3>2, HttpOutputAssumption DEF FileWrite, Least
  <2>5. writable' \in BOOLEAN /\ (pc' = "pump" => writable' \/ state = "complete")
        /\ (writable => writable')
    <3>1. writable \in BOOLEAN /\ state \in {"running", "complete"}
      BY DEF Shape, TypeOK
    <3>2. \/ pc' = pc /\ writable' = writable
          \/ pc' = "pump" /\ writable' = (writable \/ state = "running")
      BY <1>10 DEF FileWrite, Handled
    <3>3. pc = "file"
      BY <1>10 DEF FileWrite
    <3> QED
      BY <3>1, <3>2, <3>3
  <2>6. TypeOK'
    BY <1>10, <2>2, <2>5 DEF FileWrite, Shape, TypeOK
  <2>3. ChunkUnderWay'
    BY <1>10, <2>1, BuffersKept DEF FileWrite, Handled, SeekBack, ChunkUnderWay
  <2>4. Finalizing' /\ Calling' /\ Waiting'
    <3>1. pc = "file" /\ UNCHANGED <<kind, finalized, state>>
      BY <1>10 DEF FileWrite
    <3> QED
      BY <2>2, <2>5, <3>1 DEF Finalizing, Calling, Flushing, Waiting, WaitsForSocket
  <2> QED
    BY <2>1, <2>3, <2>4, <2>6, BuffersKept DEF Shape
<1>11. CASE FileFails
  <2>1. UNCHANGED <<buffers, chunk, chunking>>
    BY <1>11 DEF FileFails
  <2>2. TypeOK'
    <3>1. left \in 0 .. size /\ size \in Nat
      BY HttpOutputAssumption DEF Shape, TypeOK
    <3>2. left' \in 0 .. size
      BY <1>11, <3>1, HttpOutputAssumption DEF FileFails, Least
    <3> QED
      BY <1>11, <3>2 DEF FileFails, Handled, Shape, TypeOK
  <2>3. ChunkUnderWay'
    BY <1>11, <2>1, BuffersKept DEF FileFails, Handled, ChunkUnderWay
  <2>4. Finalizing' /\ Calling' /\ Waiting'
    BY <1>11 DEF FileFails, Handled, Shape, TypeOK, Finalizing, Calling, Flushing, Waiting,
       WaitsForSocket, ChunkUnderWay
  <2> QED
    BY <2>1, <2>2, <2>3, <2>4, BuffersKept DEF Shape
<1> QED
  BY <1>1, <1>2, <1>3, <1>4, <1>5, <1>6, <1>7, <1>8, <1>9, <1>10, <1>11

-----------------------------------------------------------------------------
(* The steps that put bytes into the buffers, or take them out.            *)

(* Putting a part of the body disturbs neither buffer nor chunk.           *)
LEMMA BodyKeeps ==
    ASSUME Shape, ChunkUnderWay, PutBody, UNCHANGED <<chunk, chunking>>,
           pc' \notin {"begin", "chunk"}
    PROVE  /\ InPlace(output)' /\ InPlace(chunkbuf)' /\ ChunkUnderWay'
           /\ left' \in 0 .. size
<1> DEFINE n == Least(Room(Op), left)
<1>1. InPlace(output) /\ InPlace(chunkbuf) /\ InPlace(Op)
  BY DEF Shape, Op
<1>2. left \in 0 .. size /\ size \in Nat
  BY HttpOutputAssumption DEF Shape, TypeOK
<1>3. Room(Op) \in Nat
  BY <1>1, RoomInPlace
<1>4. n \in Nat /\ n <= left
  BY <1>2, <1>3 DEF Least
<1> HIDE DEF n
<1>5. BodyBytes(n) \in Seq(Bytes) /\ Len(BodyBytes(n)) = n
  BY <1>4, BodyPut DEF Shape
<1>6. left' \in 0 .. size
  BY <1>2, <1>4 DEF PutBody, n
<1>7. CASE chunking
  <2>1. chunkbuf' = Put(chunkbuf, BodyBytes(n)) /\ output' = output
    BY <1>7 DEF PutBody, n
  <2>2. InPlace(chunkbuf') /\ Len(chunkbuf'.data) >= Len(chunkbuf.data)
        /\ Len(chunkbuf.data) \in Nat /\ Len(chunkbuf'.data) \in Nat
    <3>1. Least(n, Room(chunkbuf)) \in Nat
      BY <1>1, <1>4, RoomInPlace DEF Least
    <3>2. InPlace(chunkbuf')
          /\ Len(chunkbuf'.data) = Len(chunkbuf.data) + Least(n, Room(chunkbuf))
      BY <1>1, <1>5, <2>1, PutInPlace
    <3> QED
      BY <1>1, <3>1, <3>2, RoomInPlace
  <2>3. ChunkUnderWay'
    BY <2>1, <2>2 DEF ChunkUnderWay, ChunkFits, RoomForChunk, chunk
  <2> QED
    BY <1>1, <1>6, <2>1, <2>2, <2>3 DEF InPlace
<1>8. CASE ~chunking
  <2>1. output' = Put(output, BodyBytes(n)) /\ chunkbuf' = chunkbuf
    BY <1>8 DEF PutBody, n
  <2>2. InPlace(output')
    BY <1>1, <1>5, <2>1, PutInPlace
  <2>3. ChunkUnderWay'
    BY <1>8, <2>1 DEF ChunkUnderWay, ChunkFits, chunk
  <2> QED
    BY <1>1, <1>6, <2>1, <2>2, <2>3 DEF InPlace
<1> QED
  BY <1>7, <1>8

LEMMA HandlerSteps ==
    ASSUME IInv, WriteHeaders \/ WriteBlock \/ PutBlock
    PROVE  IInv'
<1> USE DEF IInv, answer, buffers, chunk, request, socket
<1>1. CASE WriteHeaders
  <2>1. output' = Put(output, HeaderBytes) /\ pc = "begin" /\ UNCHANGED <<chunkbuf, chunk>>
    BY <1>1 DEF WriteHeaders
  <2>2. InPlace(output) /\ InPlace(chunkbuf) /\ Len(output.data) = 0
    BY <2>1 DEF Shape, ChunkUnderWay
  <2>3. InPlace(output') /\ Len(output'.data) = 0 + Least(Header, BufLen - 1 - 0)
    BY <2>1, <2>2, PutInPlace, HeaderPut, RoomInPlace
  <2>4. Len(output'.data) = Header
    BY <2>3, HttpOutputAssumption, BufLenAssumption DEF Least
  <2>5. Room(output') = BufLen - 1 - Header
    BY <2>3, <2>4, RoomInPlace
  <2>6. Room(output') >= Reserve
    BY <2>5, HttpOutputAssumption, BufLenAssumption
  <2>7. ChunkUnderWay'
    BY <1>1, <2>1, <2>6 DEF WriteHeaders, ChunkUnderWay, ChunkFits
  <2>8. TypeOK'
    BY <1>1 DEF WriteHeaders, Shape, TypeOK
  <2>9. Finalizing' /\ Calling' /\ Waiting'
    BY <1>1 DEF WriteHeaders, Shape, TypeOK, Finalizing, Calling, Flushing, Waiting,
       WaitsForSocket
  <2> QED
    BY <2>1, <2>2, <2>3, <2>7, <2>8, <2>9 DEF Shape, InPlace
<1>2. CASE WriteBlock
  <2>1. pc' \in {"write", "chunk", "send"} /\ (pc' = "chunk" => chunking)
        /\ (pc' # "write" => caller' = "write") /\ ~finalized
        /\ UNCHANGED <<answer, chunk, request, socket>>
    BY <1>2 DEF WriteBlock, Flush, Finalizing
  <2>2. Finalizing' /\ Calling' /\ Waiting'
    BY <2>1 DEF Finalizing, Calling, Flushing, Waiting, WaitsForSocket
  <2>3. CASE PutBody /\ UNCHANGED <<pc, caller>>
    <3>1. pc' = "write"
      BY <1>2, <2>3 DEF WriteBlock
    <3>2. InPlace(output)' /\ InPlace(chunkbuf)' /\ ChunkUnderWay' /\ left' \in 0 .. size
      BY <2>1, <2>3, <3>1, BodyKeeps
    <3>3. TypeOK'
      BY <2>1, <2>3, <3>1, <3>2 DEF Shape, TypeOK
    <3> QED
      BY <2>2, <3>2, <3>3 DEF Shape
  <2>4. CASE Flush("write") /\ UNCHANGED <<left, buffers>>
    <3>1. TypeOK'
      BY <2>1, <2>4 DEF Flush, Shape, TypeOK
    <3> QED
      BY <2>1, <2>2, <2>4, <3>1, BuffersKept DEF Shape
  <2> QED
    BY <1>2, <2>3, <2>4 DEF WriteBlock
<1>3. CASE PutBlock
  <2>1. pc' \in {"write", "done"} /\ ~finalized
        /\ UNCHANGED <<caller, answer, chunk, request, socket>>
    BY <1>3 DEF PutBlock, Finalizing
  <2>2. Finalizing' /\ Calling' /\ Waiting'
    BY <2>1 DEF Finalizing, Calling, Flushing, Waiting, WaitsForSocket
  <2>3. CASE PutBody
    <3>1. InPlace(output)' /\ InPlace(chunkbuf)' /\ ChunkUnderWay' /\ left' \in 0 .. size
      BY <2>1, <2>3, BodyKeeps
    <3>2. TypeOK'
      BY <2>1, <3>1 DEF Shape, TypeOK
    <3> QED
      BY <2>2, <3>1, <3>2 DEF Shape
  <2>4. CASE UNCHANGED <<left, buffers>>
    <3>1. TypeOK'
      BY <2>1, <2>4 DEF Shape, TypeOK
    <3> QED
      BY <2>1, <2>2, <2>4, <3>1, BuffersKept DEF Shape
  <2> QED
    BY <1>3, <2>3, <2>4 DEF PutBlock
<1> QED
  BY <1>1, <1>2, <1>3

(* flushChunkData puts a prefix or a chunk only where it fits.             *)
LEMMA ChunkSteps ==
    ASSUME IInv, ChunkStart \/ ChunkHeader \/ ChunkData \/ ChunkEnd
    PROVE  IInv'
<1> USE DEF IInv, answer, buffers, chunk, request, socket
<1> DEFINE len == Len(chunkbuf.data)
           room == BufLen - 1 - Len(output.data)
<1>1. /\ InPlace(output) /\ InPlace(chunkbuf) /\ len \in Nat /\ Len(output.data) \in Nat
      /\ RoomForChunk = room - Reserve /\ room \in Nat /\ Room(output) = room
      /\ Reserve \in Nat /\ CHUNK_LOW \in Nat /\ Reserve <= CHUNK_LOW
      /\ BufLen \in Nat /\ len <= BufLen - 1
  BY RoomInPlace, HttpOutputAssumption, BufLenAssumption DEF Shape, RoomForChunk, InPlace
<1> HIDE DEF len, room
<1>2. ASSUME pc = "chunk", pc' \in {"chunk", "send"},
             UNCHANGED <<caller, answer, finalized, state, socket>>
      PROVE  Finalizing' /\ Calling' /\ Waiting'
  BY <1>2 DEF Finalizing, Calling, Flushing, Waiting, WaitsForSocket
<1>3. CASE ChunkStart
  <2>1. /\ txChunkLen' = Least(len, room - Reserve - Reserve)
        /\ len > 0 /\ room - Reserve > CHUNK_LOW /\ pc = "chunk" /\ pc' = pc
        /\ txPrefixNext' = 0 /\ txState' = "header" /\ chunking' = chunking
        /\ UNCHANGED <<caller, answer, left, buffers, finalized, state, socket>>
    BY <1>1, <1>3 DEF ChunkStart, MoreChunks, len
  <2>2. txChunkLen' \in 1 .. len /\ txChunkLen' + Reserve <= room - Reserve
        /\ txChunkLen' <= room - Reserve /\ txChunkLen' \in 0 .. BufLen - 1
    BY <1>1, <2>1 DEF Least
  <2>3. ChunkUnderWay'
    BY <1>1, <2>1, <2>2 DEF ChunkUnderWay, ChunkFits, RoomForChunk, len
  <2>4. TypeOK'
    BY <1>1, <2>1, <2>2 DEF Shape, TypeOK
  <2> QED
    BY <1>1, <1>2, <2>1, <2>3, <2>4 DEF Shape, InPlace
<1>4. CASE ChunkHeader
  <2> DEFINE prefix == PrefixBytes(txChunkLen, 0)
             put == Put(output, prefix)
  <2>1. pc = "chunk" /\ txState = "header" /\ chunking
        /\ UNCHANGED <<caller, answer, left, chunkbuf, txChunkLen, request, socket>>
    BY <1>4 DEF ChunkHeader, MoreChunks, ChunkUnderWay
  <2>2. txPrefixNext = 0 /\ txChunkLen \in 1 .. len /\ txChunkLen + Reserve <= room - Reserve
    BY <1>1, <2>1 DEF ChunkUnderWay, ChunkFits, len
  <2>3. prefix \in Seq(Bytes) /\ Len(prefix) \in 1 .. Reserve
    BY <1>1, <2>2, PrefixPut
  <2>4. InPlace(put) /\ Len(put.data) = Len(output.data) + Least(Len(prefix), room)
    BY <1>1, <2>3, PutInPlace
  <2>5. Least(Len(prefix), room) = Len(prefix)
    BY <1>1, <2>2, <2>3 DEF Least
  <2>6. Len(put.data) - Len(output.data) = Len(prefix)
    BY <1>1, <2>3, <2>4, <2>5
  <2>7. output' = put /\ txPrefixNext' = Len(prefix) /\ txState' = "data" /\ pc' = pc
    BY <1>4, <2>2, <2>3, <2>6 DEF ChunkHeader
  <2>8. Room(output') = room - Len(prefix)
    <3>1. Room(output') = BufLen - 1 - Len(output'.data)
      BY <2>4, <2>7, RoomInPlace
    <3>2. Len(output'.data) = Len(output.data) + Len(prefix)
      BY <2>4, <2>5, <2>7
    <3> HIDE DEF prefix, put
    <3> QED
      BY <1>1, <2>3, <3>1, <3>2 DEF room
  <2>9. txChunkLen <= Room(output') - Reserve /\ Room(output') >= Reserve
    BY <1>1, <2>2, <2>3, <2>8
  <2>10. ChunkUnderWay'
    BY <2>1, <2>2, <2>7, <2>9 DEF ChunkUnderWay, ChunkFits, RoomForChunk, len
  <2>11. TypeOK'
    BY <1>1, <2>1, <2>3, <2>7 DEF Shape, TypeOK
  <2> QED
    BY <1>1, <1>2, <2>1, <2>4, <2>7, <2>10, <2>11 DEF Shape, InPlace
<1>5. CASE ChunkData
  <2> DEFINE bytes == Straight(chunkbuf, txChunkLen)
  <2>1. pc = "chunk" /\ txState = "data" /\ chunking /\ pc' = pc
        /\ UNCHANGED <<caller, answer, left, txPrefixNext, request, socket>>
    BY <1>5 DEF ChunkData, MoreChunks, ChunkUnderWay
  <2>2. txChunkLen \in 1 .. len /\ txChunkLen <= room - Reserve
    BY <1>1, <2>1 DEF ChunkUnderWay, ChunkFits, len
  <2>3. Least(RoomForChunk, txChunkLen) = txChunkLen
    BY <1>1, <2>2 DEF Least
  <2>4. /\ output' = Put(output, bytes)
        /\ txChunkLen' = 0 /\ txState' = "start"
        /\ chunkbuf' = Compact(AdjustStart(chunkbuf, txChunkLen))
    BY <1>1, <1>5, <2>2, <2>3 DEF ChunkData
  <2>5. bytes \in Seq(Bytes) /\ Len(bytes) = txChunkLen
    BY <1>1, <2>2, StraightInPlace DEF len
  <2>6. InPlace(output') /\ Len(output'.data) = Len(output.data) + txChunkLen
    <3>1. Least(Len(bytes), Room(output)) = txChunkLen
      BY <1>1, <2>2, <2>5 DEF Least
    <3> QED
      BY <1>1, <2>4, <2>5, <3>1, PutInPlace
  <2>7. Room(output') >= Reserve
    <3>1. Room(output') = room - txChunkLen
      <4>1. Room(output') = BufLen - 1 - Len(output'.data)
        BY <2>6, RoomInPlace
      <4> QED
        BY <1>1, <2>2, <2>6, <4>1 DEF room
    <3> QED
      BY <1>1, <2>2, <3>1
  <2>8. InPlace(chunkbuf')
    BY <1>1, <2>2, <2>4, CompactInPlace DEF len
  <2>9. ChunkUnderWay'
    BY <2>1, <2>4, <2>7 DEF ChunkUnderWay, ChunkFits
  <2>10. TypeOK'
    BY <1>1, <2>1, <2>4, BufLenAssumption DEF Shape, TypeOK
  <2> QED
    BY <1>2, <2>1, <2>6, <2>8, <2>9, <2>10 DEF Shape, InPlace
<1>6. CASE ChunkEnd
  <2>1. pc = "chunk" /\ pc' = "send" /\ chunking
        /\ UNCHANGED <<caller, answer, left, chunkbuf, chunk, finalized, state, socket>>
    BY <1>6 DEF ChunkEnd, ChunkUnderWay
  <2>2. CASE UNCHANGED <<output, chunking>>
    <3>1. TypeOK'
      BY <2>1, <2>2 DEF Shape, TypeOK
    <3> QED
      BY <1>2, <2>1, <2>2, <3>1, BuffersKept DEF Shape
  <2>3. CASE AllChunked /\ output' = Put(output, TrailerBytes) /\ chunking' = FALSE
    <3>1. InPlace(output')
      BY <1>1, <2>3, PutInPlace, TrailerPut
    <3>2. txState = "start"
      BY <2>3 DEF AllChunked, ChunkUnderWay, ChunkFits
    <3>3. ChunkUnderWay'
      BY <2>1, <2>3, <3>2 DEF ChunkUnderWay, ChunkFits
    <3>4. TypeOK'
      BY <2>1, <2>3 DEF Shape, TypeOK
    <3> QED
      BY <1>1, <1>2, <2>1, <3>1, <3>3, <3>4 DEF Shape, InPlace
  <2> QED
    BY <1>6, <2>2, <2>3 DEF ChunkEnd
<1> QED
  BY <1>3, <1>4, <1>5, <1>6

(* Sending makes room.                                                     *)
LEMMA SendSteps ==
    ASSUME IInv, (\E n \in 1 .. BufLen : Send(n)) \/ SendFails
    PROVE  IInv'
<1> USE DEF IInv, answer, buffers, chunk, request, socket
<1>1. /\ InPlace(output) /\ InPlace(chunkbuf) /\ Len(output.data) \in Nat
      /\ Room(output) = BufLen - 1 - Len(output.data) /\ Reserve \in Nat
  BY RoomInPlace, HttpOutputAssumption DEF Shape
<1>2. ASSUME InPlace(output'), Len(output'.data) <= Len(output.data), pc = "send",
             pc' \notin {"begin", "chunk"}, UNCHANGED <<chunkbuf, chunk, chunking>>
      PROVE  ChunkUnderWay' /\ InPlace(chunkbuf)'
  <2>1. Room(output') >= Room(output) /\ Room(output') \in Nat /\ Room(output) \in Nat
    <3>1. Len(output'.data) \in Nat /\ Room(output') = BufLen - 1 - Len(output'.data)
          /\ Room(output') \in Nat /\ Room(output) \in Nat
      BY <1>1, <1>2, RoomInPlace
    <3> QED
      BY <1>1, <1>2, <3>1, BufLenAssumption
  <2>2. txState # "start" => txChunkLen \in Nat
    BY DEF Shape, TypeOK
  <2> QED
    BY <1>1, <1>2, <2>1, <2>2 DEF ChunkUnderWay, ChunkFits, RoomForChunk, InPlace
<1>3. ASSUME NEW n \in 1 .. BufLen, Send(n)
      PROVE  IInv'
  <2>1. /\ n \in 1 .. Len(output.data) /\ output' = Compact(AdjustStart(output, n))
        /\ pc = "send" /\ pc' = pc
        /\ UNCHANGED <<caller, answer, left, chunkbuf, chunk, request, writable, failed>>
        /\ ready' = FALSE
    BY <1>3 DEF Send, Sent
  <2>2. InPlace(output') /\ Len(output'.data) <= Len(output.data)
    BY <1>1, <2>1, CompactInPlace
  <2>3. TypeOK'
    BY <2>1 DEF Shape, TypeOK
  <2>4. Finalizing' /\ Calling' /\ Waiting'
    BY <2>1 DEF Finalizing, Calling, Flushing, Waiting, WaitsForSocket
  <2> QED
    BY <1>2, <2>1, <2>2, <2>3, <2>4 DEF Shape
<1>4. CASE SendFails
  <2>1. /\ output' = EmptyBuf /\ pc = "send" /\ state' = "complete" /\ Return(FALSE)
        /\ UNCHANGED <<caller, answer, left, chunkbuf, chunk, chunking, finalized, ready>>
        /\ failed' = TRUE
    BY <1>4 DEF SendFails
  <2>2. InPlace(output') /\ Len(output'.data) <= Len(output.data)
    BY <1>1, <2>1, EmptyInPlace
  <2>3. pc' \in {"put", "pump", "event"} /\ writable' \in BOOLEAN
        /\ (caller = "write" <=> pc' = "put") /\ (caller = "event" <=> pc' = "event")
        /\ (caller = "event" => writable' = writable)
    BY <2>1 DEF Return, Handled, Shape, TypeOK
  <2>4. TypeOK'
    BY <2>1, <2>3 DEF Shape, TypeOK
  <2>5. Finalizing' /\ Calling' /\ Waiting'
    BY <2>1, <2>3 DEF Shape, TypeOK, Finalizing, Calling, Flushing, Waiting, WaitsForSocket
  <2> QED
    BY <1>2, <2>1, <2>2, <2>3, <2>4, <2>5 DEF Shape
<1> QED
  BY <1>3, <1>4

-----------------------------------------------------------------------------
LEMMA StepIInv == IInv /\ [Next]_vars => IInv'
<1> SUFFICES ASSUME IInv, [Next]_vars PROVE IInv'
  OBVIOUS
<1>1. CASE UNCHANGED vars
  BY <1>1 DEF vars, IInv, Shape, TypeOK, InPlace, ChunkUnderWay, ChunkFits, RoomForChunk,
      Finalizing, Calling, Flushing, Waiting, WaitsForSocket, answer, buffers, chunk,
      request, socket
<1>2. CASE Next
  BY <1>2, ControlSteps, HandlerSteps, ChunkSteps, SendSteps DEF Next, Thread
<1> QED
  BY <1>1, <1>2

(* The inductive invariant holds in every state of the server.             *)
THEOREM OutputInvariant == Spec => []IInv
  BY InitIInv, StepIInv, PTL DEF Spec

(* The variables keep their shapes whatever the sizes.                     *)
THEOREM TypeCorrect == Spec => []TypeOK
<1>1. IInv => TypeOK
  BY DEF IInv, Shape
<1> QED
  BY <1>1, OutputInvariant, PTL

(* Both rings start at the start of their memory between two steps.        *)
THEOREM RingsStayInPlace == Spec => []RingsInPlace
<1>1. IInv => RingsInPlace
  BY DEF IInv, Shape, InPlace, RingsInPlace
<1> QED
  BY <1>1, OutputInvariant, PTL

(* A prefix, the data of a chunk and the trailer always fit.               *)
THEOREM ChunksFit == Spec => []ChunkFits
<1>1. IInv => ChunkFits
  BY DEF IInv, ChunkUnderWay
<1> QED
  BY <1>1, OutputInvariant, PTL

(* A request that waits for the socket is woken and has something to send. *)
THEOREM SocketWakes == Spec => []WaitsForSocket
<1>1. IInv => WaitsForSocket
  BY DEF IInv, Waiting
<1> QED
  BY <1>1, OutputInvariant, PTL

-----------------------------------------------------------------------------
(* Sequences of bytes a client has read.                                   *)

(* Every set of naturals has a least member, so that what holds at first   *)
(* and after each step holds throughout.                                   *)
LEMMA LeastNat ==
    ASSUME NEW T, T \subseteq Nat, T # {}
    PROVE  \E m \in T : \A n \in T : m <= n
<1>1. PICK m \in T : \A n \in T : ~ (<<n, m>> \in OpToRel(<, Nat))
  BY NatLessThanWellFounded, WFMin
<1>2. \A n \in T : <<n, m>> \in OpToRel(<, Nat) <=> n < m
  BY DEF OpToRel
<1>3. \A n \in T : ~ (n < m)
  BY <1>1, <1>2, Zenon
<1>4. m \in Nat /\ \A n \in T : n \in Nat
  OBVIOUS
<1> QED
  BY <1>3, <1>4

LEMMA Stepwise ==
    ASSUME NEW n \in Nat, NEW S, 0 \in S,
           \A i \in 1 .. n : i - 1 \in S => i \in S
    PROVE  n \in S
<1> DEFINE T == {i \in 0 .. n : i \notin S}
<1>1. SUFFICES ASSUME n \notin S PROVE FALSE
  OBVIOUS
<1>2. PICK m \in T : \A i \in T : m <= i
  <2>1. T \subseteq Nat /\ T # {}
    BY <1>1
  <2> QED
    BY <2>1, LeastNat
<1>3. m \in 1 .. n /\ m - 1 \in 0 .. n /\ ~ (m <= m - 1)
  BY <1>2
<1>4. m - 1 \in S
  BY <1>2, <1>3
<1> QED
  BY <1>2, <1>3, <1>4

(* A client as it may be while no byte was out of place: the end comes     *)
(* after the headers and never within a chunk.                             *)
At(head, pre, due, got, end) ==
    [head |-> head, pre |-> pre, due |-> due, got |-> got, end |-> end, ok |-> TRUE]

Clients ==
    {c \in [head : 0 .. Header, pre : Nat, due : Nat, got : Nat, end : 0 .. Trailer,
            ok : {TRUE}] :
        c.end > 0 => kind = "chunked" /\ c.head = Header /\ c.pre = 0 /\ c.due = 0}

(* The client c reads the bytes, and is d then.                            *)
IsRun(run, bytes) ==
    /\ run \in [0 .. Len(bytes) -> Clients]
    /\ \A i \in 1 .. Len(bytes) : run[i] = Reads(run[i - 1], bytes[i])

Leads(c, bytes, d) == \E run : IsRun(run, bytes) /\ run[0] = c /\ run[Len(bytes)] = d

LEMMA LeadsKept ==
    ASSUME kind' = kind, NEW c, NEW bytes, NEW d, Leads(c, bytes, d)
    PROVE  Leads(c, bytes, d)'
<1>1. Clients' = Clients
  BY DEF Clients
<1>2. \A x, b : Reads(x, b)' = Reads(x, b)
  BY DEF Reads
<1> QED
  BY <1>1, <1>2 DEF Leads, IsRun

(* What the client makes of the bytes it gets is where they lead it.       *)
LEMMA LeadsAfter ==
    ASSUME NEW c, NEW bytes, Len(bytes) \in Nat, NEW d, Leads(c, bytes, d)
    PROVE  After(c, bytes) = d /\ c \in Clients /\ d \in Clients
<1> DEFINE n == Len(bytes)
           Eq(f) == f = [i \in 0 .. n |-> IF i = 0 THEN c ELSE Reads(f[i - 1], bytes[i])]
           read == CHOOSE f : Eq(f)
<1>1. PICK run : IsRun(run, bytes) /\ run[0] = c /\ run[n] = d
  BY DEF Leads
<1>2. run \in [0 .. n -> Clients] /\ \A i \in 1 .. n : run[i] = Reads(run[i - 1], bytes[i])
  BY <1>1 DEF IsRun
<1>3. Eq(run)
  <2>1. \A i \in 0 .. n : i # 0 => i \in 1 .. n
    OBVIOUS
  <2>2. \A i \in 0 .. n : run[i] = IF i = 0 THEN c ELSE Reads(run[i - 1], bytes[i])
    BY <1>1, <1>2, <2>1
  <2> QED
    BY <1>2, <2>2
<1>4. After(c, bytes) = read[n]
  BY DEF After
<1>5. Eq(read)
  <2> HIDE DEF Eq
  <2> QED
    BY <1>3
<1>6. /\ read[0] = c
      /\ \A i \in 1 .. n : read[i] = Reads(read[i - 1], bytes[i])
  <2>1. \A i \in 0 .. n : read[i] = IF i = 0 THEN c ELSE Reads(read[i - 1], bytes[i])
    <3> HIDE DEF read
    <3> QED
      BY <1>5
  <2>2. 0 \in 0 .. n /\ \A i \in 1 .. n : i \in 0 .. n /\ i # 0
    OBVIOUS
  <2> HIDE DEF read
  <2> QED
    BY <2>1, <2>2
<1> HIDE DEF read, Eq, n
<1>7. n \in Nat
  BY DEF n
<1>8. n \in {i \in Nat : read[i] = run[i]}
  <2> DEFINE S == {i \in Nat : read[i] = run[i]}
  <2>1. 0 \in S
    BY <1>1, <1>6
  <2>2. \A i \in 1 .. n : i - 1 \in S => i \in S
    BY <1>2, <1>6, <1>7
  <2> HIDE DEF S
  <2>3. n \in S
    BY <1>7, <2>1, <2>2, Stepwise
  <2> QED
    BY <2>3 DEF S
<1>9. c \in Clients /\ d \in Clients
  BY <1>1, <1>2, <1>7
<1> QED
  BY <1>1, <1>4, <1>8, <1>9

LEMMA ClientForm ==
    ASSUME NEW c \in Clients
    PROVE  /\ c = At(c.head, c.pre, c.due, c.got, c.end)
           /\ c.head \in 0 .. Header /\ c.pre \in Nat /\ c.due \in Nat /\ c.got \in Nat
           /\ c.end \in 0 .. Trailer
           /\ c.end > 0 => kind = "chunked" /\ c.head = Header /\ c.pre = 0 /\ c.due = 0
BY DEF Clients, At

LEMMA ClientAt ==
    ASSUME NEW head \in 0 .. Header, NEW pre \in Nat, NEW due \in Nat, NEW got \in Nat,
           NEW end \in 0 .. Trailer,
           end > 0 => kind = "chunked" /\ head = Header /\ pre = 0 /\ due = 0
    PROVE  At(head, pre, due, got, end) \in Clients
BY DEF Clients, At

(* Bytes read in order are read one by one and once.                       *)
LEMMA ReadGrows ==
    ASSUME NEW c \in Clients, NEW b, Reads(c, b) \in Clients
    PROVE  /\ c.got <= Reads(c, b).got /\ c.end <= Reads(c, b).end
           /\ c.end < Trailer
<1>1. c \in Clients /\ Header \in Nat /\ Trailer \in Nat
  BY HttpOutputAssumption, BufLenAssumption
<1> DEFINE between == c.pre = 0 /\ c.due = 0
           heads == b.k = "head" /\ b.v = c.head + 1 /\ between /\ c.got = 0
           sizes == b.k = "size" /\ b.v = c.pre + 1 /\ c.due = 0 /\ c.end = 0 /\ c.head = Header
           bodies == b.k = "body" /\ b.v = c.got + 1 /\ c.head = Header
                     /\ (kind = "chunked" => c.due > 0)
           ends == b.k = "end" /\ b.v = c.end + 1 /\ between
<1>2. Reads(c, b).ok = TRUE
  BY DEF Clients
<1>3. CASE heads
  <2>1. Reads(c, b) = [c EXCEPT !.head = b.v]
    BY <1>3 DEF Reads
  <2>2. /\ Reads(c, b).got = c.got /\ Reads(c, b).end = c.end
        /\ Reads(c, b).head = c.head + 1
    BY <1>3, <2>1 DEF Clients
  <2>3. c.head + 1 <= Header /\ c.head \in Nat /\ c.got \in Nat /\ c.end \in 0 .. Trailer
    BY <1>1, <2>2 DEF Clients
  <2> QED
    BY <1>1, <2>2, <2>3, ClientForm, HttpOutputAssumption
<1>4. CASE sizes
  <2>1. Reads(c, b).got = c.got /\ Reads(c, b).end = c.end
    BY <1>4 DEF Reads, Clients
  <2> QED
    BY <1>1, <1>4, <2>1, HttpOutputAssumption DEF Clients
<1>5. CASE bodies
  <2>1. Reads(c, b).got = c.got + 1 /\ Reads(c, b).end = c.end
    BY <1>5 DEF Reads, Clients
  <2> QED
    BY <1>1, <1>5, <2>1, HttpOutputAssumption DEF Clients
<1>6. CASE ends
  <2>1. Reads(c, b) = [c EXCEPT !.end = b.v]
    BY <1>6 DEF Reads
  <2> QED
    BY <1>1, <1>6, <2>1 DEF Clients
<1>7. CASE ~ heads /\ ~ sizes /\ ~ bodies /\ ~ ends
  <2>1. Reads(c, b) = [c EXCEPT !.ok = FALSE]
    BY <1>7 DEF Reads
  <2> QED
    BY <1>2, <2>1 DEF Clients
<1> QED
  BY <1>3, <1>4, <1>5, <1>6, <1>7

LEMMA LeadsGrow ==
    ASSUME NEW c, NEW bytes, Len(bytes) \in Nat, NEW d, Leads(c, bytes, d)
    PROVE  /\ c.got <= d.got /\ c.end <= d.end
           /\ c.end = Trailer => Len(bytes) = 0
           /\ Len(bytes) = 0 => d = c
<1> DEFINE n == Len(bytes)
<1>1. PICK run : IsRun(run, bytes) /\ run[0] = c /\ run[n] = d
  BY DEF Leads
<1>2. run \in [0 .. n -> Clients] /\ \A i \in 1 .. n : run[i] = Reads(run[i - 1], bytes[i])
  BY <1>1 DEF IsRun
<1> DEFINE S == {i \in 0 .. n : c.got <= run[i].got /\ c.end <= run[i].end}
<1>3. c \in Clients /\ \A i \in 0 .. n : run[i] \in Clients
  BY <1>1, <1>2
<1>4. 0 \in S
  BY <1>1, <1>3, ClientForm
<1>5. \A i \in 1 .. n : i - 1 \in S => i \in S
  <2> TAKE i \in 1 .. n
  <2> HAVE i - 1 \in S
  <2>1. i \in 0 .. n /\ i - 1 \in 0 .. n /\ run[i - 1] \in Clients /\ run[i] \in Clients
    BY <1>3
  <2>2. run[i - 1].got <= run[i].got /\ run[i - 1].end <= run[i].end
    BY <1>2, <2>1, ReadGrows
  <2>3. /\ run[i - 1].got \in Nat /\ run[i].got \in Nat /\ c.got \in Nat
        /\ run[i - 1].end \in Int /\ run[i].end \in Int /\ c.end \in Int
    BY <1>3, <2>1, ClientForm
  <2> QED
    BY <2>1, <2>2, <2>3
<1>6. n \in S
  <2> HIDE DEF S
  <2> QED
    BY <1>4, <1>5, Stepwise
<1>7. c.end = Trailer => n = 0
  <2> SUFFICES ASSUME n # 0 PROVE c.end < Trailer
    BY <1>3, ClientForm
  <2>1. 1 \in 1 .. n /\ 0 \in 0 .. n /\ 1 \in 0 .. n
    OBVIOUS
  <2>2. run[1] = Reads(c, bytes[1]) /\ run[1] \in Clients
    <3>1. run[1] = Reads(run[1 - 1], bytes[1])
      BY <1>2, <2>1
    <3> QED
      BY <1>1, <1>3, <2>1, <3>1
  <2> QED
    BY <1>3, <2>2, ReadGrows
<1> QED
  BY <1>1, <1>6, <1>7

(* Sequences of bytes are read one after the other, or in pieces.          *)
LEMMA LeadsOn ==
    ASSUME NEW s \in Seq(Bytes), NEW t \in Seq(Bytes), NEW c, NEW d, NEW e,
           Leads(c, s, d), Leads(d, t, e)
    PROVE  Leads(c, s \o t, e)
<1> DEFINE m == Len(s)
           n == Len(t)
<1>1. PICK f : IsRun(f, s) /\ f[0] = c /\ f[m] = d
  BY DEF Leads
<1>2. PICK g : IsRun(g, t) /\ g[0] = d /\ g[n] = e
  BY DEF Leads
<1>3. /\ m \in Nat /\ n \in Nat /\ Len(s \o t) = m + n
      /\ \A i \in 1 .. m + n : (s \o t)[i] = IF i <= m THEN s[i] ELSE t[i - m]
  BY ConcatProperties, LenProperties
<1>4. /\ f \in [0 .. m -> Clients] /\ \A i \in 1 .. m : f[i] = Reads(f[i - 1], s[i])
      /\ g \in [0 .. n -> Clients] /\ \A i \in 1 .. n : g[i] = Reads(g[i - 1], t[i])
  BY <1>1, <1>2 DEF IsRun
<1> DEFINE run == [i \in 0 .. m + n |-> IF i <= m THEN f[i] ELSE g[i - m]]
<1> HIDE DEF m, n
<1>5. run \in [0 .. m + n -> Clients]
  <2>1. \A i \in 0 .. m + n : i <= m => i \in 0 .. m
    BY <1>3
  <2>2. \A i \in 0 .. m + n : ~ (i <= m) => i - m \in 0 .. n
    BY <1>3
  <2> QED
    BY <1>4, <2>1, <2>2
<1>6. \A i \in 1 .. m + n : run[i] = Reads(run[i - 1], (s \o t)[i])
  <2> TAKE i \in 1 .. m + n
  <2>1. i \in 0 .. m + n /\ i - 1 \in 0 .. m + n
    BY <1>3
  <2>2. CASE i <= m
    <3>1. i \in 1 .. m /\ i - 1 <= m
      BY <1>3, <2>2
    <3> QED
      BY <1>3, <1>4, <2>1, <2>2, <3>1
  <2>3. CASE i = m + 1
    <3>1. i - m = 1 /\ i - 1 = m /\ 1 \in 1 .. n /\ ~ (i <= m) /\ m <= m
      BY <1>3, <2>3
    <3>2. run[i] = g[1] /\ run[i - 1] = f[m] /\ (s \o t)[i] = t[1]
      BY <1>3, <2>1, <3>1
    <3>3. g[1] = Reads(g[1 - 1], t[1]) /\ 1 - 1 = 0
      BY <1>4, <3>1
    <3> HIDE DEF run
    <3> QED
      BY <1>1, <1>2, <3>2, <3>3
  <2>4. CASE i > m + 1
    <3>1. /\ i - m \in 1 .. n /\ ~ (i <= m) /\ ~ (i - 1 <= m)
          /\ (i - 1) - m = (i - m) - 1
      BY <1>3, <2>4
    <3>2. run[i] = g[i - m] /\ run[i - 1] = g[(i - m) - 1] /\ (s \o t)[i] = t[i - m]
      BY <1>3, <2>1, <3>1
    <3> HIDE DEF run
    <3> QED
      BY <1>4, <3>1, <3>2
  <2> QED
    BY <1>3, <2>2, <2>3, <2>4
<1>7. run[0] = c /\ run[m + n] = e
  <2>1. 0 \in 0 .. m + n /\ m + n \in 0 .. m + n /\ 0 <= m /\ m + n - m = n
    BY <1>3
  <2>2. CASE n = 0
    BY <1>1, <1>2, <1>3, <2>1, <2>2
  <2>3. CASE n # 0
    <3>1. ~ (m + n <= m)
      BY <1>3, <2>3
    <3>2. run[0] = f[0] /\ run[m + n] = g[n]
      BY <1>3, <2>1, <3>1
    <3> HIDE DEF run
    <3> QED
      BY <1>1, <1>2, <3>2 DEF m, n
  <2> QED
    BY <2>2, <2>3
<1> HIDE DEF run
<1> QED
  BY <1>3, <1>5, <1>6, <1>7 DEF Leads, IsRun

LEMMA LeadsInPieces ==
    ASSUME NEW s \in Seq(Bytes), NEW c, NEW e, Leads(c, s, e), NEW n \in 0 .. Len(s)
    PROVE  \E d \in Clients : /\ Leads(c, SubSeq(s, 1, n), d)
                              /\ Leads(d, SubSeq(s, n + 1, Len(s)), e)
<1> DEFINE m == Len(s)
           t == SubSeq(s, 1, n)
           u == SubSeq(s, n + 1, m)
<1>1. m \in Nat /\ n \in Nat /\ n <= m
  BY LenProperties
<1>2. PICK f : IsRun(f, s) /\ f[0] = c /\ f[m] = e
  BY DEF Leads
<1>3. f \in [0 .. m -> Clients] /\ \A i \in 1 .. m : f[i] = Reads(f[i - 1], s[i])
  BY <1>2 DEF IsRun
<1>4. Len(t) = n /\ \A i \in 1 .. n : t[i] = s[i]
  BY <1>1
<1>5. Len(u) = m - n /\ \A i \in 1 .. m - n : u[i] = s[n + i]
  BY <1>1
<1> HIDE DEF m, t, u
<1>6. Leads(c, t, f[n])
  <2> DEFINE g == [i \in 0 .. n |-> f[i]]
  <2>1. \A i \in 0 .. n : i \in 0 .. m
    BY <1>1
  <2>2. g \in [0 .. n -> Clients] /\ g[0] = c /\ g[n] = f[n]
    BY <1>1, <1>2, <1>3, <2>1
  <2>3. \A i \in 1 .. n : g[i] = Reads(g[i - 1], t[i])
    <3> TAKE i \in 1 .. n
    <3>1. i \in 0 .. n /\ i - 1 \in 0 .. n /\ i \in 1 .. m
      BY <1>1
    <3> QED
      BY <1>3, <1>4, <3>1
  <2> HIDE DEF g
  <2> QED
    BY <1>4, <2>2, <2>3 DEF Leads, IsRun
<1>7. Leads(f[n], u, e)
  <2> DEFINE g == [i \in 0 .. m - n |-> f[n + i]]
  <2>1. \A i \in 0 .. m - n : n + i \in 0 .. m
    BY <1>1
  <2>2. 0 \in 0 .. m - n /\ m - n \in 0 .. m - n /\ n + 0 = n /\ n + (m - n) = m
    BY <1>1
  <2>3. g \in [0 .. m - n -> Clients] /\ g[0] = f[n] /\ g[m - n] = e
    BY <1>2, <1>3, <2>1, <2>2
  <2>4. \A i \in 1 .. m - n : g[i] = Reads(g[i - 1], u[i])
    <3> TAKE i \in 1 .. m - n
    <3>1. /\ i \in 0 .. m - n /\ i - 1 \in 0 .. m - n /\ n + i \in 1 .. m
          /\ n + (i - 1) = (n + i) - 1
      BY <1>1
    <3>2. g[i] = f[n + i] /\ g[i - 1] = f[(n + i) - 1]
      BY <3>1
    <3> HIDE DEF g
    <3> QED
      BY <1>3, <1>5, <3>1, <3>2
  <2> HIDE DEF g
  <2> QED
    BY <1>5, <2>3, <2>4 DEF Leads, IsRun
<1>8. f[n] \in Clients
  BY <1>1, <1>3
<1> QED
  BY <1>6, <1>7, <1>8 DEF m, t, u

(* The pieces the server puts are read whole.                              *)
LEMMA HeadersRead == Leads(At(0, 0, 0, 0, 0), HeaderBytes, At(Header, 0, 0, 0, 0))
<1> DEFINE run == [i \in 0 .. Header |-> At(i, 0, 0, 0, 0)]
<1>1. Header \in Nat /\ Len(HeaderBytes) = Header /\ Trailer \in Nat
  BY HeaderPut, HttpOutputAssumption, BufLenAssumption
<1>2. \A i \in 0 .. Header : At(i, 0, 0, 0, 0) \in Clients
  BY <1>1, ClientAt
<1>3. ASSUME NEW i \in 1 .. Header
      PROVE  At(i, 0, 0, 0, 0) = Reads(At(i - 1, 0, 0, 0, 0), HeaderBytes[i])
  <2>1. HeaderBytes[i] = Byte("head", i, 0)
    BY DEF HeaderBytes
  <2>2. Reads(At(i - 1, 0, 0, 0, 0), Byte("head", i, 0)) = [At(i - 1, 0, 0, 0, 0) EXCEPT !.head = i]
    BY <1>1 DEF Reads, At, Byte
  <2> QED
    BY <2>1, <2>2 DEF At
<1>4. IsRun(run, HeaderBytes)
  BY <1>1, <1>2, <1>3 DEF IsRun
<1> QED
  BY <1>1, <1>4 DEF Leads

LEMMA PrefixRead ==
    ASSUME NEW len \in 1 .. BufLen, NEW got \in Nat
    PROVE  Leads(At(Header, 0, 0, got, 0), PrefixBytes(len, 0), At(Header, 0, len, got, 0))
<1> DEFINE n == PrefixLen[len]
           bytes == PrefixBytes(len, 0)
           to(i) == IF i = n THEN At(Header, 0, len, got, 0) ELSE At(Header, i, 0, got, 0)
           run == [i \in 0 .. n |-> to(i)]
<1>1. /\ Len(bytes) = n /\ n \in Nat \ {0} /\ Header \in Nat /\ len \in Nat \ {0}
      /\ Trailer \in Nat
  BY PrefixPut, HttpOutputAssumption, BufLenAssumption
<1>2. \A i \in 1 .. n : bytes[i] = Byte("size", i, len)
  BY <1>1 DEF PrefixBytes
<1> HIDE DEF n, bytes
<1>3. \A i \in 0 .. n : to(i) \in Clients
  <2>1. \A i \in 0 .. n : At(Header, i, 0, got, 0) \in Clients
    BY <1>1, ClientAt
  <2>2. At(Header, 0, len, got, 0) \in Clients
    BY <1>1, ClientAt
  <2> QED
    BY <2>1, <2>2
<1>4. ASSUME NEW i \in 1 .. n
      PROVE  to(i) = Reads(to(i - 1), bytes[i])
  <2>1. to(i - 1) = At(Header, i - 1, 0, got, 0)
    BY <1>1
  <2>2. Reads(At(Header, i - 1, 0, got, 0), Byte("size", i, len)) =
          [At(Header, i - 1, 0, got, 0) EXCEPT
              !.pre = IF i = n THEN 0 ELSE i, !.due = IF i = n THEN len ELSE 0]
    BY <1>1 DEF Reads, At, Byte, n
  <2>3. CASE i = n
    BY <1>2, <2>1, <2>2, <2>3 DEF At
  <2>4. CASE i # n
    BY <1>2, <2>1, <2>2, <2>4 DEF At
  <2> QED
    BY <2>3, <2>4
<1>5. run[0] = At(Header, 0, 0, got, 0) /\ run[n] = At(Header, 0, len, got, 0)
  BY <1>1
<1>6. IsRun(run, bytes)
  BY <1>1, <1>3, <1>4 DEF IsRun
<1> QED
  BY <1>1, <1>5, <1>6 DEF Leads, bytes

(* The data of a chunk are read to its end, others as they come.           *)
LEMMA BodyRead ==
    ASSUME NEW got \in Nat, NEW n \in Nat, NEW due \in Nat,
           due = (IF kind = "chunked" THEN n ELSE 0),
           NEW bytes, Len(bytes) = n,
           \A i \in 1 .. n : bytes[i] = Byte("body", got + i, 0)
    PROVE  Leads(At(Header, 0, due, got, 0), bytes, At(Header, 0, 0, got + n, 0))
<1> DEFINE rest(i) == IF kind = "chunked" THEN n - i ELSE 0
           to(i) == At(Header, 0, rest(i), got + i, 0)
           run == [i \in 0 .. n |-> to(i)]
<1>1. Header \in Nat /\ Trailer \in Nat
  BY HttpOutputAssumption, BufLenAssumption
<1>2. \A i \in 0 .. n : to(i) \in Clients
  <2>1. \A i \in 0 .. n : rest(i) \in Nat /\ got + i \in Nat
    OBVIOUS
  <2> HIDE DEF rest
  <2> QED
    BY <1>1, <2>1, ClientAt
<1>3. ASSUME NEW i \in 1 .. n
      PROVE  to(i) = Reads(to(i - 1), bytes[i])
  <2>1. /\ kind = "chunked" => rest(i - 1) > 0
        /\ rest(i) = IF kind = "chunked" THEN rest(i - 1) - 1 ELSE 0
        /\ got + i = got + (i - 1) + 1
    OBVIOUS
  <2> HIDE DEF rest
  <2>2. Reads(to(i - 1), Byte("body", got + i, 0)) =
          At(Header, 0, IF kind = "chunked" THEN rest(i - 1) - 1 ELSE 0, got + i, 0)
    BY <1>1, <2>1 DEF Reads, At, Byte
  <2> QED
    BY <2>1, <2>2
<1>4. IsRun(run, bytes)
  BY <1>2, <1>3 DEF IsRun
<1>5. run[0] = At(Header, 0, due, got, 0) /\ run[n] = At(Header, 0, 0, got + n, 0)
  <2>1. rest(0) = due /\ rest(n) = 0 /\ got + 0 = got /\ 0 \in 0 .. n /\ n \in 0 .. n
    OBVIOUS
  <2> HIDE DEF rest
  <2> QED
    BY <2>1
<1> QED
  BY <1>4, <1>5 DEF Leads

LEMMA TrailerRead ==
    ASSUME kind = "chunked", NEW got \in Nat
    PROVE  Leads(At(Header, 0, 0, got, 0), TrailerBytes, At(Header, 0, 0, got, Trailer))
<1> DEFINE run == [i \in 0 .. Trailer |-> At(Header, 0, 0, got, i)]
<1>1. Header \in Nat /\ Len(TrailerBytes) = Trailer /\ Trailer \in Nat
  BY TrailerPut, HttpOutputAssumption, BufLenAssumption
<1>2. \A i \in 0 .. Trailer : At(Header, 0, 0, got, i) \in Clients
  BY <1>1, ClientAt
<1>3. ASSUME NEW i \in 1 .. Trailer
      PROVE  At(Header, 0, 0, got, i) = Reads(At(Header, 0, 0, got, i - 1), TrailerBytes[i])
  <2>1. TrailerBytes[i] = Byte("end", i, 0)
    BY DEF TrailerBytes
  <2>2. Reads(At(Header, 0, 0, got, i - 1), Byte("end", i, 0)) =
          [At(Header, 0, 0, got, i - 1) EXCEPT !.end = i]
    BY <1>1 DEF Reads, At, Byte
  <2> QED
    BY <2>1, <2>2 DEF At
<1>4. IsRun(run, TrailerBytes)
  BY <1>1, <1>2, <1>3 DEF IsRun
<1> QED
  BY <1>1, <1>4 DEF Leads

-----------------------------------------------------------------------------
(* The inductive invariant of the stream.                                  *)

(* Bytes of the body that are not waiting in chunkbuf.                     *)
Handed == size - left - Len(chunkbuf.data)

(* The end of the chunks was put.                                          *)
Ended == kind = "chunked" /\ ~chunking /\ pc # "begin"

(* A client that has read all there is of output.                          *)
Reader ==
    At(IF pc = "begin" THEN 0 ELSE Header, 0, IF txState = "data" THEN txChunkLen ELSE 0,
       Handed, IF Ended THEN Trailer ELSE 0)

(* Whatever is cut where: the bytes in output are those the client expects *)
(* next, and those in chunkbuf come after them.                            *)
InOrder == ~failed => Leads(client, output.data, Reader)

BodyChunked ==
    \A i \in 1 .. Len(chunkbuf.data) : chunkbuf.data[i] = Byte("body", Handed + i, 0)

(* What the client has read, even if the connection breaks.                *)
ClientReads ==
    /\ client \in Clients /\ client.got <= size - left
    /\ client.end > 0 => finalized
    /\ client.end = Trailer => client.got = size - left

(* What is done for which kind of answer.                                  *)
Kinds ==
    /\ chunking => kind = "chunked"
    /\ ~chunking => Len(chunkbuf.data) = 0
    /\ Ended => finalized
    /\ pc = "begin" => ~chunking /\ left = size
    /\ pc \in {"write", "put"} \/ (Flushing /\ caller = "write") => kind # "file"
    /\ pc = "file" => Len(output.data) = 0
    /\ kind = "file" /\ (finalized \/ pc = "done") => left = 0

(* An answer is complete only when it was finalized and output is empty.   *)
Ending ==
    /\ pc = "send" /\ chunking /\ finalized => Len(chunkbuf.data) > 0
    /\ pc = "idle" => state = "running"
    /\ pc = "over" => state = "complete"
    /\ state = "complete" /\ ~failed =>
           /\ finalized /\ Len(output.data) = 0
           /\ chunking => Len(chunkbuf.data) > 0
           /\ pc \in {"pump", "event", "file", "done", "over"}

SInv == IInv /\ InOrder /\ BodyChunked /\ ClientReads /\ Kinds /\ Ending

-----------------------------------------------------------------------------
LEMMA ControlStep ==
    ASSUME SInv, [Next]_vars
    PROVE  Kinds' /\ Ending'
<1> USE DEF SInv, IInv, Kinds, Ending, Ended, Flushing, answer, buffers, chunk, request, socket
<1>1. TypeOK /\ size \in Nat /\ Len(output.data) \in Nat /\ Len(chunkbuf.data) \in Nat
  BY RoomInPlace, HttpOutputAssumption DEF Shape, TypeOK
<1>2. CASE WriteHeaders
  BY <1>1, <1>2 DEF WriteHeaders, TypeOK, Finalizing
<1>3. CASE WriteBlock
  BY <1>1, <1>3 DEF WriteBlock, PutBody, Flush, TypeOK, Finalizing
<1>4. CASE PutBlock
  BY <1>1, <1>4 DEF PutBlock, PutBody, TypeOK, Finalizing
<1>5. CASE WriteEnd
  BY <1>1, <1>5 DEF WriteEnd, TypeOK, Finalizing
<1>6. CASE websDone
  BY <1>1, <1>6 DEF websDone, Flush, TypeOK
<1>7. CASE ChunkStart
  BY <1>1, <1>7 DEF ChunkStart, MoreChunks, TypeOK
<1>8. CASE ChunkHeader
  <2>1. /\ pc' \in {"chunk", "send"} /\ pc = "chunk" /\ Len(chunkbuf.data) > 0
        /\ UNCHANGED <<caller, answer, left, chunkbuf, request, socket>>
    BY <1>8 DEF ChunkHeader, MoreChunks
  <2> QED
    BY <1>1, <2>1 DEF TypeOK
<1>9. CASE ChunkData
  <2>1. /\ pc' = pc /\ pc = "chunk" /\ chunking
        /\ UNCHANGED <<caller, answer, left, request, socket>>
    BY <1>9 DEF ChunkData, MoreChunks, ChunkUnderWay
  <2> QED
    BY <1>1, <2>1 DEF TypeOK
<1>10. CASE ChunkEnd
  <2>1. /\ pc = "chunk" /\ pc' = "send" /\ chunking
        /\ UNCHANGED <<caller, answer, left, chunkbuf, finalized, state, socket>>
    BY <1>10 DEF ChunkEnd, ChunkUnderWay
  <2>2. CASE Len(chunkbuf.data) = 0 /\ finalized /\ chunking' = FALSE
    BY <1>1, <2>1, <2>2 DEF TypeOK
  <2>3. CASE ~ (Len(chunkbuf.data) = 0 /\ finalized) /\ chunking' = chunking
    BY <1>1, <2>1, <2>3 DEF TypeOK
  <2> QED
    BY <1>10, <2>2, <2>3 DEF ChunkEnd, AllChunked
<1>11. ASSUME NEW n \in 1 .. BufLen, Send(n)
       PROVE  Kinds' /\ Ending'
  <2>1. /\ pc' = pc /\ pc = "send"
        /\ UNCHANGED <<caller, answer, left, chunkbuf, request, failed>>
    BY <1>11 DEF Send
  <2> QED
    BY <1>1, <2>1 DEF TypeOK
<1>12. CASE SocketFull
  BY <1>1, <1>12 DEF SocketFull, Return, TypeOK, Calling
<1>13. CASE SendFails
  BY <1>1, <1>13 DEF SendFails, Return, TypeOK, Calling
<1>14. CASE FlushEnd
  BY <1>1, <1>14 DEF FlushEnd, WholeAnswer, Return, TypeOK, Calling
<1>15. CASE FileWrite
  <2>1. /\ pc = "file" /\ left > 0 /\ ~failed /\ pc' \in {"file", "pump"}
        /\ UNCHANGED <<caller, answer, buffers, request, failed>>
    BY <1>15 DEF FileWrite
  <2>2. kind = "file" /\ ~finalized
    BY <1>1, <2>1 DEF Finalizing
  <2> QED
    BY <1>1, <2>1, <2>2 DEF TypeOK
<1>16. CASE FileFails
  <2>1. kind = "file" /\ ~finalized
    BY <1>1, <1>16 DEF FileFails, Finalizing
  <2> QED
    BY <1>1, <1>16, <2>1 DEF FileFails, TypeOK
<1>17. CASE FileEnd
  BY <1>1, <1>17 DEF FileEnd, TypeOK
<1>18. CASE Pump
  BY <1>1, <1>18 DEF Pump, TypeOK
<1>19. CASE EventEnd
  BY <1>1, <1>19 DEF EventEnd, TypeOK
<1>20. CASE WritableEvent
  BY <1>1, <1>20 DEF WritableEvent, Flush, TypeOK
<1>21. CASE Timeout
  BY <1>1, <1>21 DEF Timeout, TypeOK
<1>22. CASE UNCHANGED vars
  BY <1>22 DEF vars
<1> QED
  BY <1>2, <1>3, <1>4, <1>5, <1>6, <1>7, <1>8, <1>9, <1>10, <1>11, <1>12, <1>13, <1>14,
     <1>15, <1>16, <1>17, <1>18, <1>19, <1>20, <1>21, <1>22 DEF Next, Thread

-----------------------------------------------------------------------------
LEMMA Lengths ==
    ASSUME SInv
    PROVE  /\ size \in Nat /\ left \in 0 .. size
           /\ InPlace(output) /\ output.data \in Seq(Bytes) /\ Len(output.data) \in Nat
           /\ InPlace(chunkbuf) /\ chunkbuf.data \in Seq(Bytes) /\ Len(chunkbuf.data) \in Nat
           /\ Handed \in Int /\ Handed <= size - left
BY RoomInPlace, HttpOutputAssumption DEF SInv, IInv, Shape, TypeOK, InPlace, Handed

(* The client reads nothing, whatever is done with the rest of the body.   *)
LEMMA ClientKept ==
    ASSUME SInv, UNCHANGED <<client, answer>>, left' \in 0 .. left,
           left' = left \/ kind = "file" \/ ~finalized, finalized => finalized'
    PROVE  ClientReads'
<1>1. client \in Clients /\ client' = client /\ kind' = kind /\ size' = size
  BY DEF SInv, ClientReads, answer
<1>2. Clients' = Clients
  BY <1>1 DEF Clients
<1>3. client.got <= size - left' /\ (client.end > 0 => left' = left)
  <2>1. client.got \in Nat /\ (client.end > 0 => kind = "chunked" /\ finalized)
    BY <1>1, ClientForm DEF SInv, ClientReads
  <2> QED
    BY <2>1, Lengths DEF SInv, ClientReads
<1>4. client.end = Trailer => client.end > 0
  BY HttpOutputAssumption
<1> QED
  BY <1>1, <1>2, <1>3, <1>4 DEF SInv, ClientReads

(* Nothing of the stream changes, unless the connection breaks.            *)
LEMMA QuietStep ==
    ASSUME SInv, UNCHANGED <<client, answer, left, chunkbuf, chunking>>,
           finalized => finalized', pc # "begin", pc' # "begin", failed => failed',
           ~failed' => /\ output' = output
                       /\ txState' = "data" <=> txState = "data"
                       /\ txState = "data" => txChunkLen' = txChunkLen
    PROVE  InOrder' /\ BodyChunked' /\ ClientReads'
<1>1. kind' = kind /\ size' = size /\ left \in 0 .. size /\ size \in Nat
  BY Lengths DEF answer
<1>2. ClientReads'
  BY <1>1, ClientKept
<1>3. Handed' = Handed /\ Ended' = Ended
  BY <1>1 DEF Handed, Ended
<1>4. BodyChunked'
  BY <1>3 DEF SInv, BodyChunked
<1>5. ASSUME ~failed'
      PROVE  Leads(client, output.data, Reader)'
  <2>1. Reader' = Reader
    BY <1>3, <1>5 DEF Reader
  <2>2. Leads(client', output'.data, Reader')
    BY <1>5, <2>1 DEF SInv, InOrder
  <2> QED
    BY <1>1, <2>2, LeadsKept
<1> QED
  BY <1>2, <1>4, <1>5 DEF InOrder

(* The handler hands over a part of the body, which is read after what it  *)
(* handed over before.                                                     *)
LEMMA BodyStep ==
    ASSUME SInv, PutBody, pc \in {"write", "put"}, pc' # "begin",
           UNCHANGED <<answer, chunk, request, socket, client>>
    PROVE  InOrder' /\ BodyChunked' /\ ClientReads'
<1> DEFINE n == Least(Room(Op), left)
           put == BodyBytes(n)
<1>1. /\ kind' = kind /\ size' = size /\ chunking' = chunking /\ finalized' = finalized
      /\ failed' = failed /\ txState' = txState /\ txChunkLen' = txChunkLen
      /\ client' = client
      /\ ~finalized /\ Finalizing /\ ChunkUnderWay
  BY DEF answer, chunk, request, socket, SInv, IInv, Finalizing
<1>2. /\ size \in Nat /\ left \in 0 .. size /\ InPlace(Op) /\ Room(Op) \in Nat
      /\ Len(chunkbuf.data) \in Nat
  BY Lengths, RoomInPlace DEF Op
<1>3. n \in Nat /\ n <= left /\ n <= Room(Op)
  BY <1>2 DEF Least
<1>4. left' = left - n
  BY DEF PutBody
<1>5. /\ put \in Seq(Bytes) /\ Len(put) = n
      /\ \A i \in 1 .. n : put[i] = Byte("body", size - left + i, 0)
  BY <1>3, BodyPut DEF SInv, IInv, Shape, BodyBytes
<1> HIDE DEF n, put
<1>6. Put(Op, put).data = Op.data \o put
  BY <1>2, <1>3, <1>5, PutAppends
<1>7. ClientReads'
  <2>1. left' \in 0 .. left /\ ~finalized
    BY <1>1, <1>2, <1>3, <1>4
  <2> QED
    BY <1>1, <2>1, ClientKept
<1>8. CASE chunking
  <2>1. output' = output /\ chunkbuf'.data = chunkbuf.data \o put
    BY <1>6, <1>8 DEF PutBody, Op, n, put
  <2>2. /\ Len(chunkbuf'.data) = Len(chunkbuf.data) + n
        /\ \A i \in 1 .. Len(chunkbuf.data) + n :
               chunkbuf'.data[i] = IF i <= Len(chunkbuf.data) THEN chunkbuf.data[i]
                                   ELSE put[i - Len(chunkbuf.data)]
    <3> DEFINE s == chunkbuf.data
    <3>1. s \in Seq(Bytes) /\ put \in Seq(Bytes) /\ Len(put) = n
      BY <1>5, Lengths
    <3> HIDE DEF s
    <3>2. /\ Len(s \o put) = Len(s) + Len(put)
          /\ \A i \in 1 .. Len(s) + Len(put) :
                 (s \o put)[i] = IF i <= Len(s) THEN s[i] ELSE put[i - Len(s)]
      BY <3>1, ConcatProperties
    <3> QED
      BY <2>1, <3>1, <3>2 DEF s
  <2>3. Handed' = Handed
    BY <1>1, <1>2, <1>3, <1>4, <2>2 DEF Handed
  <2>4. BodyChunked'
    <3> SUFFICES ASSUME NEW i \in 1 .. Len(chunkbuf.data) + n
                 PROVE  chunkbuf'.data[i] = Byte("body", Handed + i, 0)
      BY <2>2, <2>3 DEF BodyChunked
    <3>1. CASE i <= Len(chunkbuf.data)
      <4>1. i \in 1 .. Len(chunkbuf.data)
        BY <1>2, <1>3, <3>1
      <4> QED
        BY <2>2, <3>1, <4>1 DEF SInv, BodyChunked
    <3>2. CASE ~ (i <= Len(chunkbuf.data))
      <4>1. /\ i - Len(chunkbuf.data) \in 1 .. n
            /\ size - left + (i - Len(chunkbuf.data)) = Handed + i
        BY <1>2, <1>3, <3>2 DEF Handed
      <4>2. chunkbuf'.data[i] = put[i - Len(chunkbuf.data)]
        BY <2>2, <3>2
      <4> QED
        BY <1>5, <4>1, <4>2
    <3> QED
      BY <3>1, <3>2
  <2>5. ASSUME ~failed'
        PROVE  Leads(client, output.data, Reader)'
    <3>1. Reader' = Reader
      BY <1>1, <1>8, <2>3 DEF Reader, Ended
    <3>2. Leads(client', output'.data, Reader')
      BY <1>1, <2>1, <2>5, <3>1 DEF SInv, InOrder
    <3> QED
      BY <1>1, <3>2, LeadsKept
  <2> QED
    BY <1>7, <2>4, <2>5 DEF InOrder
<1>9. CASE ~chunking
  <2>1. chunkbuf' = chunkbuf /\ output'.data = output.data \o put
    BY <1>6, <1>9 DEF PutBody, Op, n, put
  <2>2. kind # "chunked" /\ Len(chunkbuf.data) = 0 /\ txState = "start"
    BY <1>1, <1>9 DEF SInv, Kinds, Ended, ChunkUnderWay
  <2>3. BodyChunked'
    BY <2>1, <2>2 DEF BodyChunked
  <2>4. ASSUME ~failed'
        PROVE  Leads(client, output.data, Reader)'
    <3>1. Reader = At(Header, 0, 0, size - left, 0)
      BY <1>2, <2>2 DEF Reader, Handed, Ended
    <3>2. Reader' = At(Header, 0, 0, size - left + n, 0)
      <4>1. Handed' = size - left + n
        BY <1>1, <1>2, <1>3, <1>4, <2>1, <2>2 DEF Handed
      <4> QED
        BY <1>1, <2>2, <4>1 DEF Reader, Ended
    <3>3. Leads(Reader, put, At(Header, 0, 0, size - left + n, 0))
      <4>1. size - left \in Nat
        BY <1>2
      <4> QED
        BY <1>3, <1>5, <2>2, <3>1, <4>1, BodyRead
    <3>4. Leads(client', output'.data, Reader')
      <4>1. Leads(client, output.data, Reader)
        BY <1>1, <2>4 DEF SInv, InOrder
      <4>2. Leads(client, output.data \o put, At(Header, 0, 0, size - left + n, 0))
        BY <1>5, <3>3, <4>1, Lengths, LeadsOn
      <4> QED
        BY <1>1, <2>1, <3>2, <4>2
    <3> QED
      BY <1>1, <3>4, LeadsKept
  <2> QED
    BY <1>7, <2>3, <2>4 DEF InOrder
<1> QED
  BY <1>8, <1>9

(* The headers, a prefix, a chunk or the end of them is put, which the     *)
(* client can read after what is in output.                                *)
LEMMA PieceStep ==
    ASSUME SInv, kind' = kind, UNCHANGED <<client, failed>>,
           NEW put \in Seq(Bytes), output'.data = output.data \o put,
           ~failed => Leads(Reader, put, Reader')
    PROVE  InOrder'
<1> SUFFICES ASSUME ~failed PROVE Leads(client, output.data, Reader)'
  BY DEF InOrder
<1>1. Leads(client, output.data, Reader)
  BY DEF SInv, InOrder
<1>2. Leads(client, output.data \o put, Reader')
  BY <1>1, Lengths, LeadsOn
<1> QED
  BY <1>2, LeadsKept

LEMMA ReaderIsClient ==
    ASSUME SInv, ~failed
    PROVE  /\ Reader \in Clients /\ client \in Clients
           /\ Len(output.data) = 0 => client = Reader
<1>1. Leads(client, output.data, Reader) /\ Len(output.data) \in Nat
  BY Lengths DEF SInv, InOrder
<1>2. Reader \in Clients /\ client \in Clients
  BY <1>1, LeadsAfter
<1>3. Len(output.data) = 0 => Reader = client
  BY <1>1, LeadsGrow
<1> QED
  BY <1>2, <1>3

(* The client reads a piece of what is in output, and of a file what the   *)
(* socket took of it.                                                      *)
LEMMA SendReads ==
    ASSUME SInv, NEW n \in 1 .. BufLen, Send(n)
    PROVE  /\ client' \in Clients /\ n \in 1 .. Len(output.data) /\ ~failed
           /\ Len(output'.data) \in Nat
           /\ Len(SubSeq(output.data, 1, n)) \in Nat
           /\ Leads(client, output.data, Reader)
           /\ Leads(client, SubSeq(output.data, 1, n), client')
           /\ Leads(client', output'.data, Reader)
<1> USE DEF answer, buffers, chunk, request, socket
<1> DEFINE m == Len(output.data)
<1>1. /\ n \in 1 .. m /\ pc = "send" /\ pc' = pc /\ ~failed /\ ~failed'
      /\ client' = After(client, Straight(output, n))
      /\ output' = Compact(AdjustStart(output, n))
      /\ UNCHANGED <<answer, left, chunkbuf, chunk, chunking, finalized>>
  BY DEF Send, Sent, Received
<1>2. m \in Nat /\ n \in 0 .. m /\ Leads(client, output.data, Reader)
  BY <1>1, Lengths DEF SInv, InOrder
<1>3. PICK d \in Clients : /\ Leads(client, SubSeq(output.data, 1, n), d)
                           /\ Leads(d, SubSeq(output.data, n + 1, m), Reader)
  BY <1>2, Lengths, LeadsInPieces
<1>4. client' = d
  <2>1. Len(SubSeq(output.data, 1, n)) \in Nat
    BY <1>2, Lengths
  <2>2. After(client, SubSeq(output.data, 1, n)) = d
    BY <1>3, <2>1, LeadsAfter
  <2>3. Straight(output, n) = SubSeq(output.data, 1, n)
    BY <1>2, Lengths, StraightInPlace
  <2> QED
    BY <1>1, <2>2, <2>3
<1>5. output'.data = SubSeq(output.data, n + 1, m) /\ Len(output'.data) \in Nat
  <2>1. output'.data = SubSeq(output.data, n + 1, m)
    BY <1>1, Lengths, CompactInPlace
  <2>2. Len(SubSeq(output.data, n + 1, m)) \in Nat
    BY <1>1, <1>2, Lengths
  <2> QED
    BY <2>1, <2>2
<1>6. Len(SubSeq(output.data, 1, n)) \in Nat
  BY <1>2, Lengths
<1> QED
  BY <1>1, <1>2, <1>3, <1>4, <1>5, <1>6

LEMMA FileTakes ==
    ASSUME SInv, pc = "file", ~failed, left > 0, NEW wrote \in 0 .. left
    PROVE  /\ kind = "file" /\ Len(output.data) = 0 /\ Len(chunkbuf.data) = 0
           /\ ~chunking /\ txState = "start"
           /\ client = At(Header, 0, 0, size - left, 0)
           /\ After(client, BodyBytes(wrote)) = At(Header, 0, 0, size - left + wrote, 0)
           /\ At(Header, 0, 0, size - left + wrote, 0) \in Clients
<1>1. /\ kind = "file" /\ Len(output.data) = 0 /\ ~chunking /\ Len(chunkbuf.data) = 0
      /\ txState = "start"
  BY DEF SInv, Kinds, IInv, Finalizing, ChunkUnderWay
<1>2. left \in Nat /\ wrote \in Nat /\ size - left \in Nat
  BY Lengths
<1>3. Reader = At(Header, 0, 0, size - left, 0)
  <2>1. Handed = size - left
    BY <1>1, <1>2, Lengths DEF Handed
  <2>2. ~Ended
    BY <1>1 DEF Ended
  <2> QED
    BY <1>1, <2>1, <2>2 DEF Reader
<1>4. client = At(Header, 0, 0, size - left, 0)
  BY <1>1, <1>3, ReaderIsClient
<1>5. Leads(client, BodyBytes(wrote), At(Header, 0, 0, size - left + wrote, 0))
      /\ Len(BodyBytes(wrote)) \in Nat
  <2>1. /\ Len(BodyBytes(wrote)) = wrote
        /\ \A i \in 1 .. wrote : BodyBytes(wrote)[i] = Byte("body", size - left + i, 0)
    BY <1>2, BodyPut DEF SInv, IInv, Shape, BodyBytes
  <2>2. Leads(At(Header, 0, 0, size - left, 0), BodyBytes(wrote),
              At(Header, 0, 0, size - left + wrote, 0))
    BY <1>1, <1>2, <2>1, BodyRead
  <2> QED
    BY <1>2, <1>4, <2>1, <2>2
<1> QED
  BY <1>1, <1>4, <1>5, LeadsAfter

LEMMA FileReads ==
    ASSUME SInv, FileWrite
    PROVE  /\ kind = "file" /\ Len(output.data) = 0 /\ Len(chunkbuf.data) = 0
           /\ Reader' \in Clients /\ client' = Reader'
           /\ client = At(Header, 0, 0, size - left, 0)
           /\ client' = At(Header, 0, 0, size - left', 0)
           /\ left' \in 0 .. left
<1> USE DEF answer, buffers, chunk, request, socket
<1>1. PICK wrote \in 0 .. Least(left, FileBuf) :
        /\ client' = After(client, BodyBytes(wrote))
        /\ left' = left - wrote
  BY DEF FileWrite, SeekBack, Received
<1>2. /\ pc = "file" /\ pc' # "begin" /\ ~failed /\ left > 0
      /\ UNCHANGED <<answer, buffers, chunk, chunking, finalized>>
  BY DEF FileWrite
<1>3. wrote \in 0 .. left /\ left' \in 0 .. left
  BY <1>1, <1>2, Lengths, HttpOutputAssumption DEF Least
<1>4. /\ kind = "file" /\ Len(output.data) = 0 /\ Len(chunkbuf.data) = 0
      /\ ~chunking /\ txState = "start"
      /\ client = At(Header, 0, 0, size - left, 0)
      /\ client' = At(Header, 0, 0, size - left + wrote, 0) /\ client' \in Clients
  BY <1>1, <1>2, <1>3, FileTakes
<1>5. size - left' = size - left + wrote
  BY <1>1, <1>3, Lengths
<1>6. Reader' = At(Header, 0, 0, size - left', 0)
  <2>1. Handed' = size - left'
    BY <1>2, <1>3, <1>4, Lengths DEF Handed
  <2>2. ~Ended'
    BY <1>2, <1>4 DEF Ended
  <2> QED
    BY <1>2, <1>4, <2>1, <2>2 DEF Reader
<1>7. Reader' \in Clients /\ client' = Reader'
  BY <1>4, <1>5, <1>6
<1> QED
  BY <1>3, <1>4, <1>5, <1>7

(* A broken connection took less of the file than was read.                *)
LEMMA FileBreaks ==
    ASSUME SInv, FileFails
    PROVE  /\ kind = "file" /\ UNCHANGED <<answer, buffers, finalized>> /\ failed'
           /\ left' \in 0 .. left
           /\ client' \in Clients /\ client'.got <= size - left'
           /\ client.got <= client'.got /\ client'.end = 0
<1> DEFINE n == Least(left, FileBuf)
<1>1. /\ pc = "file" /\ left > 0 /\ left' = left - n /\ failed'
      /\ UNCHANGED <<answer, buffers, finalized>>
  BY DEF FileFails, request
<1>2. kind = "file"
  BY <1>1 DEF SInv, IInv, Finalizing
<1>3. n \in 0 .. left /\ left \in Nat /\ size - left \in Nat
  BY <1>1, Lengths, HttpOutputAssumption DEF Least
<1>4. left' \in 0 .. left /\ size - left <= size - left'
  <2>1. left \in Int /\ left' \in Int /\ left' <= left /\ size \in Int /\ left' \in 0 .. left
    BY <1>1, <1>3, Lengths
  <2>2. \A s, l, k \in Int : k <= l => s - l <= s - k
    OBVIOUS
  <2> QED
    BY <2>1, <2>2
<1>5. CASE ~failed
  <2>1. PICK wrote \in 0 .. n - 1 : client' = After(client, BodyBytes(wrote))
    BY <1>5 DEF FileFails, Received
  <2>2. wrote \in 0 .. left
    BY <1>3
  <2>3. /\ client = At(Header, 0, 0, size - left, 0)
        /\ client' = At(Header, 0, 0, size - left + wrote, 0) /\ client' \in Clients
    BY <1>1, <1>5, <2>1, <2>2, FileTakes
  <2>4. client.got = size - left /\ client'.got = size - left + wrote /\ client'.end = 0
    BY <2>3 DEF At
  <2>5. size - left + wrote <= size - left' /\ size - left <= size - left + wrote
    BY <1>1, <1>3, <2>2, Lengths
  <2> QED
    BY <1>1, <1>2, <1>4, <2>3, <2>4, <2>5
<1>6. CASE failed
  <2>1. client' = client
    BY <1>6 DEF FileFails
  <2>2. client \in Clients /\ client.got <= size - left
    BY DEF SInv, ClientReads
  <2>3. client.got \in Nat /\ client.end \in 0 .. Trailer /\ ~(client.end > 0)
    BY <1>2, <2>2, ClientForm
  <2>4. client.end = 0
    BY <2>3, HttpOutputAssumption
  <2>5. client.got <= size - left'
    BY <1>3, <1>4, <2>2, <2>3, Lengths
  <2> QED
    BY <1>1, <1>2, <1>4, <2>1, <2>2, <2>3, <2>4, <2>5
<1> QED
  BY <1>5, <1>6

LEMMA StreamStep ==
    ASSUME SInv, [Next]_vars
    PROVE  InOrder' /\ BodyChunked' /\ ClientReads'
<1> USE DEF answer, buffers, chunk, request, socket
<1>1. CASE WriteHeaders
  <2>1. /\ pc = "begin" /\ pc' # "begin" /\ output' = Put(output, HeaderBytes)
        /\ UNCHANGED <<client, answer, left, chunkbuf, chunk, finalized, failed>>
        /\ chunking' = (kind = "chunked")
    BY <1>1 DEF WriteHeaders
  <2>2. /\ left = size /\ Len(chunkbuf.data) = 0 /\ Len(output.data) = 0 /\ txState = "start"
    BY <2>1 DEF SInv, Kinds, IInv, ChunkUnderWay
  <2>3. output'.data = output.data \o HeaderBytes
    <3>1. Header <= Room(output)
      <4>1. Room(output) = BufLen - 1 - 0
        BY <2>2, Lengths, RoomInPlace
      <4> QED
        BY <4>1, HttpOutputAssumption, BufLenAssumption
    <3> QED
      BY <2>1, <3>1, Lengths, HeaderPut, PutAppends
  <2>4. Reader = At(0, 0, 0, 0, 0) /\ Reader' = At(Header, 0, 0, 0, 0)
    <3>1. Handed = 0 /\ Handed' = 0
      BY <2>1, <2>2, Lengths DEF Handed
    <3>2. ~Ended /\ ~Ended'
      BY <2>1 DEF Ended
    <3> QED
      BY <2>1, <2>2, <3>1, <3>2 DEF Reader
  <2>5. InOrder'
    BY <2>1, <2>3, <2>4, HeaderPut, HeadersRead, PieceStep
  <2>6. BodyChunked'
    BY <2>1, <2>2 DEF BodyChunked
  <2>7. ClientReads'
    BY <2>1, Lengths, ClientKept
  <2> QED
    BY <2>5, <2>6, <2>7
<1>2. CASE WriteBlock
  <2>1. CASE PutBody
    BY <1>2, <2>1, BodyStep DEF WriteBlock, Flush
  <2>2. CASE Flush("write") /\ UNCHANGED <<left, buffers>>
    BY <1>2, <2>2, QuietStep DEF WriteBlock, Flush
  <2> QED
    BY <1>2, <2>1, <2>2 DEF WriteBlock
<1>3. CASE PutBlock
  <2>1. CASE PutBody
    BY <1>3, <2>1, BodyStep DEF PutBlock
  <2>2. CASE UNCHANGED <<left, buffers>>
    BY <1>3, <2>2, QuietStep DEF PutBlock
  <2> QED
    BY <1>3, <2>1, <2>2 DEF PutBlock
<1>4. CASE WriteEnd
  BY <1>4, QuietStep DEF WriteEnd
<1>5. CASE websDone
  BY <1>5, QuietStep DEF websDone, Flush
<1>6. CASE ChunkStart
  BY <1>6, QuietStep DEF ChunkStart, MoreChunks
<1>7. CASE ChunkHeader
  <2> DEFINE prefix == PrefixBytes(txChunkLen, 0)
  <2>1. /\ pc = "chunk" /\ txState = "header" /\ pc' # "begin"
        /\ UNCHANGED <<client, answer, left, chunkbuf, txChunkLen, chunking, finalized, failed>>
    BY <1>7 DEF ChunkHeader, MoreChunks
  <2>2. /\ txPrefixNext = 0 /\ txChunkLen + Reserve <= RoomForChunk /\ chunking
        /\ txChunkLen \in 1 .. Len(chunkbuf.data)
    BY <2>1 DEF SInv, IInv, ChunkUnderWay, ChunkFits
  <2>3. /\ txChunkLen \in 1 .. BufLen /\ Room(output) \in Nat
        /\ RoomForChunk = Room(output) - Reserve
    <3>1. Len(chunkbuf.data) <= BufLen - 1 /\ Len(chunkbuf.data) \in Nat
      BY Lengths DEF InPlace
    <3>2. Room(output) \in Nat
      BY Lengths, RoomInPlace
    <3> QED
      BY <2>2, <3>1, <3>2, BufLenAssumption DEF RoomForChunk
  <2>4. prefix \in Seq(Bytes) /\ Len(prefix) \in 1 .. Reserve
    BY <2>3, PrefixPut
  <2>5. output' = Put(output, prefix)
    BY <1>7, <2>2 DEF ChunkHeader
  <2>6. output'.data = output.data \o prefix
    <3>1. Len(prefix) <= Room(output)
      BY <2>2, <2>3, <2>4, HttpOutputAssumption
    <3> QED
      BY <2>4, <2>5, <3>1, Lengths, PutAppends
  <2>7. txState' = "data"
    <3>1. Len(output'.data) = Len(output.data) + Len(prefix)
      BY <2>4, <2>6, Lengths, ConcatProperties
    <3>2. Len(output'.data) - Len(output.data) = Len(prefix)
      BY <2>4, <3>1, Lengths
    <3> QED
      BY <1>7, <2>2, <2>5, <3>2 DEF ChunkHeader
  <2>8. Reader = At(Header, 0, 0, Handed, 0) /\ Reader' = At(Header, 0, txChunkLen, Handed, 0)
    BY <2>1, <2>2, <2>7 DEF Reader, Ended, Handed
  <2>9. ASSUME ~failed
        PROVE  Leads(Reader, prefix, Reader')
    <3>1. Handed \in Nat
      BY <2>8, <2>9, ReaderIsClient, ClientForm DEF At
    <3> QED
      BY <2>3, <2>8, <3>1, PrefixRead
  <2>10. InOrder'
    BY <2>1, <2>4, <2>6, <2>9, PieceStep
  <2>11. ClientReads'
    BY <2>1, Lengths, ClientKept
  <2>12. BodyChunked'
    BY <2>1 DEF SInv, BodyChunked, Handed
  <2> QED
    BY <2>10, <2>11, <2>12
<1>8. CASE ChunkData
  <2> DEFINE n == txChunkLen
             put == Straight(chunkbuf, n)
  <2>1. /\ pc = "chunk" /\ txState = "data" /\ pc' # "begin"
        /\ UNCHANGED <<client, answer, left, chunking, finalized, failed>>
    BY <1>8 DEF ChunkData, MoreChunks
  <2>2. /\ n \in 1 .. Len(chunkbuf.data) /\ n <= RoomForChunk /\ chunking
    BY <2>1 DEF SInv, IInv, ChunkUnderWay, ChunkFits
  <2>3. kind = "chunked"
    BY <2>2 DEF SInv, Kinds
  <2>4. Room(output) \in Nat /\ RoomForChunk = Room(output) - Reserve /\ Reserve \in Nat
    BY Lengths, RoomInPlace, HttpOutputAssumption DEF RoomForChunk
  <2>5. Least(RoomForChunk, n) = n
    BY <2>2, <2>4, Lengths DEF Least
  <2>6. /\ output' = Put(output, put) /\ txState' = "start"
        /\ chunkbuf' = Compact(AdjustStart(chunkbuf, n))
    BY <1>8, <2>5 DEF ChunkData
  <2>7. /\ put \in Seq(Bytes) /\ Len(put) = n
        /\ \A i \in 1 .. n : put[i] = chunkbuf.data[i]
    <3>1. n \in 0 .. Len(chunkbuf.data)
      BY <2>2, Lengths
    <3>2. put = SubSeq(chunkbuf.data, 1, n) /\ put \in Seq(Bytes) /\ Len(put) = n
      BY <3>1, Lengths, StraightInPlace
    <3>3. \A i \in 1 .. n : SubSeq(chunkbuf.data, 1, n)[i] = chunkbuf.data[i]
      BY <3>1, Lengths
    <3> QED
      BY <3>2, <3>3
  <2> HIDE DEF put
  <2>8. output'.data = output.data \o put
    <3>1. Len(put) <= Room(output)
      BY <2>2, <2>4, <2>7, Lengths
    <3> QED
      BY <2>6, <2>7, <3>1, Lengths, PutAppends
  <2>9. /\ chunkbuf'.data = SubSeq(chunkbuf.data, n + 1, Len(chunkbuf.data))
        /\ Len(chunkbuf'.data) = Len(chunkbuf.data) - n
        /\ \A i \in 1 .. Len(chunkbuf.data) - n : chunkbuf'.data[i] = chunkbuf.data[n + i]
    <3>1. chunkbuf'.data = SubSeq(chunkbuf.data, n + 1, Len(chunkbuf.data))
      BY <2>2, <2>6, Lengths, CompactInPlace
    <3>2. /\ Len(SubSeq(chunkbuf.data, n + 1, Len(chunkbuf.data))) = Len(chunkbuf.data) - n
          /\ \A i \in 1 .. Len(chunkbuf.data) - n :
                 SubSeq(chunkbuf.data, n + 1, Len(chunkbuf.data))[i] = chunkbuf.data[n + i]
      BY <2>2, Lengths
    <3> QED
      BY <3>1, <3>2
  <2>10. Handed' = Handed + n
    BY <2>1, <2>2, <2>9, Lengths DEF Handed
  <2>11. BodyChunked'
    <3> SUFFICES ASSUME NEW i \in 1 .. Len(chunkbuf.data) - n
                 PROVE  chunkbuf'.data[i] = Byte("body", Handed + n + i, 0)
      BY <2>9, <2>10 DEF BodyChunked
    <3>1. n + i \in 1 .. Len(chunkbuf.data) /\ Handed + n + i = Handed + (n + i)
      BY <2>2, Lengths
    <3>2. chunkbuf.data[n + i] = Byte("body", Handed + (n + i), 0)
      BY <3>1 DEF SInv, BodyChunked
    <3> QED
      BY <2>9, <3>1, <3>2
  <2>12. Reader = At(Header, 0, n, Handed, 0) /\ Reader' = At(Header, 0, 0, Handed + n, 0)
    BY <2>1, <2>2, <2>6, <2>10 DEF Reader, Ended
  <2>13. ASSUME ~failed
         PROVE  Leads(Reader, put, Reader')
    <3>1. Handed \in Nat /\ n \in Nat
      BY <2>2, <2>12, <2>13, ReaderIsClient, ClientForm, Lengths DEF At
    <3>2. \A i \in 1 .. n : put[i] = Byte("body", Handed + i, 0)
      BY <2>2, <2>7, Lengths DEF SInv, BodyChunked
    <3> QED
      BY <2>3, <2>7, <2>12, <3>1, <3>2, BodyRead
  <2>14. InOrder'
    BY <2>1, <2>7, <2>8, <2>13, PieceStep
  <2>15. ClientReads'
    BY <2>1, Lengths, ClientKept
  <2> QED
    BY <2>11, <2>14, <2>15
<1>9. CASE ChunkEnd
  <2>1. /\ pc = "chunk" /\ pc' # "begin" /\ chunking
        /\ UNCHANGED <<client, answer, left, chunkbuf, chunk, finalized, failed>>
    BY <1>9 DEF ChunkEnd, SInv, IInv, ChunkUnderWay
  <2>2. CASE UNCHANGED <<output, chunking>>
    BY <2>1, <2>2, QuietStep
  <2>3. CASE AllChunked /\ output' = Put(output, TrailerBytes) /\ chunking' = FALSE
    <3>1. Len(chunkbuf.data) = 0 /\ kind = "chunked" /\ Reserve <= Room(output)
      BY <2>1, <2>3 DEF AllChunked, SInv, Kinds, IInv, ChunkUnderWay, ChunkFits
    <3>2. txState = "start"
      BY <3>1 DEF SInv, IInv, ChunkUnderWay, ChunkFits
    <3>3. output'.data = output.data \o TrailerBytes
      <4>1. Trailer <= Room(output)
        BY <3>1, Lengths, RoomInPlace, HttpOutputAssumption
      <4> QED
        BY <2>3, <4>1, Lengths, TrailerPut, PutAppends
    <3>4. Reader = At(Header, 0, 0, Handed, 0) /\ Reader' = At(Header, 0, 0, Handed, Trailer)
      BY <2>1, <2>3, <3>1, <3>2 DEF Reader, Ended, Handed
    <3>5. ASSUME ~failed
          PROVE  Leads(Reader, TrailerBytes, Reader')
      <4>1. Handed \in Nat
        BY <3>4, <3>5, ReaderIsClient, ClientForm DEF At
      <4> QED
        BY <3>1, <3>4, <4>1, TrailerRead
    <3>6. InOrder'
      BY <2>1, <3>3, <3>5, TrailerPut, PieceStep
    <3>7. BodyChunked'
      BY <2>1 DEF SInv, BodyChunked, Handed
    <3>8. ClientReads'
      BY <2>1, Lengths, ClientKept
    <3> QED
      BY <3>6, <3>7, <3>8
  <2> QED
    BY <1>9, <2>2, <2>3 DEF ChunkEnd
<1>10. ASSUME NEW n \in 1 .. BufLen, Send(n)
       PROVE  InOrder' /\ BodyChunked' /\ ClientReads'
  <2>1. /\ pc = "send" /\ pc' = pc /\ ~failed'
        /\ UNCHANGED <<answer, left, chunkbuf, chunk, chunking, finalized>>
    BY <1>10 DEF Send
  <2>2. /\ client' \in Clients /\ Len(output'.data) \in Nat
        /\ Leads(client', output'.data, Reader)
    BY <1>10, SendReads
  <2>6. Reader' = Reader /\ Handed' = Handed
    BY <2>1 DEF Reader, Ended, Handed
  <2>7. Leads(client', output'.data, Reader')
    BY <2>2, <2>6
  <2>8. InOrder'
    BY <2>1, <2>7, LeadsKept DEF InOrder
  <2>9. BodyChunked'
    BY <2>1 DEF SInv, BodyChunked, Handed
  <2>10. /\ client'.got <= Reader.got /\ client'.end <= Reader.end
         /\ client'.end = Trailer => client' = Reader
    <3>1. /\ client'.got <= Reader.got /\ client'.end <= Reader.end
          /\ client'.end = Trailer => Len(output'.data) = 0
          /\ Len(output'.data) = 0 => Reader = client'
      BY <2>2, <2>6, <2>7, LeadsGrow
    <3> QED
      BY <3>1
  <2>11. Reader.got = Handed /\ Reader.end = (IF Ended THEN Trailer ELSE 0)
    BY DEF Reader, At
  <2>12. client'.got \in Nat /\ client'.end \in Nat /\ Trailer \in Nat \ {0}
    BY <2>2, ClientForm, HttpOutputAssumption
  <2>13. client'.end > 0 => Ended /\ finalized /\ Len(chunkbuf.data) = 0
    BY <2>10, <2>11, <2>12 DEF SInv, Kinds, Ended
  <2>14. /\ client'.got <= size - left /\ (client'.end > 0 => finalized)
         /\ client'.end = Trailer => client'.got = size - left
    BY <2>10, <2>11, <2>12, <2>13, Lengths DEF Handed
  <2>15. ClientReads'
    <3>1. Clients' = Clients
      BY <2>1 DEF Clients
    <3> QED
      BY <2>1, <2>2, <2>14, <3>1 DEF ClientReads
  <2> QED
    BY <2>8, <2>9, <2>15
<1>11. CASE SocketFull
  BY <1>11, QuietStep DEF SocketFull, Return
<1>12. CASE SendFails
  BY <1>12, QuietStep DEF SendFails, Return
<1>13. CASE FlushEnd
  BY <1>13, QuietStep DEF FlushEnd, Return
<1>14. CASE FileWrite
  <2>1. /\ pc = "file" /\ ~failed /\ ~failed'
        /\ UNCHANGED <<answer, buffers, chunk, chunking, finalized>>
    BY <1>14 DEF FileWrite
  <2>2. /\ Len(output.data) = 0 /\ Len(chunkbuf.data) = 0
        /\ Reader' \in Clients /\ client' = Reader'
        /\ client' = At(Header, 0, 0, size - left', 0)
    BY <1>14, FileReads
  <2>3. InOrder'
    <3>1. Leads(client', output'.data, Reader')
      <4> DEFINE run == [i \in 0 .. 0 |-> Reader']
      <4>1. Len(output'.data) = 0
        BY <2>1, <2>2
      <4>2. IsRun(run, output'.data)
        BY <2>2, <4>1 DEF IsRun
      <4> QED
        BY <2>2, <4>1, <4>2 DEF Leads
    <3> QED
      BY <2>1, <3>1, LeadsKept DEF InOrder
  <2>4. BodyChunked'
    BY <2>1, <2>2 DEF BodyChunked
  <2>5. ClientReads'
    <3>1. Clients' = Clients
      BY <2>1 DEF Clients
    <3>2. client'.got = size' - left' /\ client'.end = 0
      BY <2>1, <2>2 DEF At
    <3>3. Trailer # 0 /\ ~ (0 > 0)
      BY HttpOutputAssumption
    <3>4. size - left' <= size - left' /\ size - left' \in Int
      BY <1>14, FileReads, Lengths
    <3> QED
      BY <2>1, <2>2, <3>1, <3>2, <3>3, <3>4 DEF ClientReads
  <2> QED
    BY <2>3, <2>4, <2>5
<1>15. CASE FileFails
  <2>1. /\ failed' /\ kind = "file" /\ UNCHANGED <<answer, buffers, finalized>>
        /\ client' \in Clients /\ client'.got <= size - left' /\ client'.end = 0
    BY <1>15, FileBreaks
  <2>2. Len(chunkbuf'.data) = 0
    BY <2>1, <1>15 DEF FileFails, SInv, Kinds, IInv, Finalizing, ChunkUnderWay
  <2>3. ClientReads'
    <3>1. Clients' = Clients
      BY <2>1 DEF Clients
    <3>2. Trailer # 0 /\ ~ (0 > 0)
      BY HttpOutputAssumption
    <3> QED
      BY <2>1, <3>1, <3>2 DEF ClientReads
  <2> QED
    BY <2>1, <2>2, <2>3 DEF InOrder, BodyChunked
<1>16. CASE FileEnd
  BY <1>16, QuietStep DEF FileEnd
<1>17. CASE Pump
  BY <1>17, QuietStep DEF Pump
<1>18. CASE EventEnd
  BY <1>18, QuietStep DEF EventEnd
<1>19. CASE WritableEvent
  BY <1>19, QuietStep DEF WritableEvent, Flush
<1>20. CASE Timeout
  BY <1>20, QuietStep DEF Timeout
<1>21. CASE UNCHANGED vars
  <2>1. kind' = kind /\ Reader' = Reader /\ Clients' = Clients
    BY <1>21 DEF vars, Reader, Handed, Ended, Clients
  <2>2. ~failed => Leads(client', output'.data, Reader')
    BY <1>21, <2>1 DEF vars, SInv, InOrder
  <2>3. InOrder'
    BY <1>21, <2>1, <2>2, LeadsKept DEF vars, InOrder
  <2> QED
    BY <1>21, <2>1, <2>3 DEF vars, SInv, BodyChunked, ClientReads, Handed
<1> QED
  BY <1>1, <1>2, <1>3, <1>4, <1>5, <1>6, <1>7, <1>8, <1>9, <1>10, <1>11, <1>12, <1>13,
     <1>14, <1>15, <1>16, <1>17, <1>18, <1>19, <1>20, <1>21 DEF Next, Thread

LEMMA InitSInv ==
    ASSUME Init
    PROVE  SInv
<1>1. /\ IInv /\ left = size /\ size \in Nat /\ client = At(0, 0, 0, 0, 0)
      /\ Len(output.data) = 0 /\ Len(chunkbuf.data) = 0
  BY InitIInv, EmptyInPlace, HttpOutputAssumption DEF Init, NewClient, At
<1>2. Header \in Nat /\ Trailer \in Nat \ {0}
  BY HttpOutputAssumption, BufLenAssumption
<1>3. client \in Clients
  BY <1>1, <1>2, ClientAt
<1>4. ClientReads
  BY <1>1, <1>2, <1>3 DEF ClientReads, At
<1>5. Reader = client
  BY <1>1 DEF Init, Reader, Handed, Ended
<1>6. InOrder
  <2> DEFINE run == [i \in 0 .. 0 |-> client]
  <2>1. IsRun(run, output.data)
    BY <1>1, <1>3 DEF IsRun
  <2> QED
    BY <1>1, <1>5, <2>1 DEF InOrder, Leads
<1>7. BodyChunked
  BY <1>1 DEF BodyChunked
<1>8. Kinds /\ Ending
  BY <1>1 DEF Init, Kinds, Ended, Flushing, Ending
<1> QED
  BY <1>1, <1>4, <1>6, <1>7, <1>8 DEF SInv

(* The client gets what the handler or the file has given, in this order,  *)
(* and after the end nothing moves.                                        *)
LEMMA FlowStep ==
    ASSUME SInv, [Next]_vars
    PROVE  /\ size' = size /\ left' \in 0 .. left /\ client.got <= client'.got
           /\ client.end = Trailer => left' = left /\ client' = client
<1> USE DEF answer, request
<1>1. /\ left \in 0 .. size /\ size \in Nat /\ client.got \in Nat /\ client \in Clients
      /\ client.end = Trailer => kind = "chunked" /\ finalized
  <2>1. Trailer > 0
    BY HttpOutputAssumption
  <2> QED
    BY <2>1, Lengths, ClientForm DEF SInv, ClientReads
<1>2. CASE UNCHANGED <<answer, left, client>>
  BY <1>1, <1>2
<1>3. ASSUME PutBody, pc \in {"write", "put"}, UNCHANGED <<answer, client>>
      PROVE  /\ size' = size /\ left' \in 0 .. left /\ client.got <= client'.got
             /\ client.end = Trailer => left' = left /\ client' = client
  <2>1. Room(Op) \in Nat
    BY Lengths, RoomInPlace DEF Op
  <2>2. left' \in 0 .. left
    BY <1>1, <1>3, <2>1 DEF PutBody, Least
  <2>3. ~finalized
    BY <1>3 DEF SInv, IInv, Finalizing
  <2> QED
    BY <1>1, <1>3, <2>2, <2>3
<1>4. CASE WriteBlock
  BY <1>2, <1>3, <1>4 DEF WriteBlock, Flush
<1>5. CASE PutBlock
  BY <1>2, <1>3, <1>5 DEF PutBlock
<1>6. ASSUME NEW n \in 1 .. BufLen, Send(n)
      PROVE  /\ size' = size /\ left' \in 0 .. left /\ client.got <= client'.got
             /\ client.end = Trailer => left' = left /\ client' = client
  <2>1. size' = size /\ left' = left
    BY <1>6 DEF Send
  <2>2. client.got <= client'.got
    BY <1>6, SendReads, LeadsGrow
  <2>3. client.end # Trailer
    <3>1. Leads(client, output.data, Reader) /\ Len(output.data) # 0
      BY <1>6, SendReads, Lengths
    <3> QED
      BY <3>1, LeadsGrow, Lengths
  <2> QED
    BY <1>1, <2>1, <2>2, <2>3
<1>7. CASE FileWrite
  <2>1. /\ kind = "file" /\ left' \in 0 .. left
        /\ client = At(Header, 0, 0, size - left, 0)
        /\ client' = At(Header, 0, 0, size - left', 0)
    BY <1>7, FileReads
  <2>2. client.got = size - left /\ client'.got = size - left'
    BY <2>1 DEF At
  <2>3. size' = size
    BY <1>7 DEF FileWrite
  <2>4. size - left <= size - left'
    <3>1. left \in Int /\ left' \in Int /\ left' <= left /\ size \in Int
      BY <1>1, <2>1
    <3>2. \A s, l, k \in Int : k <= l => s - l <= s - k
      OBVIOUS
    <3> QED
      BY <3>1, <3>2
  <2> QED
    BY <1>1, <2>1, <2>2, <2>3, <2>4
<1>8. CASE FileFails
  <2>1. /\ kind = "file" /\ size' = size /\ left' \in 0 .. left
        /\ client.got <= client'.got
    BY <1>8, FileBreaks
  <2> QED
    BY <1>1, <2>1
<1>9. ASSUME \/ WriteHeaders \/ WriteEnd \/ websDone
             \/ ChunkStart \/ ChunkHeader \/ ChunkData \/ ChunkEnd
             \/ SocketFull \/ SendFails \/ FlushEnd \/ FileEnd \/ Pump \/ EventEnd
             \/ WritableEvent \/ Timeout \/ UNCHANGED vars
      PROVE  UNCHANGED <<answer, left, client>>
  BY <1>9 DEF WriteHeaders, WriteEnd, websDone, ChunkStart, ChunkHeader, ChunkData,
     ChunkEnd,
     SocketFull, SendFails, FlushEnd, FileEnd, Pump, EventEnd, WritableEvent, Timeout, vars
<1> QED
  BY <1>2, <1>4, <1>5, <1>6, <1>7, <1>8, <1>9 DEF Next, Thread

(* The inductive invariant of the stream holds in every state.             *)
THEOREM StreamInvariant == Spec => []SInv
<1>1. SInv /\ [Next]_vars => SInv'
  <2> SUFFICES ASSUME SInv, [Next]_vars PROVE SInv'
    OBVIOUS
  <2>1. IInv'
    BY StepIInv DEF SInv
  <2> QED
    BY <2>1, StreamStep, ControlStep DEF SInv
<1> QED
  BY <1>1, InitSInv, PTL DEF Spec

(* However the buffers cut the stream and however little the socket takes, *)
(* the client never meets a byte that is out of place.                     *)
THEOREM WireAlwaysInOrder == Spec => []WireInOrder
<1>1. SInv => WireInOrder
  BY DEF SInv, ClientReads, Clients, WireInOrder
<1> QED
  BY <1>1, StreamInvariant, PTL

(* Over a connection that does not break, an answer that is over misses    *)
(* what the handler could not write and what chunkbuf held, and no more.   *)
THEOREM NothingElseEverLost == Spec => []NothingElseLost
<1>1. SInv => NothingElseLost
  <2> SUFFICES ASSUME SInv, pc = "over", ~failed
               PROVE  /\ client.head = Header
                      /\ client.got + Len(chunkbuf.data) + left = size
                      /\ kind = "file" => left = 0
                      /\ kind = "chunked" /\ chunkbuf.data = <<>> => client.end = Trailer
    BY DEF NothingElseLost
  <2>1. /\ finalized /\ Len(output.data) = 0 /\ (chunking => Len(chunkbuf.data) > 0)
        /\ kind = "file" => left = 0
    BY DEF SInv, Ending, Kinds
  <2>2. client = Reader
    BY <2>1, ReaderIsClient
  <2>3. /\ client.head = Header /\ client.got = Handed
        /\ client.end = IF Ended THEN Trailer ELSE 0
    BY <2>2 DEF Reader, At
  <2>4. client.got + Len(chunkbuf.data) + left = size
    BY <2>3, Lengths DEF Handed
  <2>5. kind = "chunked" /\ chunkbuf.data = <<>> => client.end = Trailer
    <3>1. chunkbuf.data = <<>> => ~ chunking
      BY <2>1, EmptySeq
    <3> QED
      BY <2>3, <3>1 DEF Ended
  <2> QED
    BY <2>1, <2>3, <2>4, <2>5
<1> QED
  BY <1>1, StreamInvariant, PTL

(* The bytes of the body flow as ByteStream promises: in every step the    *)
(* client gets more of what was taken from the handler, or nothing, and    *)
(* after the end nothing at all.                                           *)
THEOREM StreamImplemented == Spec => ImplementsStream
<1>1. Init => Wire!StreamInit
  <2> SUFFICES ASSUME Init PROVE Wire!StreamInit
    OBVIOUS
  <2>1. size \in Nat /\ left = size /\ client.got = 0 /\ client.end = 0 /\ Trailer # 0
    BY HttpOutputAssumption DEF Init, NewClient
  <2> QED
    BY <2>1 DEF Wire!StreamInit
<1>2. SInv /\ SInv' /\ [Next]_vars =>
          [Wire!Flow]_<<size - left, client.got, client.end = Trailer>>
  <2> SUFFICES ASSUME SInv, SInv', [Next]_vars
               PROVE  [Wire!Flow]_<<size - left, client.got, client.end = Trailer>>
    OBVIOUS
  <2>1. /\ size' = size /\ left' \in 0 .. left /\ client.got <= client'.got
        /\ client.end = Trailer => left' = left /\ client' = client
    BY FlowStep
  <2>2. size \in Nat /\ left \in 0 .. size
    BY Lengths
  <2>3. client'.got <= size' - left' /\ (client'.end = Trailer => client'.got = size' - left')
    BY DEF SInv, ClientReads
  <2>4. CASE client.end = Trailer
    BY <2>1, <2>4
  <2>5. CASE client.end # Trailer
    <3>1. size' - left' >= size - left
      <4>1. left \in Int /\ left' \in Int /\ left' <= left /\ size \in Int
        BY <2>1, <2>2
      <4>2. \A s, l, k \in Int : k <= l => s - k >= s - l
        OBVIOUS
      <4>3. size' = size
        BY <2>1
      <4> QED
        BY <4>1, <4>2, <4>3
    <3>2. (client.end = Trailer) = FALSE /\ (client.end = Trailer)' \in BOOLEAN
      BY <2>5
    <3>3. Wire!Flow
      BY <2>1, <2>3, <2>5, <3>1, <3>2 DEF Wire!Flow
    <3> QED
      BY <3>3
  <2> QED
    BY <2>4, <2>5
<1> QED
  BY <1>1, <1>2, StreamInvariant, PTL DEF Spec, ImplementsStream, Wire!Stream

-----------------------------------------------------------------------------
(* Where the thread is between two events, counted down.                   *)
Calls ==
    IF caller = "event" THEN 10 ELSE IF caller = "background" THEN 8
    ELSE IF caller = "write" THEN 6 ELSE 3

Stage ==
    IF Flushing THEN Calls
    ELSE IF pc = "begin" THEN 11 ELSE IF pc = "event" THEN 9
    ELSE IF pc \in {"write", "file"} THEN 7 ELSE IF pc = "put" THEN 5
    ELSE IF pc = "done" THEN 4 ELSE IF pc = "pump" THEN 2 ELSE 0

(* Where a flush is within a chunk.                                        *)
Turn ==
    (IF txState = "start" THEN 4 ELSE IF txState = "header" THEN 2 ELSE 0)
        + (IF pc = "chunk" THEN 1 ELSE 0)

(* The first of these that a step changes gets smaller: bytes of the body  *)
(* to be written, places of the thread to be passed, bytes to be chunked,  *)
(* what is to be done for a chunk, bytes to be sent.                       *)
Nearer ==
    \/ left' < left
    \/ left' = left /\ Stage' < Stage
    \/ left' = left /\ Stage' = Stage /\ Len(chunkbuf'.data) < Len(chunkbuf.data)
    \/ /\ left' = left /\ Stage' = Stage /\ Len(chunkbuf'.data) = Len(chunkbuf.data)
       /\ \/ Turn' < Turn
          \/ Turn' = Turn /\ Len(output'.data) < Len(output.data)

(* A block is being written, or flushed for, only while there is one.      *)
BlockLeft == pc = "put" \/ (Flushing /\ caller = "write") => left > 0

(* Every step of the thread leaves less to do.                             *)
ThreadComesBack == [][Thread => Nearer]_vars

(* It stays so: what a block has left changes only when it is put.         *)
LEMMA BlockLeftStep ==
    ASSUME IInv, BlockLeft, [Next]_vars
    PROVE  BlockLeft'
<1> USE DEF BlockLeft, Flushing, answer, buffers, chunk, request, socket
<1>1. left \in 0 .. size /\ size \in Nat /\ Room(Op) \in Nat
  BY RoomInPlace, HttpOutputAssumption DEF IInv, Shape, TypeOK, Op
<1>2. CASE WriteBlock
  BY <1>1, <1>2 DEF WriteBlock, Flush
<1>3. CASE PutBlock
  BY <1>3 DEF PutBlock
<1>4. CASE WriteHeaders \/ WriteEnd \/ websDone \/ WritableEvent \/ Timeout
  BY <1>4 DEF WriteHeaders, WriteEnd, websDone, Flush, WritableEvent, Timeout
<1>5. CASE ChunkStart \/ ChunkHeader \/ ChunkData \/ ChunkEnd
  BY <1>5 DEF ChunkStart, ChunkHeader, ChunkData, ChunkEnd, MoreChunks
<1>6. CASE \E n \in 1 .. BufLen : Send(n)
  BY <1>6 DEF Send
<1>7. CASE SocketFull \/ SendFails \/ FlushEnd
  BY <1>7 DEF SocketFull, SendFails, FlushEnd, Return
<1>8. CASE FileWrite \/ FileFails \/ FileEnd \/ Pump \/ EventEnd
  BY <1>8 DEF FileWrite, FileFails, FileEnd, Pump, EventEnd
<1>9. CASE UNCHANGED vars
  BY <1>9 DEF vars
<1> QED
  BY <1>2, <1>3, <1>4, <1>5, <1>6, <1>7, <1>8, <1>9 DEF Next, Thread

(* Within a flush, no turn of its two loops is without effect.             *)
LEMMA FlushNearer ==
    ASSUME IInv, ChunkStart \/ ChunkHeader \/ ChunkData \/ ChunkEnd
                     \/ \E n \in 1 .. BufLen : Send(n)
    PROVE  Nearer
<1> USE DEF answer, buffers, chunk, request, socket
<1>1. /\ InPlace(output) /\ Len(output.data) \in Nat /\ Room(output) \in Nat
      /\ InPlace(chunkbuf) /\ Len(chunkbuf.data) \in Nat
      /\ txChunkLen \in 0 .. BufLen - 1
  BY RoomInPlace DEF IInv, Shape, TypeOK
<1>2. /\ left' = left /\ caller' = caller /\ pc \in {"chunk", "send"}
      /\ pc' \in {"chunk", "send"}
  BY DEF ChunkStart, ChunkHeader, ChunkData, ChunkEnd, MoreChunks, Send
<1>3. Stage' = Stage
  BY <1>2 DEF Stage, Calls, Flushing
<1>4. CASE ChunkStart
  BY <1>2, <1>3, <1>4 DEF ChunkStart, MoreChunks, Nearer, Turn
<1>5. CASE ChunkHeader
  <2>1. /\ pc = "chunk" /\ txState = "header" /\ chunkbuf' = chunkbuf
        /\ \/ txState' = "data" /\ pc' = pc
           \/ txState' = txState /\ pc' = "send"
    BY <1>5 DEF ChunkHeader, MoreChunks
  <2> QED
    BY <1>2, <1>3, <2>1 DEF Nearer, Turn
<1>6. CASE ChunkData
  <2> DEFINE n == Least(RoomForChunk, txChunkLen)
  <2>1. n \in 1 .. Len(chunkbuf.data)
    <3>1. txChunkLen \in 1 .. Len(chunkbuf.data)
      BY <1>6 DEF ChunkData, IInv, ChunkUnderWay, ChunkFits
    <3>2. RoomForChunk \in Int /\ RoomForChunk > 0
      BY <1>1, <1>6, HttpOutputAssumption DEF ChunkData, MoreChunks, RoomForChunk
    <3> QED
      BY <1>1, <3>1, <3>2 DEF Least
  <2> HIDE DEF n
  <2>2. chunkbuf' = Compact(AdjustStart(chunkbuf, n)) \/ chunkbuf' = AdjustStart(chunkbuf, n)
    BY <1>6 DEF ChunkData, n
  <2>3. Len(chunkbuf'.data) = Len(chunkbuf.data) - n
    <3>1. AdjustStart(chunkbuf, n).data = SubSeq(chunkbuf.data, n + 1, Len(chunkbuf.data))
      BY DEF AdjustStart
    <3>2. /\ Len(Compact(AdjustStart(chunkbuf, n)).data) = Len(chunkbuf.data) - n
          /\ Compact(AdjustStart(chunkbuf, n)).data
                = SubSeq(chunkbuf.data, n + 1, Len(chunkbuf.data))
      BY <1>1, <2>1, CompactInPlace
    <3> QED
      BY <2>2, <3>1, <3>2
  <2>4. Len(chunkbuf'.data) < Len(chunkbuf.data)
    BY <1>1, <2>1, <2>3
  <2> QED
    BY <1>2, <1>3, <2>4 DEF Nearer
<1>7. CASE ChunkEnd
  BY <1>2, <1>3, <1>7 DEF ChunkEnd, Nearer, Turn
<1>8. ASSUME NEW n \in 1 .. BufLen, Send(n)
      PROVE  Nearer
  <2>1. /\ n \in 1 .. Len(output.data) /\ output' = Compact(AdjustStart(output, n))
        /\ UNCHANGED <<pc, txState, chunkbuf>>
    BY <1>8 DEF Send, Sent
  <2>2. Len(output'.data) = Len(output.data) - n
    BY <1>1, <2>1, CompactInPlace
  <2>3. Len(output'.data) < Len(output.data)
    BY <1>1, <2>1, <2>2
  <2> QED
    BY <1>2, <1>3, <2>1, <2>3 DEF Nearer, Turn
<1> QED
  BY <1>4, <1>5, <1>6, <1>7, <1>8

(* Whatever the thread does next, it comes nearer to its end.              *)
LEMMA ThreadNearer ==
    ASSUME IInv, BlockLeft, Thread
    PROVE  Nearer
<1> USE DEF answer, buffers, chunk, request, socket
<1>1. /\ left \in Nat /\ Room(Op) \in Nat /\ FileBuf \in Nat \ {0}
      /\ caller \in {"none", "write", "done", "event", "background"}
  BY RoomInPlace, HttpOutputAssumption DEF IInv, Shape, TypeOK, Op
<1>2. ASSUME PutBody, left > 0, Room(Op) > 0
      PROVE  left' < left
  <2>1. left' = left - Least(Room(Op), left)
    BY <1>2 DEF PutBody
  <2> QED
    BY <1>1, <1>2, <2>1 DEF Least
<1>3. CASE WriteHeaders
  BY <1>3 DEF WriteHeaders, Nearer, Stage, Calls, Flushing
<1>4. CASE WriteBlock
  <2>1. CASE Flush("write") /\ left' = left
    BY <1>4, <2>1 DEF WriteBlock, Flush, Nearer, Stage, Calls, Flushing
  <2>2. CASE Room(Op) >= left /\ PutBody
    BY <1>1, <1>2, <1>4, <2>2 DEF WriteBlock, Nearer
  <2> QED
    BY <1>4, <2>1, <2>2 DEF WriteBlock
<1>5. CASE PutBlock
  <2>1. CASE pc' = "done" /\ left' = left
    BY <1>5, <2>1 DEF PutBlock, Nearer, Stage, Calls, Flushing
  <2>2. CASE Room(Op) > 0 /\ PutBody
    BY <1>2, <1>5, <2>2 DEF PutBlock, Nearer, BlockLeft
  <2> QED
    BY <1>5, <2>1, <2>2 DEF PutBlock
<1>6. CASE WriteEnd
  BY <1>6 DEF WriteEnd, Nearer, Stage, Calls, Flushing
<1>7. CASE websDone
  BY <1>7 DEF websDone, Flush, Nearer, Stage, Calls, Flushing
<1>8. CASE SocketFull \/ SendFails \/ FlushEnd
  <2>1. /\ pc = "send" /\ left' = left
        /\ \/ caller = "write" /\ pc' = "put"
           \/ caller = "done" /\ pc' = "pump"
           \/ caller = "event" /\ pc' = "event"
           \/ caller = "background" /\ pc' \in {"file", "pump"}
    BY <1>8 DEF SocketFull, SendFails, FlushEnd, Return
  <2> QED
    BY <2>1 DEF Nearer, Stage, Calls, Flushing
<1>9. CASE FileWrite
  <2> DEFINE n == Least(left, FileBuf)
  <2>1. PICK wrote \in 0 .. n :
            /\ left > 0 /\ left' = left - wrote /\ pc = "file"
            /\ wrote = n \/ pc' = "pump"
    BY <1>9 DEF FileWrite, SeekBack
  <2>2. n \in Nat \ {0}
    BY <1>1, <2>1 DEF Least
  <2> HIDE DEF n
  <2>3. CASE wrote = 0
    BY <1>1, <2>1, <2>2, <2>3 DEF Nearer, Stage, Calls, Flushing
  <2>4. CASE wrote # 0
    BY <1>1, <2>1, <2>2, <2>4 DEF Nearer
  <2> QED
    BY <2>3, <2>4
<1>10. CASE FileFails
  <2>1. left > 0 /\ left' = left - Least(left, FileBuf)
    BY <1>10 DEF FileFails
  <2>2. left' < left
    BY <1>1, <2>1 DEF Least
  <2> QED
    BY <2>2 DEF Nearer
<1>11. CASE FileEnd \/ Pump \/ EventEnd
  BY <1>11 DEF FileEnd, Pump, EventEnd, Nearer, Stage, Calls, Flushing
<1> QED
  BY <1>3, <1>4, <1>5, <1>6, <1>7, <1>8, <1>9, <1>10, <1>11, FlushNearer DEF Thread

(* No loop of a flush, of a write or of the file writer turns without end: *)
(* after each step of the thread less is left to do until it is back in    *)
(* the event loop, whatever the sizes and whatever the socket takes.       *)
THEOREM ThreadAlwaysComesBack == Spec => ThreadComesBack
<1>1. Init => BlockLeft
  BY DEF Init, BlockLeft, Flushing
<1>2. Spec => []BlockLeft
  BY <1>1, BlockLeftStep, OutputInvariant, PTL DEF Spec
<1>3. IInv /\ BlockLeft => [Thread => Nearer]_vars
  BY ThreadNearer
<1> QED
  BY <1>2, <1>3, OutputInvariant, PTL DEF Spec, ThreadComesBack
=============================================================================
