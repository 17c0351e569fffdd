------------------------------ MODULE SealedFile ------------------------------
(***************************************************************************)
(* RYU-SF01, crypto's write-once sealed files with random-access reads     *)
(* (sealed_file.rs). A file is written front to back in chunks, each bound *)
(* to its index and to whether it is the last; what is on disk is a prefix *)
(* of the bytes written, cut anywhere. A byte of plaintext is a value of   *)
(* its own, a sealed chunk is its plaintext and TagLen bytes more.         *)
(***************************************************************************)
EXTENDS Naturals, SequencesExt

CONSTANTS ChunkSize, HeaderLen, TagLen

ASSUME SizeAssumption == ChunkSize \in Nat \ {0} /\ HeaderLen \in Nat \ {0} /\ TagLen \in Nat \ {0}

\* SealedFileWriter::create: the chunks sealed so far, and the buffered one.
NewFile(key) == [key |-> key, chunks |-> <<>>, buffer |-> <<>>]

\* Mutant: every chunk that is full is taken for one in the middle.
SealChunkUnmarked(w, last) ==
  [w EXCEPT !.chunks = Append(@, [last |-> last /\ Len(w.buffer) < ChunkSize, data |-> w.buffer]),
            !.buffer = <<>>]

\* seal_chunk.
SealChunk(w, last) ==
  [w EXCEPT !.chunks = Append(@, [last |-> last, data |-> w.buffer]), !.buffer = <<>>]

\* write_plain: a full buffer is sealed only once more data follows.
WritePlain(w, data) ==
  LET Push(v, byte) ==
        LET room == IF Len(v.buffer) = ChunkSize THEN SealChunk(v, FALSE) ELSE v
        IN [room EXCEPT !.buffer = Append(@, byte)]
  IN FoldLeft(Push, w, data)

\* finish.
Finish(w) == SealChunk(w, TRUE)

ChunkBytes(chunk) == Len(chunk.data) + TagLen

\* The bytes of the file once all of them are on disk.
Size(w) == FoldLeft(LAMBDA n, chunk : n + ChunkBytes(chunk), HeaderLen, w.chunks)

-----------------------------------------------------------------------------
(* SealedFileReader, of the first size bytes of a file. *)

SealedChunk == ChunkSize + TagLen
Body(size) == size - HeaderLen

\* What the size says: so many chunks, and so much plaintext.
Full(size) == Body(size) \div SealedChunk
Rest(size) == Body(size) % SealedChunk
ChunkCount(size) == Full(size) + IF Rest(size) = 0 THEN 0 ELSE 1
PlaintextLen(size) == Full(size) * ChunkSize + IF Rest(size) = 0 THEN 0 ELSE Rest(size) - TagLen

WellSized(size) == size >= HeaderLen + TagLen /\ (Rest(size) = 0 \/ Rest(size) >= TagLen)

\* Mutant: the mark of the last chunk is not part of what is verified.
LoadsUnmarked(w, size, i) ==
  LET last == i + 1 = ChunkCount(size)
      len == IF last THEN PlaintextLen(size) - i * ChunkSize ELSE ChunkSize
  IN /\ i < Len(w.chunks)
     /\ Len(w.chunks[i + 1].data) = len
     /\ HeaderLen + i * SealedChunk + len + TagLen <= size

\* load_chunk: chunk i, counted from 0, is all there and opens as what it is read as.
Loads(w, size, i) ==
  LET last == i + 1 = ChunkCount(size)
      len == IF last THEN PlaintextLen(size) - i * ChunkSize ELSE ChunkSize
  IN /\ i < Len(w.chunks)
     /\ w.chunks[i + 1].last = last
     /\ Len(w.chunks[i + 1].data) = len
     /\ HeaderLen + i * SealedChunk + len + TagLen <= size

\* open: the last chunk is verified, under a key held.
Opens(w, size, keys) ==
  w.key \in keys /\ WellSized(size) /\ Loads(w, size, ChunkCount(size) - 1)

NotRead == <<"error">>
Least(a, b) == IF a < b THEN a ELSE b

\* read_range: only the chunks of the range are opened.
ReadRange(w, size, start, len) ==
  LET end == Least(start + len, PlaintextLen(size))
      at(p) == w.chunks[(p \div ChunkSize) + 1].data[(p % ChunkSize) + 1]
  IN IF start >= end THEN <<>>
     ELSE IF \A i \in (start \div ChunkSize)..((end - 1) \div ChunkSize) : Loads(w, size, i)
     THEN [n \in 1..(end - start) |-> at(start + n - 1)]
     ELSE NotRead
=============================================================================
