--------------------------- MODULE RequestReader ----------------------------
(***************************************************************************)
(* A stream of requests on its way through a Buffer and the parser, from   *)
(* a client's socket (Server::ReadProc) or from the appendable file        *)
(* (CommonOperation).  The client sends whole, well-formed requests; the   *)
(* socket hands them over in pieces of any size, the file in pieces of one *)
(* size, and a crash may have cut the file short.                          *)
(***************************************************************************)
EXTENDS Protocol

CONSTANTS
    Streams,          \* the sequences of requests that are sent
    kInitialCapacity, \* the capacity a Buffer is made with
    MaxFirstReads     \* bound on the sizes of all but the last read call of
                      \* one ReadToBuf

ASSUME ReaderAssumption == kInitialCapacity \in Nat \ {0} /\ MaxFirstReads \in Nat

VARIABLES
    source,    \* "socket" or "file"
    sent,      \* the requests sent, or written to the file
    size,      \* file: what one read asks for
    length,    \* how many of the bytes there are (all, for a socket)
    consumed,  \* how many of them have been read
    buffer, cache,
    handled,   \* the argument lists given to HandleCommand
    err,       \* did the last read end in the error reply
    garbled,   \* did one ReadToBuf overwrite its own bytes
    done       \* file: has the end been reached

vars == <<source, sent, size, length, consumed, buffer, cache, handled, err, garbled, done>>

Bytes(requests) == FlattenSeq([i \in DOMAIN requests |-> ToProtocolString(requests[i])])

Wire == SubSeq(Bytes(sent), 1, length)

Init ==
    /\ sent \in Streams
    /\ \/ source = "socket" /\ size = 0 /\ length = Len(Bytes(sent))
       \/ source = "file" /\ size \in 1..Len(Bytes(sent)) /\ length \in 0..Len(Bytes(sent))
    /\ consumed = 0 /\ buffer = NewBuffer(kInitialCapacity) /\ cache = EmptyCache
    /\ handled = <<>> /\ err = FALSE /\ garbled = FALSE /\ done = FALSE
-----------------------------------------------------------------------------
\* What an attempt to parse b may come to, depending on what lies behind it.
Attempts(b, c) == {TryParseFromBuffer(bytes, c, beyond) : bytes \in {b}, beyond \in {0, 1}}

\* The loop around TryParseFromBuffer: every request parsed is handled and the
\* cache cleared.
ParseAllMutant(b, c, requests) ==
    {[buffer  |-> result.buffer,
      cache   |-> IF result.parsed THEN EmptyCache ELSE result.cache,
      handled |-> IF result.parsed THEN Append(requests, result.cache.argv) ELSE requests,
      err     |-> result.err] : result \in Attempts(b, c)}

RECURSIVE ParseAll(_, _, _)

ParseAll(b, c, requests) ==
    UNION {IF result.parsed
           THEN ParseAll(result.buffer, EmptyCache, Append(requests, result.cache.argv))
           ELSE {[buffer |-> result.buffer, cache |-> result.cache, handled |-> requests,
                  err |-> result.err]}
           : result \in Attempts(b, c)}

\* bytes have been appended to b: parse what there is now.
Parse(b) ==
    \E result \in ParseAll(b, cache, handled) :
        /\ buffer' = result.buffer
        /\ cache' = result.cache
        /\ handled' = result.handled
        /\ err' = result.err

\* ReadToBuf: each read call stores its bytes at the offset given by the
\* previous call's count, not by the total.  reads has the sizes.
ReadToBuf(bytes, reads) ==
    LET Store(r, n) ==
            [buf   |-> Overwrite(r.buf, r.offset, SubSeq(bytes, r.total + 1, r.total + n)),
             total |-> r.total + n, offset |-> n]
    IN  FoldLeft(Store, [buf |-> Zeros(Len(bytes)), total |-> 0, offset |-> 0], reads).buf

\* How one ReadToBuf may come by its n bytes, in up to three read calls.
Reads(n) ==
    {<<n>>} \cup {r \in {<<i, n - i>> : i \in 1..MaxFirstReads} : r[2] > 0}
    \cup {r \in {<<i, j, n - i - j>> : i, j \in 1..MaxFirstReads} : r[3] > 0}

\* ReadProc, with n bytes to be read.  A garbled stream is not followed further.
ReadProc(n, reads) ==
    LET bytes == SubSeq(Wire, consumed + 1, consumed + n)
        buf   == ReadToBuf(bytes, reads)
    IN  /\ source = "socket" /\ ~garbled
        /\ Parse(AppendBytes(buffer, buf))
        /\ consumed' = consumed + n
        /\ garbled' = (garbled \/ buf # bytes)
        /\ UNCHANGED <<source, sent, size, length, done>>

\* One turn of CommonOperation's loop over the file.
ReadChunk ==
    LET n == IF consumed + size <= length THEN size ELSE length - consumed
    IN  /\ source = "file" /\ consumed < length
        /\ Parse(AppendBytes(buffer, SubSeq(Wire, consumed + 1, consumed + n)))
        /\ consumed' = consumed + n
        /\ UNCHANGED <<source, sent, size, length, garbled, done>>

\* Its end: what is left in the buffer is parsed once more.
ParseTheRestMutant ==
    /\ source = "file" /\ consumed = length /\ ~done
    /\ done' = TRUE
    /\ UNCHANGED <<source, sent, size, length, consumed, buffer, cache, handled, err, garbled>>

ParseTheRest ==
    /\ source = "file" /\ consumed = length /\ ~done
    /\ Parse(buffer)
    /\ done' = TRUE
    /\ UNCHANGED <<source, sent, size, length, consumed, garbled>>

Next ==
    \/ \E n \in 1 .. length - consumed : \E reads \in Reads(n) : ReadProc(n, reads)
    \/ ReadChunk
    \/ ParseTheRest

Spec == Init /\ [][Next]_vars
-----------------------------------------------------------------------------
\* However the bytes are cut into reads, and however the buffer is moved and
\* grown in between, the requests handled are the first ones sent, in order,
\* and what has been read and not handled is what is in the buffer: nothing is
\* lost, handled twice or handled with another request's arguments.  The one
\* exception is a ReadToBuf in which three reads find data: it overwrites its
\* own bytes.
StreamKept ==
    ~garbled => /\ IsPrefix(handled, sent)
                /\ Bytes(handled) \o Readable(buffer) = SubSeq(Wire, 1, consumed)

\* A client that sends nothing but well-formed requests is told "unidentified
\* request" only when a read ends right behind the '*' of a request
\* (protocol.cpp:57) or fills the buffer to its last byte, where strtoll reads
\* on behind the vector.
ErrorsOnlyAtStarOrFullBuffer ==
    err /\ ~garbled => Readable(buffer) = <<STAR>> \/ WritableBytes(buffer) = 0

\* Is there a whole request at the front of the buffer?
Waiting(b) == \E i \in DOMAIN sent : IsPrefix(ToProtocolString(sent[i]), Readable(b))

\* ReadProc leaves a whole request unhandled only when the read before it ended
\* between two arguments: the arguments kept in the cache (protocol.cpp:76)
\* are then counted twice.
StallsOnlyAfterAnArgument ==
    [][~garbled' /\ Waiting(buffer') => Waiting(buffer) \/ cache.argv # <<>>]_vars

\* A request left that way is handled with the next bytes that come, however
\* few: it is at most one read late.
AtMostOneReadLate ==
    [][Waiting(buffer) /\ ~garbled' => ~Waiting(buffer')]_vars

\* Restoring: every whole record of the file is handled, whatever the size of
\* the reads and wherever a crash cut the file.
EveryRecordLoaded ==
    done => \A n \in 0..Len(sent) :
                length >= Len(Bytes(SubSeq(sent, 1, n))) => Len(handled) >= n
=============================================================================
