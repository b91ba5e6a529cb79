------------------------------ MODULE Protocol ------------------------------
(***************************************************************************)
(* Requests as bytes: CommandCache::ToProtocolString (net/net.h) writes    *)
(* them, TryParseFromBuffer (net/protocol.cpp) reads them back.  A request *)
(* is a sequence of arguments, an argument a sequence of bytes.            *)
(***************************************************************************)
EXTENDS Buffer

EmptyCache == [argc |-> 0, argv |-> <<>>]

\* The decimal text of a number below a hundred.
Decimal(n) == IF n < 10 THEN <<DIGIT(n)>> ELSE <<DIGIT(n \div 10), DIGIT(n % 10)>>

ToProtocolString(argv) ==
    <<STAR>> \o Decimal(Len(argv)) \o CRLF
    \o FlattenSeq([i \in DOMAIN argv |-> <<DOLLAR>> \o Decimal(Len(argv[i])) \o CRLF \o argv[i] \o CRLF])
-----------------------------------------------------------------------------
(* TryParseFromBuffer: parsed is the value returned; beyond as in          *)
(* ReadLongFrom.                                                           *)

\* The subtractions from ReadableBytes are unsigned: below zero is huge.
AtLeast(b, cur_idx, n) == cur_idx > ReadableBytes(b) \/ ReadableBytes(b) - cur_idx >= n

Drop(b, err) == [parsed |-> FALSE, err |-> err, cache |-> EmptyCache, buffer |-> b]

\* The end of the loop over the arguments.
FinishParsingMutant(b, cache, cur_idx) ==
    [parsed |-> TRUE, err |-> FALSE, cache |-> cache, buffer |-> ReaderIdxForward(b, cur_idx)]

FinishParsingKeepsCache(b, cache, cur_idx) ==
    [parsed |-> cache.argc = Len(cache.argv), err |-> FALSE, cache |-> cache,
     buffer |-> IF cache.argc = Len(cache.argv) THEN ReaderIdxForward(b, cur_idx) ELSE b]

FinishParsing(b, cache, cur_idx) ==
    IF cache.argc # Len(cache.argv) THEN Drop(b, FALSE)
    ELSE [parsed |-> TRUE, err |-> FALSE, cache |-> cache, buffer |-> ReaderIdxForward(b, cur_idx)]

\* What is returned when the next argument has not come yet: the arguments
\* parsed so far stay in the cache.
NotEnoughData(b, cache) == [parsed |-> FALSE, err |-> FALSE, cache |-> cache, buffer |-> b]

\* One argument, then the n_para - 1 others.
RECURSIVE ParseArguments(_, _, _, _, _)

ParseArguments(b, cache, n_para, cur_idx, beyond) ==
    IF n_para = 0 THEN FinishParsing(b, cache, cur_idx)
    ELSE IF cur_idx >= ReadableBytes(b) THEN NotEnoughData(b, cache)
    ELSE IF ReadableCharacterAt(b, cur_idx) # DOLLAR THEN Drop(b, ReadableBytes(b) > cur_idx)
    ELSE LET next_arg_len == ReadLongFrom(b, cur_idx + 1, beyond)
             len_end == cur_idx + 1 + next_arg_len.step
             arg     == ReadStdStringFrom(b, len_end + 2, next_arg_len.value)
             arg_end == len_end + 2 + next_arg_len.value
         IN  IF next_arg_len.step = 0 THEN Drop(b, AtLeast(b, cur_idx + 1, 1))
             ELSE IF ReadStdStringFrom(b, len_end, 2) # CRLF THEN Drop(b, AtLeast(b, len_end, 2))
             ELSE IF Len(arg) # next_arg_len.value
                  THEN Drop(b, AtLeast(b, len_end + 2, next_arg_len.value))
             ELSE IF ReadStdStringFrom(b, arg_end, 2) # CRLF THEN Drop(b, AtLeast(b, arg_end, 2))
             ELSE ParseArguments(b, [cache EXCEPT !.argv = Append(@, arg)],
                                 n_para - 1, arg_end + 2, beyond)

TryParseFromBuffer(b, cache, beyond) ==
    LET n_para  == ReadLongFrom(b, 1, beyond)
        len_end == 1 + n_para.step
    IN  IF ReadableBytes(b) <= 0
        THEN [parsed |-> FALSE, err |-> FALSE, cache |-> cache, buffer |-> b]
        ELSE IF ReadStdString(b, 1) # <<STAR>>
        THEN [parsed |-> FALSE, err |-> TRUE, cache |-> cache, buffer |-> Reset(b)]
        ELSE IF n_para.step = 0 THEN Drop(b, ReadableBytes(b) > 0)
        ELSE IF ReadStdStringFrom(b, len_end, 2) # CRLF THEN Drop(b, AtLeast(b, len_end, 2))
        ELSE ParseArguments(b, [cache EXCEPT !.argc = n_para.value], n_para.value, len_end + 2, beyond)
=============================================================================
