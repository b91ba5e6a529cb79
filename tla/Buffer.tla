------------------------------- MODULE Buffer -------------------------------
(***************************************************************************)
(* Buffer (net/buffer.h, net/buffer.cpp): the bytes between p_reader_ and  *)
(* p_writer_ of a vector that is filled with zeros wherever nothing has    *)
(* been written.  The offsets count from 0 as in the code, the positions   *)
(* of data_ from 1.  A byte is its ASCII code.                             *)
(***************************************************************************)
EXTENDS Integers, Sequences, SequencesExt

NUL == 0
LF == 10
CR == 13
DOLLAR == 36
STAR == 42
DIGIT(n) == 48 + n

CRLF == <<CR, LF>>
Whitespace == {LF, CR}
Digits == 48..57

Zeros(n) == [i \in 1..n |-> NUL]

NewBuffer(capacity) == [data_ |-> Zeros(capacity), p_reader_ |-> 0, p_writer_ |-> 0]
-----------------------------------------------------------------------------
Capacity(b) == Len(b.data_)

WritableBytes(b) == Capacity(b) - b.p_writer_

ReadableBytes(b) == b.p_writer_ - b.p_reader_

PrependableBytes(b) == b.p_reader_

Readable(b) == SubSeq(b.data_, b.p_reader_ + 1, b.p_writer_)

\* The freed bytes at the end of what was readable are set to zero.  Source and
\* target of the memcpy may overlap; it is taken to copy as memmove does, which
\* glibc's does.
MoveReadableToHeadMutant(b) ==
    [data_ |-> Readable(b) \o SubSeq(b.data_, ReadableBytes(b) + 1, Capacity(b)),
     p_reader_ |-> 0, p_writer_ |-> ReadableBytes(b)]

MoveReadableToHead(b) ==
    LET can_free == PrependableBytes(b)
    IN  [data_ |-> [i \in DOMAIN b.data_ |->
                       IF i \in b.p_writer_ - can_free + 1 .. b.p_writer_ THEN NUL
                       ELSE IF i <= ReadableBytes(b) THEN b.data_[b.p_reader_ + i]
                       ELSE b.data_[i]],
         p_reader_ |-> 0, p_writer_ |-> b.p_writer_ - can_free]

EnsureBytesForWrite(b, n) ==
    CASE WritableBytes(b) >= n -> b
      [] WritableBytes(b) < n /\ n <= PrependableBytes(b) + WritableBytes(b) -> MoveReadableToHead(b)
      [] OTHER -> [data_ |-> Readable(b) \o Zeros(b.p_writer_ + n + 2 - ReadableBytes(b)),
                   p_reader_ |-> 0, p_writer_ |-> ReadableBytes(b)]

\* s with value written over the positions after offset.
Overwrite(s, offset, value) ==
    [i \in DOMAIN s |->
        IF i \in offset + 1 .. offset + Len(value) THEN value[i - offset] ELSE s[i]]

\* Append; the name belongs to Sequences.
AppendBytes(b, value) ==
    LET room == EnsureBytesForWrite(b, Len(value))
    IN  [room EXCEPT !.data_ = Overwrite(@, room.p_writer_, value),
                     !.p_writer_ = @ + Len(value)]

Reset(b) == NewBuffer(Capacity(b))

ReaderIdxForward(b, len) ==
    [b EXCEPT !.p_reader_ = IF len <= ReadableBytes(b) THEN @ + len ELSE b.p_writer_]
-----------------------------------------------------------------------------
(* Reading without consuming. *)

ReadStdString(b, len) == IF len > ReadableBytes(b) THEN <<>> ELSE SubSeq(Readable(b), 1, len)

ReadStdStringFrom(b, index, len) ==
    IF index >= ReadableBytes(b) THEN <<>>
    ELSE SubSeq(Readable(b), index + 1,
                IF index + len <= ReadableBytes(b) THEN index + len ELSE ReadableBytes(b))

ReadableCharacterAt(b, index) ==
    Readable(b)[IF index < ReadableBytes(b) THEN index + 1 ELSE ReadableBytes(b)]

\* How many bytes of s from position i on are in S.
RunOf(S, s, i) ==
    CHOOSE n \in 0 .. Len(s) - i + 1 :
        /\ \A j \in i .. i + n - 1 : s[j] \in S
        /\ i + n <= Len(s) => s[i + n] \notin S

\* strtoll stops at the first byte that is no digit.  It knows nothing of
\* p_writer_, nor of the end of data_: what lies behind the vector is given by
\* beyond, the number of digits there.
ReadLongFrom(b, index, beyond) ==
    LET at     == b.p_reader_ + index + 1
        start  == at + RunOf(Whitespace, b.data_, at)
        inside == RunOf(Digits, b.data_, start)
        count  == IF start + inside > Capacity(b) THEN inside + beyond ELSE inside
        value  == FoldLeft(LAMBDA v, d : 10 * v + (d - DIGIT(0)), 0,
                           SubSeq(b.data_, start, start + inside - 1))
    IN  IF index >= ReadableBytes(b) \/ count = 0 THEN [value |-> 0, step |-> 0]
        ELSE [value |-> value, step |-> start - at + count]
=============================================================================
