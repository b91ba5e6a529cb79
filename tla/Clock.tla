------------------------------- MODULE Clock --------------------------------
(***************************************************************************)
(* The wall clock the server reads (time_event.h: GetCurrentMs,            *)
(* GetCurrentSec, AddMillSecToNowMillSec) and the unsigned 64-bit numbers  *)
(* it computes deadlines in.  kMsPerSec is 1000 and U64 is 2^64 in the     *)
(* code.                                                                   *)
(***************************************************************************)
EXTENDS Integers

CONSTANTS kMsPerSec, U64, MaxTime

ASSUME ClockAssumption ==
    kMsPerSec \in Nat \ {0} /\ U64 \in Nat \ {0} /\ MaxTime \in Nat

VARIABLE now    \* milliseconds

GetCurrentSec == now \div kMsPerSec

AddMillSecToNowMillSec(interval) == (now + interval) % U64

Tick == now < MaxTime /\ now' = now + 1
=============================================================================
