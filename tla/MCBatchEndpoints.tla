-------------------------- MODULE MCBatchEndpoints --------------------------
(* Small instances of BatchEndpoints: a batch of three, over two workers   *)
(* when it is parallel.                                                    *)
EXTENDS BatchEndpoints

CONSTANTS r1, r2, r3

TwoRequests   == {r1, r2}
ThreeRequests == {r1, r2, r3}
OrderOfTwo    == <<r1, r2>>
OrderOfThree  == <<r1, r2, r3>>
EveryMode     == {"parallel", "sequential", "events"}
JustParallel  == {"parallel"}
EveryFault    == {"expire", "panic", "close", "leave"}
JustExpire    == {"expire"}
=============================================================================
