----------------------- MODULE MCNativePhaseScheduler -----------------------
(***************************************************************************)
(* Model-checking instances of NativePhaseScheduler.                       *)
(***************************************************************************)
EXTENDS NativePhaseScheduler

CONSTANTS r1, r2, r3, r4, w1

MCRequests == {r1, r2, r3, r4}
MCWaiters == {w1}

Shape(aot, slots, input, stage, closes) ==
    [aot |-> aot, workerSlots |-> slots, input |-> input, stage |-> stage,
     closes |-> closes]

\* A one-slot link, an input-sized AOT command that asks for every AOT worker, and a
\* command whose estimate exceeds the whole budget and that asks for more worker slots
\* than there are.  A failure of a link or of the large command closes admission, so two
\* such failures can race; one of the AOT command does not.
MCShapes == {Shape(FALSE, 1, 0, 1, TRUE),
             Shape(TRUE, 2, 3, 1, FALSE),
             Shape(FALSE, 3, 5, 1, TRUE)}

=============================================================================
