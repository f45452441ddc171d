------------------------------ MODULE MCBundle ------------------------------
(***************************************************************************)
(* Small instances of Bundle.                                              *)
(***************************************************************************)
EXTENDS Bundle, MCReservationRuntime

\* A large resource and a small one.
LargeAndSmall == {Pub(1, 1, "w1", 1, 4, {}), Pub(2, 1, "w1", 1, 1, {})}

First == Req("q1", "Hard", 1, W(0, 2))
Second == Req("q2", "Hard", 1, W(0, 1))
Large == Req("q1", "Hard", 3, W(0, 2))
AlsoLarge == Req("q2", "Hard", 3, W(0, 1))

\* Asks for the small resource, while holds go to the one with most headroom.
Targeted == [Second EXCEPT !.targetResource = 2]

\* What callers commit besides bundles.
Alone == {Second}

\* None; two that fit; a request twice, before another; two that do not fit
\* together; one whose hold is on another resource.
FiveBundles ==
  {<<>>, <<First, Second>>, <<First, First, Second>>, <<Large, AlsoLarge>>,
   <<First, Targeted>>}

CallerHold == {HoldOf(1, 1, 1, W(0, 1), TRUE)}

FullResource == {Pub(1, 1, "w1", 1, 3, {})}
FullMember == {Large}
FullBundle == {<<Large>>}

=============================================================================
