----------------------- MODULE MCMonitoringScheduler -----------------------
(* Instances of MonitoringScheduler for TLC. *)
EXTENDS MonitoringScheduler, TLC

CONSTANTS p1, p2, batch, single

\* The batching provider has a fixed-interval policy, the other one none, as
\* BetterPark and ParkDepot would with a policy of their own.
IntervalOfBatch  == (batch :> 2) @@ (single :> 0)
IntervalOfSingle == (batch :> 0) @@ (single :> 2)
NoInterval       == (batch :> 0) @@ (single :> 0)

\* Retry-After headers.
Number(seconds) == [form |-> "number", ahead |-> seconds]
NoHeader        == {Number(0)}
NumberHeaders   == {Number(-1), Number(3)}
NoneOrDate      == {Number(0), [form |-> "date", ahead |-> 2]}

PlateSymmetry == Permutations({p1, p2})
=============================================================================
