--------------------------- MODULE MCExperiment ---------------------------
(* Instances of Experiment for TLC. *)
EXTENDS Experiment, TLC

\* Nothing but equality of topics matters.
AnyTopic == Permutations(Topics)

\* Of every tick of 0.2 seconds three decimals are all there is; of a sum of such ticks
\* in binary they hardly ever are.
ExactTicks == {"exact"}
AnyTicks == {"exact", "drifted"}
KeepExact == [t \in ExactTicks |-> "exact"]
ToThreeDecimals == [t \in AnyTicks |-> "exact"]

NoFaults == {}
AllFaults == {"storage", "ledger", "epoch", "key"}
KeyFault == {"key"}

=============================================================================
