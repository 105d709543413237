----------------------------- MODULE MCTelemetry -----------------------------
(***************************************************************************)
(* An instance of Telemetry.  What comes from outside may happen a few     *)
(* times in each behaviour, in one of several mixtures.                    *)
(***************************************************************************)
EXTENDS Telemetry, TLC

CONSTANTS k1, k2

Budget(t, l, e, s) ==
  [telegrams |-> t, links |-> l, edits |-> e, stops |-> s]

BudgetsSmall ==
  {Budget(3, 1, 0, 0), Budget(1, 2, 0, 0), Budget(1, 1, 1, 0), Budget(0, 2, 1, 0),
   Budget(1, 1, 0, 1), Budget(0, 1, 2, 0)}

BudgetsEdits == {Budget(0, 1, 2, 0)}

BudgetsLinks == {Budget(0, 2, 0, 0)}
=============================================================================
