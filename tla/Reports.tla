------------------------------- MODULE Reports -------------------------------
(***************************************************************************)
(* What the dashboard tells an organization that it has spent, and the     *)
(* administrators that the gateway has earned: the one sums usage_logs,    *)
(* the other billing_transactions, both whatever is being written.         *)
(***************************************************************************)
EXTENDS Metering, Functions

\* One account per organization, and both are rows of a database.
ASSUME OrgsFinite == IsFiniteSet(Orgs)

CostOfRow == [row \in usageLog |-> row.cost]
RowsOf(o) == {row \in usageLog : Payer[row.req] = o}

\* total_cost_usd of get_analytics, which does not ask for a row's status.
TotalCost(o) == SumFunctionOnSet(CostOfRow, RowsOf(o))

\* revenue_usd of admin_view_revenue.
Revenue == SumFunctionOnSet(debited, Orgs)

FailedRowsOf(o) == {row \in RowsOf(o) : ~row.ok}
FailedCost(o) == SumFunctionOnSet(CostOfRow, FailedRowsOf(o))

TotalCosts == SumFunctionOnSet([o \in Orgs |-> TotalCost(o)], Orgs)
FailedCosts == SumFunctionOnSet([o \in Orgs |-> FailedCost(o)], Orgs)

(* At every moment an organization is shown as its cost what it was really *)
(* charged and, on top, the prices of its failed calls, which nobody paid; *)
(* and so the costs shown to all of them exceed the revenue shown to the   *)
(* administrators by just these (dashboard/routes.py:367).                 *)
ReportsAgree ==
  /\ \A o \in Orgs : TotalCost(o) = debited[o] + FailedCost(o)
  /\ TotalCosts = Revenue + FailedCosts

=============================================================================
