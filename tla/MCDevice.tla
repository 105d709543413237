------------------------------ MODULE MCDevice ------------------------------
(***************************************************************************)
(* Instances of Device: a password, a flag and a number, each saved after  *)
(* the one before it.  What comes from outside may happen a few times in   *)
(* each behaviour, in one of several mixtures.                             *)
(***************************************************************************)
EXTENDS Device, TLC

CONSTANTS password, sntp, offset, x, y, r1, r2, r3

Order3 == <<password, sntp, offset>>

Default3 == password :> x @@ sntp :> Off @@ offset :> x

Bodies3 ==
  {password :> y, password :> Empty @@ sntp :> x, offset :> y,
   offset :> Empty @@ sntp :> Empty}

Time(minute, hour, day, month, weekday) ==
  [minute |-> minute, hour |-> hour, day |-> day, month |-> month, weekday |-> weekday]

(* The last minute of 2022 and what follows: Saturday becomes Sunday.      *)
Clock3 ==
  0 :> Time(59, 23, 31, 12, 6) @@ 1 :> Time(0, 0, 1, 1, 0) @@ 2 :> Time(1, 0, 1, 1, 0)

Every(n) == [kind |-> "any", from |-> 0, to |-> 0, step |-> n]

Through(a, b) == [kind |-> "range", from |-> a, to |-> b, step |-> 1]

Number(n) == [kind |-> "number", from |-> n, to |-> n, step |-> 1]

(* At minutes 59 and 1 on the weekend, every hour on the hour, and one     *)
(* that is not valid: from Friday to Sunday.                               *)
Schedules ==
  r1 :> Time({Through(59, 59), Number(1)}, {Every(1)}, {Every(1)}, {Every(1)}, {Through(6, 7)})
  @@ r2 :> Time({Every(60)}, {Every(1)}, {Every(1)}, {Every(1)}, {Every(1)})
  @@ r3 :> Time({Number(0)}, {Number(0)}, {Every(1)}, {Every(1)}, {Through(5, 0)})

Budget(s, r, u, f, l, m, t) ==
  [saves |-> s, rules |-> r, upgrades |-> u, failures |-> f, losses |-> l,
   minutes |-> m, syncs |-> t]

BudgetsSmall ==
  {Budget(2, 0, 0, 1, 0, 0, 0), Budget(1, 0, 1, 0, 0, 0, 0), Budget(0, 0, 3, 0, 0, 0, 0),
   Budget(0, 0, 1, 1, 0, 2, 0), Budget(0, 0, 0, 1, 3, 0, 0), Budget(0, 1, 0, 0, 0, 2, 0),
   Budget(1, 0, 0, 1, 0, 2, 2)}

(* Two requests and no restart.                                            *)
BudgetsSaves == {Budget(2, 0, 0, 0, 0, 0, 0)}
=============================================================================
