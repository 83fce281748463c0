---------------------------- MODULE MCPermitMoney ----------------------------
(***************************************************************************)
(* The first months of 2025 in two zones: the price of one changes with    *)
(* March.  The permits start on the 28th and the last day of January, and  *)
(* on 15 February at midnight, which in UTC is the day before.             *)
(***************************************************************************)
EXTENDS PermitMoney

Product(first, last, price) == [first |-> first, last |-> last, price |-> price]

MCProducts ==
    [dearer  |-> <<Product(DateOf(2025, 1, 1), DateOf(2025, 2, 28), 24),
                   Product(DateOf(2025, 3, 1), DateOf(2025, 12, 31), 32)>>,
     cheaper |-> <<Product(DateOf(2025, 1, 1), DateOf(2025, 12, 31), 16)>>]

MCStarts ==
    {At(DateOf(2025, 1, 28), 10), At(DateOf(2025, 1, 31), 10), At(DateOf(2025, 2, 14), 22)}

\* Before and after the ends of periods, some of them after the start of summer time.
MCMoments ==
    {At(DateOf(2025, 1, 10), 8), At(DateOf(2025, 2, 28), 7), At(DateOf(2025, 3, 14), 21),
     At(DateOf(2025, 3, 15), 3), At(DateOf(2025, 4, 14), 4),
     At(DateOf(2025, 5, 1), 4)}
==============================================================================
