-------------------------- MODULE MCPortfolioLedger --------------------------
(***************************************************************************)
(* Transactions of one unit on two dates, a reverse split that does not    *)
(* come out even and a split that does, and figures that the columns do    *)
(* not keep: a purchase of 4/3 and a split whose first term is rounded to  *)
(* nothing.                                                                *)
(***************************************************************************)
EXTENDS PortfolioLedger

Of(kind, quantity, date) ==
    [kind |-> kind, quantity |-> quantity, from |-> 0, to |-> 0, date |-> date]

Split(from, to, date) ==
    [kind |-> "SPLIT", quantity |-> 0, from |-> from, to |-> to, date |-> date]

MCAsked ==
    {Of("BUY", 3, 1), Of("BUY", 3, 2), Of("BUY", 4, 2),
     Of("SELL", 3, 1), Of("SELL", 3, 2), Of("BONUS", 3, 2), Of("DIVIDEND", 3, 2),
     Split(9, 3, 2), Split(3, 9, 2), Split(1, 3, 1)}
=============================================================================
