-------------------------------- MODULE MCTax --------------------------------
(* A small instance of Tax for TLC.  Amounts are multiples of what the     *)
(* positions that four transactions leave can divide them by.              *)
EXTENDS Tax

Of(t, s, a, q, x) == [type |-> t, sec |-> s, account |-> a, qty |-> q, amt |-> x]

(* A fund bought at two prices and sold at a gain and at a loss, in part   *)
(* and more than is held; moved in without a cost and out; a purchase of   *)
(* no shares; a stock, whose pot is the other one; and income.             *)
MCMenu ==
    {Of("buy", "ETF", "a1", 1, 1440), Of("buy", "ETF", "a1", 2, 720),
     Of("buy", "ETF", "a1", 0, 720), Of("transfer", "ETF", "a2", 1, 0),
     Of("transfer_out", "ETF", "a1", 1, 0),
     Of("sell", "ETF", "a1", 1, 180), Of("sell", "ETF", "a1", 2, 2160),
     Of("sell", "ETF", "a2", 1, 2160),
     Of("buy", "GOOG", "a1", 1, 720), Of("sell", "GOOG", "a1", 1, 360),
     Of("sell", "GOOG", "a2", 2, 2160),
     Of("dividend", "ETF", "a1", 0, 180), Of("interest", NoSec, "a2", 0, 180)}
=============================================================================
