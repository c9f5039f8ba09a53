----------------------------- MODULE MCReports -----------------------------
(* The two halves of the reports share no state: a behaviour moves one. *)
EXTENDS StockReports, TradeReports

VARIABLE half

vars == <<half, stockVars, tradeVars>>

MCSuppliers == {"s1", "s2"}
MCReasons   == {"damaged", "expired"}

Init == /\ half \in {"stock", "trade"} /\ StockInit /\ TradeInit
        /\ IF half = "stock" THEN paper = "price" ELSE ledger = <<>>
Next == /\ UNCHANGED half
        /\ \/ half = "stock" /\ StockNext /\ UNCHANGED tradeVars
           \/ half = "trade" /\ TradeNext /\ UNCHANGED stockVars
Spec == Init /\ [][Next]_vars
=============================================================================
