--------------------------- MODULE MCPaymentFlow ---------------------------
(* Instances of PaymentFlow for TLC.                                         *)
EXTENDS PaymentFlowProperties

CONSTANTS a, b, q, m, n

ASSUME PaymentFlowAssumption

MCAmounts  == [p \in Payments |-> IF p = b THEN 2 ELSE 1]
MCOne      == [p \in Payments |-> 1]
MCSame     == [p \in Payments |-> m]
MCTwo      == [p \in Payments |-> IF p = b THEN n ELSE m]

Yes(action, method, secret) ==
    [yes |-> TRUE, action |-> action, max |-> 2, method |-> method, secret |-> secret]
MCNo      == [yes |-> FALSE, action |-> "none", max |-> 2, method |-> "auto", secret |-> FALSE]
MCSimple  == {MCNo, Yes("none", "auto", FALSE)}

\* Answers that change the lists, choose the method or bring a key along.
MCLists   == {Yes("add_whitelist", "auto", TRUE), Yes("add_blacklist", "session_key", FALSE),
              Yes("remove_whitelist", "magicblock", FALSE), Yes("remove_blacklist", "auto", FALSE)}
=============================================================================
