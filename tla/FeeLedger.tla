----------------------------- MODULE FeeLedger -----------------------------
(***************************************************************************)
(* What the fee table promises about the bills of the tax office, with     *)
(* everything of how it is loaded left out: no run, no range of years, no  *)
(* counting of numbers, no failure.                                        *)
(*                                                                         *)
(* Bills are issued and paid.  A bill may be noted as due while it is due, *)
(* and also later, as long as a receipt of it has still to be written,     *)
(* which will take the place of that row.  A receipt is written when it    *)
(* has been issued, and is never lost or changed again.                    *)
(***************************************************************************)
EXTENDS Naturals

CONSTANT Bill

VARIABLES
  issued,    \* bills that exist
  due,       \* bills with something left to pay
  receipts,  \* the number of payments made on each
  rows       \* the table: <<bill, number of the receipt>>, 0 while it is due

vars == <<issued, due, receipts, rows>>

Init ==
  /\ issued = {} /\ due = {}
  /\ receipts = [b \in Bill |-> 0]
  /\ rows = {}

Issue(b) ==
  /\ b \notin issued
  /\ issued' = issued \cup {b} /\ due' = due \cup {b}
  /\ UNCHANGED <<receipts, rows>>

Pay(b) ==
  /\ b \in due
  /\ receipts' = [receipts EXCEPT ![b] = @ + 1]
  /\ due' \in {due, due \ {b}}
  /\ UNCHANGED <<issued, rows>>

Unwritten(b) == \E k \in 1..receipts[b] : <<b, k>> \notin rows

NoteDue(b) ==
  /\ b \in due \/ Unwritten(b)
  /\ rows' = rows \cup {<<b, 0>>}
  /\ UNCHANGED <<issued, due, receipts>>

WriteReceipt(b) ==
  /\ \E k \in 1..receipts[b] :
       /\ <<b, k>> \notin rows
       /\ rows' = (rows \ {<<b, 0>>}) \cup {<<b, k>>}
  /\ UNCHANGED <<issued, due, receipts>>

Next == \E b \in Bill : Issue(b) \/ Pay(b) \/ NoteDue(b) \/ WriteReceipt(b)

Spec == Init /\ [][Next]_vars

-----------------------------------------------------------------------------
(* What follows from the promise *)

\* Whoever has settled a bill is asked for it only until his receipts are in
\* the table, and every receipt in it is one that was issued.
Balanced ==
  /\ \A b \in issued \ due :
       (\A k \in 1..receipts[b] : <<b, k>> \in rows) => <<b, 0>> \notin rows
  /\ \A b \in Bill, k \in Nat : k > receipts[b] => <<b, k>> \notin rows

\* A receipt in the table stays there, and the row of a due bill leaves it
\* only for one of its receipts.
KeepsReceipts ==
  [][\A b \in Bill, k \in Nat :
       <<b, k>> \in rows => \/ <<b, k>> \in rows'
                            \/ k = 0 /\ \E j \in 1..receipts[b] :
                                 <<b, j>> \in rows' \ rows]_vars
=============================================================================
