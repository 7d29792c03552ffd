--------------------------- MODULE ExpenseLedger ---------------------------
(***************************************************************************)
(* The expense tools (tools/expense.py).  BUDGET.md holds the tranches of  *)
(* money that expenses are paid from, oldest first; the expenses are pages *)
(* in Notion.  Every tool reads the whole file, computes, and rewrites it. *)
(* The tools are functions that langchain runs in threads, so a call that  *)
(* was given up, or one of another bridge, may overlap the next one.       *)
(*                                                                         *)
(* Rates, dates and wording are left out, but for a date or category that  *)
(* is refused before anything is read.                                     *)
(***************************************************************************)
EXTENDS Integers, Sequences

CONSTANTS
    Payer,      \* threads that run one of the tools
    Amount,     \* amounts of expenses and tranches
    Empty,      \* the text of a file without the section of tranches
    MaxOrders   \* bound: calls begun

ASSUME LedgerAssumption == Amount \subseteq Nat /\ Empty \notin Seq(Nat)

VARIABLES
    file,      \* BUDGET.md: its tranches, or Empty
    order,     \* order[t]: the call of thread t and what it read
    added,     \* what the tranches were worth
    booked,    \* what Notion has, of what was deducted
    unbooked,  \* deducted, without a page in Notion so far, or ever
    stale,     \* history: a call rewrote the file over another's change
    wiped,     \* history: the file was read or left between truncation and write
    orders

ledgerVars == <<file, order, added, booked, unbooked, stale, wiped, orders>>
sums == <<added, booked, unbooked>>

NoOrder == [pc |-> "idle", op |-> "none", amount |-> 0, nr |-> 0, read |-> <<>>,
            old |-> FALSE]

LedgerInit ==
    /\ file = <<>>
    /\ order = [t \in Payer |-> NoOrder]
    /\ added = 0 /\ booked = 0 /\ unbooked = 0
    /\ stale = FALSE /\ wiped = FALSE
    /\ orders = 0

-----------------------------------------------------------------------------
(* The table of tranches. *)

\* _parse_tranches: an empty file has none.
Tranches(text) == IF text = Empty THEN <<>> ELSE text

\* _update_budget: without the section's heading the text stays as it is.
Updated(text, tranches) == IF text = Empty THEN Empty ELSE tranches

\* What remains in the first i of the tranches.
UpTo(tranches) ==
    LET sum[i \in 0 .. Len(tranches)] == IF i = 0 THEN 0 ELSE sum[i - 1] + tranches[i]
    IN  sum

Remaining(tranches) == UpTo(tranches)[Len(tranches)]

\* Mutant: an expense is taken from one tranche only.
FifoFromOne(amount, tranches) ==
    LET first == CHOOSE i \in DOMAIN tranches : tranches[i] > 0
    IN  [tranches EXCEPT ![first] = IF @ > amount THEN @ - amount ELSE 0]

\* _fifo_calculate: the oldest tranches first, each as far as it goes.
Fifo(amount, tranches) ==
    LET before(i) == UpTo(tranches)[i - 1]
        take(i) == IF amount <= before(i) THEN 0
                   ELSE IF amount - before(i) < tranches[i] THEN amount - before(i)
                   ELSE tranches[i]
    IN  [i \in DOMAIN tranches |-> tranches[i] - take(i)]

-----------------------------------------------------------------------------
(* The tools. *)

\* A tool begins and reads the file.
Read(t, op, amount, nr, pc) ==
    /\ order[t].pc = "idle" /\ orders < MaxOrders
    /\ orders' = orders + 1
    /\ order' = [order EXCEPT ![t] = [pc |-> pc, op |-> op, amount |-> amount, nr |-> nr,
                                      read |-> file, old |-> FALSE]]
    /\ wiped' = (wiped \/ \E u \in Payer : order[u].pc = "writing")
    /\ UNCHANGED <<file, sums, stale>>

\* An expense that the tranches cover is deducted; any other only goes to
\* Notion, without an amount in roubles.
AddExpense(t) ==
    \E amount \in Amount :
        Read(t, "expense", amount, 0,
             IF Remaining(Tranches(file)) >= amount THEN "saving" ELSE "unpaid")

AddTranche(t) == \E amount \in Amount : Read(t, "tranche", amount, 0, "saving")

\* The tranche's remainder becomes the new amount.
ReplaceTranche(t) ==
    \E amount \in Amount, nr \in DOMAIN Tranches(file) :
        Read(t, "replace", amount, nr, "saving")

\* open(..., "w"): the file is empty until the new text is written.
Truncate(t) ==
    /\ order[t].pc = "saving"
    /\ file' = Empty
    /\ order' = [order EXCEPT ![t].pc = "writing"]
    /\ UNCHANGED <<sums, stale, wiped, orders>>

\* The new text, computed from the one that was read.  A tranche that is added
\* to a file without the section is not in the text, and nobody is told.
Write(t) ==
    LET o == order[t]
        tranches == Tranches(o.read)
        new == CASE o.op = "expense" -> Fifo(o.amount, tranches)
                 [] o.op = "tranche" -> Append(tranches, o.amount)
                 [] o.op = "replace" -> [tranches EXCEPT ![o.nr] = o.amount]
    IN
    /\ o.pc = "writing"
    /\ file' = Updated(o.read, new)
    /\ order' = [u \in Payer |->
                   IF u = t
                   THEN IF o.op = "expense" THEN [o EXCEPT !.pc = "paid"] ELSE NoOrder
                   ELSE [order[u] EXCEPT !.old = order[u].pc # "idle"]]
    /\ added' = added + CASE o.op = "expense" -> 0
                          [] o.op = "tranche" -> o.amount
                          [] o.op = "replace" -> o.amount - tranches[o.nr]
    /\ unbooked' = unbooked + IF o.op = "expense" THEN o.amount ELSE 0
    /\ stale' = (stale \/ o.old)
    /\ UNCHANGED <<booked, wiped, orders>>

\* The page in Notion: created, or an error is returned, the budget is as it is.
CreatePage(t) ==
    LET o == order[t] IN
    /\ o.pc \in {"paid", "unpaid"}
    /\ \/ UNCHANGED <<booked, unbooked>>
       \/ /\ o.pc = "paid"
          /\ booked' = booked + o.amount /\ unbooked' = unbooked - o.amount
    /\ order' = [order EXCEPT ![t] = NoOrder]
    /\ UNCHANGED <<file, added, stale, wiped, orders>>

\* The process dies; a call that had deducted stays without its page.
LedgerCrash ==
    /\ \E t \in Payer : order[t].pc \notin {"idle", "unpaid"}
    /\ wiped' = (wiped \/ \E t \in Payer : order[t].pc = "writing")
    /\ order' = [t \in Payer |-> NoOrder]
    /\ UNCHANGED <<file, sums, stale, orders>>

LedgerNext ==
    \/ \E t \in Payer : \/ AddExpense(t) \/ AddTranche(t) \/ ReplaceTranche(t)
                        \/ Truncate(t) \/ Write(t) \/ CreatePage(t)
    \/ LedgerCrash

LedgerSpec == LedgerInit /\ [][LedgerNext]_ledgerVars

-----------------------------------------------------------------------------
(* Properties. *)

\* The money adds up: what the tranches were worth is what remains in them plus
\* the expenses deducted, those with a page and those without, whenever no call
\* is between its read and its write, as long as no two calls overlapped and no
\* write was interrupted.
BudgetBalances ==
    (/\ ~stale /\ ~wiped
     /\ \A t \in Payer : order[t].pc \in {"idle", "unpaid", "paid"}) =>
        /\ file # Empty
        /\ Remaining(file) = added - booked - unbooked

=============================================================================
