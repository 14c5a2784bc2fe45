------------------------------- MODULE DnsLoan -------------------------------
(***************************************************************************)
(* What a revert needs, whatever the mechanism: settings of the machine    *)
(* are on loan to this program, and a ledger on disk says what each of     *)
(* them has to be put back to. A setting is lent only once it is in the    *)
(* ledger, an entry never changes while it stands, and it is struck out    *)
(* only when nothing is owed any more for it.                              *)
(*                                                                         *)
(* The promise is the one core/src/backup.rs makes for the adapters' DNS   *)
(* and client/src/app.rs (claim_templates, withdraw_templates) for the DoH *)
(* templates; Protection implements it once for each.                      *)
(***************************************************************************)
CONSTANTS
  Items,    \* the settings that may be lent
  Values,   \* what the ledger may say of one
  Nothing   \* the ledger says nothing of it

VARIABLES
  lent,     \* the items that hold a value of ours
  ledger    \* ledger[i]: what i has to be put back to

loan == <<lent, ledger>>

LoanInit == lent = {} /\ ledger = [i \in Items |-> Nothing]

\* Entries are added; none that stands is touched.
Record ==
  /\ ledger' \in [Items -> Values \cup {Nothing}]
  /\ \A i \in Items : ledger[i] # Nothing => ledger'[i] = ledger[i]
  /\ UNCHANGED lent

Lend(i) ==
  /\ ledger[i] # Nothing
  /\ lent' = lent \cup {i}
  /\ UNCHANGED ledger

Return(i) ==
  /\ lent' = lent \ {i}
  /\ UNCHANGED ledger

\* Entries are struck out, of items that are not lent.
Strike ==
  /\ ledger' \in [Items -> Values \cup {Nothing}]
  /\ \A i \in Items : ledger'[i] = ledger[i]
                      \/ (ledger'[i] = Nothing /\ i \notin lent)
  /\ UNCHANGED lent

LoanNext ==
  \/ Record \/ Strike
  \/ \E i \in Items : Lend(i) \/ Return(i)

LoanSpec == LoanInit /\ [][LoanNext]_loan

\* Everything lent can be put back.
Covered == \A i \in lent : ledger[i] \in Values
=============================================================================
