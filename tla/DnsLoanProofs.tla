---------------------------- MODULE DnsLoanProofs ----------------------------
(***************************************************************************)
(* What the loan protocol is for: whatever is lent can be put back.        *)
(***************************************************************************)
EXTENDS DnsLoan, TLAPS

LoanType == lent \subseteq Items /\ ledger \in [Items -> Values \cup {Nothing}]

LoanInv == LoanType /\ Covered

\* In every behaviour of the loan protocol each item on loan has an entry to
\* put it back to (backup.rs: "what the revert can undo is exactly what
\* reached the disk").
THEOREM LoanCovered == LoanSpec => []Covered
<1>1. LoanInit => LoanInv
  BY DEF LoanInit, LoanInv, LoanType, Covered
<1>2. LoanInv /\ [LoanNext]_loan => LoanInv'
  <2> SUFFICES ASSUME LoanInv, [LoanNext]_loan PROVE LoanInv'
    OBVIOUS
  <2> USE DEF LoanInv, LoanType, Covered
  <2>1. CASE Record
    BY <2>1 DEF Record
  <2>2. CASE Strike
    BY <2>2 DEF Strike
  <2>3. ASSUME NEW i \in Items, Lend(i) PROVE LoanInv'
    BY <2>3 DEF Lend
  <2>4. ASSUME NEW i \in Items, Return(i) PROVE LoanInv'
    BY <2>4 DEF Return
  <2>5. CASE UNCHANGED loan
    BY <2>5 DEF loan
  <2> QED
    BY <2>1, <2>2, <2>3, <2>4, <2>5 DEF LoanNext
<1>3. LoanInv => Covered
  BY DEF LoanInv
<1> QED
  BY <1>1, <1>2, <1>3, PTL DEF LoanSpec
=============================================================================
