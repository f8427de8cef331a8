------------------------ MODULE MCTransactionManager ------------------------
(* TransactionManager for TLC. *)
EXTENDS TransactionManager

CONSTANTS c1, c2

TwoCalls == {c1, c2}
=============================================================================
