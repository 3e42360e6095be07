------------------------------- MODULE Money -------------------------------
(***************************************************************************)
(* The two roundings every amount of the banking system goes through.      *)
(* Amounts are numbers of HALF CENTS: the routes accept any float above 0  *)
(* (transferRoutes.js:22), a fraction of a cent other than one half rounds *)
(* the same way on both sides of a transfer, and one half does not.        *)
(***************************************************************************)
EXTENDS Integers

\* A number of whole cents.
WholeCents(x) == x % 2 = 0

\* Number(x).toFixed(2): a tie goes up or down with the binary fraction that
\* happens to stand for x, so both outcomes are possible.
ToFixed(x) == IF WholeCents(x) THEN {x} ELSE {x - 1, x + 1}

\* A value stored in a NUMERIC(18,2) column: ties go away from zero.
Numeric(x) == IF WholeCents(x) THEN x ELSE x + 1
=============================================================================
