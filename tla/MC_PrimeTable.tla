------------------------------ MODULE MC_PrimeTable ------------------------------
EXTENDS PrimeTable

(* With the table of the code: arguments at both ends of the table, in the   *)
(* largest gap (between 1129 and 1151) and the tie of test.py.               *)
RealNumbers == {0, 4, 5, 6, 50, 1140, 1187, 1190, 1196, 1197, 1199, 1200, 1201}
===============================================================================
