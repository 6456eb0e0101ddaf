--------------------------- MODULE MCStatementBatch ---------------------------
(* An instance of StatementBatch for TLC: setMaxRows is called with a negative *)
(* number, with 0 (no limit) and with a limit below Rows; the array of a plain *)
(* statement grows after nine entries, that of a prepared one with the first   *)
(* two.                                                                        *)
EXTENDS StatementBatch

MCLimits     == -1 .. 1
MCMaxEntries == [plain |-> 10, prepared |-> 2]
===============================================================================
