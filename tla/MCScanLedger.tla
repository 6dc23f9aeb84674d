---------------------------- MODULE MCScanLedger ----------------------------
(* Instances of ScanLedger for TLC.                                        *)
EXTENDS ScanLedger, TLC

CONSTANTS r1, i1, c1, c2

\* Every image in one repository.
OneRepo == [i \in Images |-> r1]
=============================================================================
