------------------------ MODULE MCDeletionLifecycle ------------------------
(***************************************************************************)
(* User u1 has two PDFs and may make two requests, the second after the    *)
(* first was cancelled; two API calls, two overlapping scans and two tasks *)
(* at once.                                                                *)
(***************************************************************************)
EXTENDS DeletionLifecycle, TLC

CONSTANTS u1, d1, d2, f1, f2, c1, c2, s1, s2, j1, j2

MCUsers == {u1}
TwoRows == {d1, d2}
TwoRowUser == [d \in TwoRows |-> u1]
OneRow == {d1}
OneRowUser == [d \in OneRow |-> u1]
MCPdfs == {f1, f2}
MCPdfUser == [f \in MCPdfs |-> u1]
MCCalls == {c1, c2}
MCCallUser == [c \in MCCalls |-> u1]
TwoScans == {s1, s2}
OneScan == {s1}
MCJobs == {j1, j2}
=============================================================================
