---------------------------- MODULE MCPtySession ----------------------------
(* A TLC instance of PtySession: two callers of Close, of which k1 is the  *)
(* first.                                                                  *)
EXTENDS PtySession
K1First == closer["k1"] = "idle" => closer["k2"] = "idle"
OrderedSpec == Init /\ [][Next /\ K1First']_vars /\ CloseFair /\ WF_vars(ProgramReads)
=============================================================================
