----------------------------- MODULE MCCaseServer -----------------------------
(* Instances of CaseServer: a detector over the disk's tables and one that, as   *)
(* hidden_process does, anti-joins one memory table with another.                *)
EXTENDS CaseServer
CONSTANTS r1, d1, m1, i1, v1

MCNoMemTables == <<>>
MCTwoMemTables == <<"mem_pslist", "mem_psscan">>
MCOneBuiltin == <<"disk_rule">>
MCMemBuiltin == <<"hidden_process">>
MCNeeds(d) == IF d = "hidden_process" THEN {"mem_psscan", "mem_pslist"} ELSE {}
MCReads(d) == IF d = "hidden_process" THEN {"mem_psscan", "mem_pslist"} ELSE {"disk"}
MCDrives(d) == IF d = "hidden_process" THEN {"mem_psscan"} ELSE {"disk"}
===============================================================================
