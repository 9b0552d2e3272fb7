------------------------------- MODULE MCProgress -------------------------------
(* Two parsers of the first group and one of the second, under one line that was on *)
(* the terminal before.                                                              *)
EXTENDS Progress
MCNames == {"EVTX", "MFT", "mem:pslist"}
MCGroupOf(n) == IF n = "mem:pslist" THEN "Memory" ELSE "Disk / Triage"
MCAbove == <<<<"above", "">>>>
=================================================================================
