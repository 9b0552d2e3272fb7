------------------------------ MODULE MCIngest ------------------------------
(***************************************************************************)
(* Instances of Ingest.  The triage archive holds a file with one parser   *)
(* and the SYSTEM hive, which goes to two; the units cover every way a     *)
(* parser fails.                                                           *)
(***************************************************************************)
EXTENDS Ingest

MCTriage == {<<"evtx">>, <<"shimcache", "registry">>}
MCTriageSmall == {<<"browser">>}
MCDisk == {[files |-> {<<"bits", "cron">>}, amcache |-> "amcache"],
           [files |-> {}, amcache |-> "amcache2"]}
MCDiskSmall == {[files |-> {<<"eml">>}, amcache |-> "amcache"]}
MCNoDisk == {}
MCPhasesSmall == <<"processes", "psscan">>
MCPhases == <<"processes", "psscan", "network">>

MCKind == [u \in Units |->
             IF u \in {"registry", "browser"} THEN "loose"
             ELSE IF u = "bits" THEN "selfreport"
             ELSE IF u = "eml" THEN "quiet"
             ELSE IF u = "cron" THEN "both" ELSE "tx"]
=============================================================================
