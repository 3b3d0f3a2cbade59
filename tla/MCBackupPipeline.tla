-------------------------- MODULE MCBackupPipeline --------------------------
(* Small instances of BackupPipeline for TLC. *)
EXTENDS BackupPipeline

AllTieredLocal == {[s \in Servers |-> "tiered-local"]}
AllTieredNas == {[s \in Servers |-> "tiered-nas"]}
AllLocal == {[s \in Servers |-> "local"]}

\* A tiered-nas server beside a tiered-local or a local one.
NasAndAnother ==
    {[s \in Servers |-> IF s = AnyServer THEN "tiered-nas" ELSE t] :
        t \in {"tiered-local", "local"}}

\* The last minute in which each may begin a capture.
EveryMinute == [s \in Servers |-> MaxTime]
AnotherStopsSooner == [s \in Servers |-> IF s = AnyServer THEN MaxTime ELSE MaxTime - 1]

=============================================================================
