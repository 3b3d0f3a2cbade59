------------------------------ MODULE MCService ------------------------------
(* Small instances of Service for TLC. *)
EXTENDS Service, TLC

NoEnv == [k \in {} |-> ""]
HotRootSet == <<"local", "hot_root">> :> "/b/"

Texts == [k \in LocalKeys \cup NasKeys |-> IF k = <<"local", "dest_root">> THEN "/b/" ELSE ""]

\* Every server has the local target, some are enabled.
Config(delay, enabled) ==
    (<<"global", "listen_addr">> :> "ok") @@ (<<"global", "backup_interval">> :> 3)
    @@ (<<"global", "initial_delay">> :> delay) @@ [k \in RetentionKeys |-> 2]
    @@ Texts
    @@ [k \in ServerKeys |-> IF k[2] = "enabled" THEN k[1] \in enabled ELSE "local"]

\* One server with an initial delay, or all of them without.
OneOrAll ==
    {<<Config(1, {CHOOSE s \in Servers : TRUE}), HotRootSet>>, <<Config(0, Servers), NoEnv>>}
AllEnabled == {<<Config(0, Servers), NoEnv>>}

Stories ==
    {{"crash", "backup"}, {"crash", "skip", "stop"}, {"crash", "container", "inspect", "directory"},
     {"crash", "set", "hand"}, {"crash", "update"}}
QuietStory == {{"set"}}

IntervalEdits == {<<<<"global", "backup_interval">>, 2>>, <<<<"global", "backup_interval">>, 3>>}
SomeEdits ==
    LET s == CHOOSE x \in Servers : TRUE
    IN  {<<<<"global", "backup_interval">>, 2>>, <<<<"local", "dest_root">>, "">>,
         <<<<"retention", "prune_count">>, -1>>,
         <<<<s, "target">>, "tiered-local">>, <<<<s, "enabled">>, FALSE>>}

==============================================================================
