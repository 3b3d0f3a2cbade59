--------------------------- MODULE MCConfigStore ---------------------------
(* Small instances of ConfigStore: directory names as the configuration has *)
(* them, and a directory "Survival" whose name has a capital.               *)
EXTENDS ConfigStore

Same == [n \in Names |-> n]
OneName == [k \in Keys |-> CHOOSE n \in Names : TRUE]

=============================================================================
