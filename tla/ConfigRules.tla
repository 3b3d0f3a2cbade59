---------------------------- MODULE ConfigRules -----------------------------
(***************************************************************************)
(* What a configuration may say: the setters behind `config set` and the   *)
(* environment variables, the validation, and the target a server's        *)
(* snapshots go to.                                                        *)
(*                                                                         *)
(* A configuration is a function from keys to values.  A key is a section  *)
(* and a field, the section of a server being the server itself.  Texts    *)
(* are told apart only as far as the rules do: empty, blank, a root        *)
(* written with slashes at its end, or any other text.  The value of       *)
(* listen_addr stands for the pair of address and token.                   *)
(***************************************************************************)
EXTENDS Integers

CONSTANT Servers

ASSUME ServersAssumption == Servers # {}

GlobalKeys == {"global"} \X {"listen_addr", "backup_interval", "initial_delay"}
RetentionKeys == {"retention"} \X {"prune_count", "hot_prune_count"}
LocalKeys == {"local"} \X {"dest_root", "hot_root"}
NasKeys == {"nas"} \X {"ssh_host", "ssh_user", "dest_root"}
ServerKeys == Servers \X {"enabled", "target"}

Keys == GlobalKeys \cup RetentionKeys \cup LocalKeys \cup NasKeys \cup ServerKeys

Interval(c) == c[<<"global", "backup_interval">>]
Delay(c) == c[<<"global", "initial_delay">>]
Enabled(c, s) == c[<<s, "enabled">>]

Targets == {"local", "nas", "tiered-local", "tiered-nas"}

\* normalizeTarget: spelling aside, two names mean tiered-nas.
normalizeTarget(t) ==
    IF t \in {"tiered", "two-tier"} THEN "tiered-nas"
    ELSE IF t = " NAS " THEN "nas"
    ELSE t

\* normalizeDestRoot: slashes at the end go, a root of slashes is "/".
normalizeDestRoot(root) ==
    IF root = "//" THEN "/" ELSE IF root = "/b/" THEN "/b" ELSE root

IsRoot(k) == k[2] \in {"dest_root", "hot_root"}

Blank(text) == text \in {"", " "}

\* The keys a target cannot do without.
Required(target) ==
    (IF target \in {"local", "tiered-local"} THEN {<<"local", "dest_root">>} ELSE {})
    \cup (IF target \in {"nas", "tiered-nas"} THEN NasKeys ELSE {})
    \cup (IF target \in {"tiered-local", "tiered-nas"} THEN {<<"local", "hot_root">>} ELSE {})

\* resolveBackupTarget: no target means nas; a required key must not be blank.
resolveBackupTarget(c, s) ==
    LET t == normalizeTarget(c[<<s, "target">>])
        target == IF t = "" THEN "nas" ELSE t
    IN  IF target \in Targets /\ \A k \in Required(target) : ~Blank(c[k])
        THEN target ELSE "error"

\* A negative prune_count is refused by its setter only; the prunes take it for 0.
Validate(c) ==
    /\ c[<<"global", "listen_addr">>] = "ok"
    /\ Interval(c) > 0 /\ Delay(c) >= 0
    /\ c[<<"retention", "hot_prune_count">>] >= 0
    /\ \A s \in Servers : Enabled(c, s) => resolveBackupTarget(c, s) # "error"

\* The setters refuse a number out of range, whatever else the value is.
Accepts(k, v) ==
    /\ k = <<"global", "backup_interval">> => v > 0
    /\ k \in {<<"global", "initial_delay">>} \cup RetentionKeys => v >= 0

\* What a setter stores.
Stored(k, v) == IF IsRoot(k) THEN normalizeDestRoot(v) ELSE v

\* applyEnvOverrides: a refused value is skipped.
applyEnvOverrides(c, env) ==
    [k \in Keys |-> IF k \in DOMAIN env /\ Accepts(k, env[k])
                    THEN Stored(k, env[k]) ELSE c[k]]

\* loadConfigFile normalises what the file says about roots.
loadConfigFile(f) == [k \in Keys |-> Stored(k, f[k])]

\* LoadConfig, when Loads.
LoadConfig(f, env) == applyEnvOverrides(loadConfigFile(f), env)
Loads(f, env) == Validate(LoadConfig(f, env))

=============================================================================
