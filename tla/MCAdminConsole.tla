--------------------------- MODULE MCAdminConsole ---------------------------
(* Values for the configurations of AdminConsole.                          *)
EXTENDS AdminConsole

\* defaultRuntimeConfigBase(): the first value for every key.
DefaultsOf == [k \in CfgKeys |-> "a"]

=============================================================================
