--------------------------- MODULE ConfiguredChecks ---------------------------
(* The names that the configuration of a file enables decide which checks run on *)
(* the unit: ConfigCache and CheckRegistry together.                             *)
EXTENDS ConfigCache, CheckRegistry

allVars == <<vars, registryVars>>

\* The checks are registered before any options are looked up, and the unit is made
\* with the options of its file; its language is found by other means.
ConfiguredInit == Init /\ RegistryInit
Configure == Complete /\ unit = NoUnit /\ Next /\ UNCHANGED registryVars
CreateUnit(lang) == phase = "answered" /\ CreateASTConsumer(EnabledBy(raw), lang) /\ UNCHANGED vars
ConfiguredNext ==
  \/ AddCheckFactories /\ UNCHANGED vars
  \/ Configure
  \/ \E lang \in {"c90", "c", "c++"} : CreateUnit(lang)
  \/ EndUnit /\ UNCHANGED vars
ConfiguredSpec == ConfiguredInit /\ [][ConfiguredNext]_allVars
================================================================================
