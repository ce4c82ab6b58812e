---------------------------- MODULE MCPluginAPI ----------------------------
(***************************************************************************)
(* Core and the broker of a plugin for model checking.  A behaviour is one *)
(* of Core alone, without bound on its commands, or one in which a plugin  *)
(* and the other frontends use a few commands on the layouts of APIInit.   *)
(***************************************************************************)
EXTENDS PluginAPI

CONSTANT CoreLimit  \* the limit of identifiers for Core alone

VARIABLE part

NoPlugin ==
  /\ grants = {} /\ context = NoContext /\ request = NoRequest
  /\ tools = {} /\ terminal = [p \in PaneID |-> 0]
  /\ effect = {} /\ relay = "ended" /\ calls = 0 /\ others = 0

WithinCore ==
  /\ nextWorkspaceID' <= CoreLimit
  /\ nextWindowID' <= CoreLimit
  /\ nextPaneID' <= CoreLimit

MCInit ==
  \/ part = "core" /\ Init /\ NoPlugin
  \/ part = "plugin" /\ APIInit

MCNext ==
  /\ \/ part = "core" /\ Next /\ WithinCore /\ UNCHANGED apiVars
     \/ part = "plugin" /\ APINext
  /\ UNCHANGED part

MCSpec == MCInit /\ [][MCNext]_<<vars, apiVars, part>>
=============================================================================
