------------------------------ MODULE Components -------------------------------
(***************************************************************************)
(* The components that share no state, each a module of its own, one at a  *)
(* time: a behaviour is one of the chosen component, and the others stay   *)
(* in one of their initial states.                                         *)
(***************************************************************************)
EXTENDS Sandbox, LiveCrm, LiveChannels, Evaluation, GatewayLimits, ApiLimits, Verdicts,
        Routing, Roi

VARIABLE component  \* the one that runs

componentsVars ==
  <<component, sandboxVars, crmVars, channelVars, evalVars, limitVars, apiVars, verdictVars,
    routingVars, roiVars>>

Component == {"sandbox", "crm", "channels", "evaluation", "gateway_limits", "api_limits",
              "verdicts", "routing", "roi"}

\* Where an initial state is not the only one, a component that is not chosen has one.
ComponentsInit ==
  /\ component \in Component
  /\ SandboxInit /\ CrmInit /\ EvalInit /\ ApiInit /\ VerdictsInit
  /\ ChannelsInit /\ (component # "channels" => skew = 0)
  /\ LimitsInit /\ (component # "gateway_limits" => store = "memory")
  /\ RoutingInit /\ (component # "routing" => priced = {})
  /\ RoiInit /\ (component # "roi" => economics = (CHOOSE e \in Economics : TRUE))

OthersStay ==
  /\ component # "sandbox" => UNCHANGED sandboxVars
  /\ component # "crm" => UNCHANGED crmVars
  /\ component # "channels" => UNCHANGED channelVars
  /\ component # "evaluation" => UNCHANGED evalVars
  /\ component # "gateway_limits" => UNCHANGED limitVars
  /\ component # "api_limits" => UNCHANGED apiVars
  /\ component # "verdicts" => UNCHANGED verdictVars
  /\ component # "routing" => UNCHANGED routingVars
  /\ component # "roi" => UNCHANGED roiVars
  /\ UNCHANGED component

ComponentsNext ==
  \/ component = "sandbox" /\ SandboxNext /\ OthersStay
  \/ component = "crm" /\ CrmNext /\ OthersStay
  \/ component = "channels" /\ ChannelsNext /\ OthersStay
  \/ component = "evaluation" /\ EvalNext /\ OthersStay
  \/ component = "gateway_limits" /\ LimitsNext /\ OthersStay
  \/ component = "api_limits" /\ ApiNext /\ OthersStay
  \/ component = "verdicts" /\ VerdictsNext /\ OthersStay
  \/ component = "routing" /\ RoutingNext /\ OthersStay
  \/ component = "roi" /\ RoiNext /\ OthersStay

ComponentsSpec == ComponentsInit /\ [][ComponentsNext]_componentsVars

(***************************************************************************)
(* The state of the component that runs has its type: its values stay in   *)
(* the domains that the classes and tables of the code declare.            *)
(***************************************************************************)
ComponentsTypeOK ==
  /\ component = "sandbox" => SandboxTypeOK
  /\ component = "crm" => CrmTypeOK
  /\ component = "channels" => ChannelsTypeOK
  /\ component = "evaluation" => EvalTypeOK
  /\ component = "gateway_limits" => LimitsTypeOK
  /\ component = "api_limits" => ApiTypeOK
  /\ component = "verdicts" => VerdictsTypeOK
  /\ component = "routing" => RoutingTypeOK
  /\ component = "roi" => RoiTypeOK
================================================================================
