--------------------------- MODULE TeamDeployment ---------------------------
(***************************************************************************)
(* The Team server as it is deployed: the application over its store, and  *)
(* the Windows service whose process hosts it.  They share no state that   *)
(* is modelled, so a behaviour is of one of them.                          *)
(***************************************************************************)
EXTENDS TeamApplication, TeamWindowsService

VARIABLE side

deploymentVars == <<side, vars, windowsVars>>

DeploymentInit ==
    /\ side \in {"application", "service"}
    /\ Init
    /\ side = "service" => agenda = CHOOSE a \in Agendas : TRUE
    /\ WindowsInit

OnApplication == side = "application" /\ Next /\ UNCHANGED <<side, windowsVars>>

OnService == side = "service" /\ WindowsNext /\ UNCHANGED <<side, vars>>

DeploymentNext == OnApplication \/ OnService

DeploymentSpec == DeploymentInit /\ [][DeploymentNext]_deploymentVars
=============================================================================
