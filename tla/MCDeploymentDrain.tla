--------------------------- MODULE MCDeploymentDrain ---------------------------
(***************************************************************************)
(* Two releases and a rollback, with runs of the coordinator that overlap. *)
(***************************************************************************)
EXTENDS DeploymentDrain

CONSTANTS
    A, B, C,    \* deployments
    hook, cron  \* what starts a run

MCModes == {"data-plane", "control-plane", "local", "health-aggregator", "status",
            "usage-accounting", "notification", "canary"}
===============================================================================
