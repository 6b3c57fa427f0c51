--------------------------- MODULE MCControlPlane ---------------------------
(***************************************************************************)
(* The components of the control plane that share no state, side by side:  *)
(* a behaviour runs the one that part names and the others stand still, so *)
(* the state graph is the union of theirs.                                 *)
(***************************************************************************)
EXTENDS EnvironmentWork, Deployment, LiveStream, Listing, Budget, Vault, Catalog, TLC

VARIABLE part

Parts == {"work", "deployment", "live", "listing", "budget", "vault", "catalog"}

\* every list of the API
MCQueries ==
    {<<SessionQuery, SessionParams>>, <<AgentQuery, AgentParams>>,
     <<AgentVersionQuery, AgentVersionParams>>, <<EnvironmentQuery, EnvironmentParams>>,
     <<DeploymentQuery, DeploymentParams>>, <<RunQuery, RunParams>>, <<FileQuery, FileParams>>,
     <<MemoryQuery, MemoryParams>>, <<SkillQuery, SkillParams>>,
     <<SkillVersionQuery, SkillVersionParams>>, <<ResourceQuery, ResourceParams>>,
     <<ThreadQuery, ThreadParams>>, <<EventQuery, EventParams>>, <<EventQuery, ThreadEventParams>>,
     <<WorkQuery, WorkParams>>, <<StoreQuery, StoreParams>>,
     <<MemoryVersionQuery, MemoryVersionParams>>, <<VaultQuery, VaultParams>>,
     <<CredentialQuery, CredentialParams>>}
MCOrders == {<<q[1], q[2], o>> : q \in MCQueries, o \in {"asc", "desc"}}
\* The ascending list of events is left out: an event processed between two
\* pages moves past the cursor (README, findings).
MCListings == {l \in MCOrders : l[3] \in l[1].orders /\ ~(l[1].key = "processed" /\ l[3] = "asc")}
MCSymmetry == Permutations(CatalogClients)

ControlInit ==
    /\ part \in Parts
    /\ WorkInit
    /\ DeploymentInit
    /\ LiveInit
    /\ ListingInit
    /\ BudgetInit
    /\ VaultInit
    /\ CatalogInit
    /\ part # "listing" => listing = <<AgentQuery, AgentParams, "desc">>
    /\ part # "budget" => ceiling = 1

\* the components other than p stand still
OthersRest(p) ==
    /\ UNCHANGED part
    /\ IF p = "work" THEN TRUE ELSE UNCHANGED workVars
    /\ IF p = "deployment" THEN TRUE ELSE UNCHANGED depVars
    /\ IF p = "live" THEN TRUE ELSE UNCHANGED liveVars
    /\ IF p = "listing" THEN TRUE ELSE UNCHANGED listVars
    /\ IF p = "budget" THEN TRUE ELSE UNCHANGED budgetVars
    /\ IF p = "vault" THEN TRUE ELSE UNCHANGED vaultVars
    /\ IF p = "catalog" THEN TRUE ELSE UNCHANGED catalogVars

ControlNext ==
    \/ part = "work" /\ WorkNext /\ OthersRest("work")
    \/ part = "deployment" /\ DeploymentNext /\ OthersRest("deployment")
    \/ part = "live" /\ LiveNext /\ OthersRest("live")
    \/ part = "listing" /\ ListingNext /\ OthersRest("listing")
    \/ part = "budget" /\ BudgetNext /\ OthersRest("budget")
    \/ part = "vault" /\ VaultNext /\ OthersRest("vault")
    \/ part = "catalog" /\ CatalogNext /\ OthersRest("catalog")

ControlVars == <<part, workVars, depVars, liveVars, listVars, budgetVars, vaultVars, catalogVars>>
ControlSpec == ControlInit /\ [][ControlNext]_ControlVars

\* Every component's state is well formed.
ControlTypeOK ==
    /\ WorkTypeOK
    /\ DeploymentTypeOK
    /\ LiveTypeOK
    /\ ListingTypeOK
    /\ BudgetTypeOK
    /\ VaultTypeOK
    /\ CatalogTypeOK
=============================================================================
