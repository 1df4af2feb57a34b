-------------------------------- MODULE Tenancy --------------------------------
(***************************************************************************)
(* The tenants of the control plane.  The schema keeps them twice:         *)
(* beacon.tenants, which notifications refer to, and                       *)
(* tenancy.organizations, which everything newer refers to.  Nothing in    *)
(* the code keeps the two together, so an id may be in the first only.     *)
(***************************************************************************)
CONSTANTS Orgs,    \* ids with a row in tenancy.organizations
          Strays   \* ids with a row in beacon.tenants and none there

ASSUME TenancyAssumption == Orgs \cap Strays = {}

Tenants == Orgs \cup Strays
=============================================================================
