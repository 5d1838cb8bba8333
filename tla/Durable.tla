------------------------------ MODULE Durable ------------------------------
(***************************************************************************)
(* The components that keep files and rows in step, in one specification:  *)
(* the extraction site of a task, the configuration of its classification, *)
(* the classification of its packages, its records, the device ledger and  *)
(* the attribution of old KPI rows.  They                                  *)
(* share no state.  turn names the one that moves, from the first state    *)
(* on; the others stay in one initial state, so that the states explored   *)
(* are the sum of theirs and not the product.                              *)
(***************************************************************************)
EXTENDS SceneSite, RoutePatterns, Classification, TaskRecords, Inventory, Attribution

CONSTANT bind   \* a binding some task has a type for from the start

VARIABLE turn
-----------------------------------------------------------------------------
Components == {"site", "routes", "classification", "records", "inventory", "attribution"}
OneType    == CHOOSE t \in NetTypes : TRUE

DurableInit ==
  /\ turn \in Components
  /\ SiteInit /\ (turn # "site" => layout = CHOOSE c \in DOMAIN RootsOf : TRUE)
  /\ ClassInit /\ (turn # "classification" => sources = CHOOSE p \in Packages : TRUE)
  /\ RecInit /\ (turn # "records" => recScene = NoScene)
  /\ InvInit
  /\ AttrInit
  /\ \A r \in DOMAIN origin : origin[r] = NoType \/ (turn = "attribution" /\ r = bind /\ origin[r] = OneType)
  /\ RouteInit /\ (turn # "routes" => config = 1)

DurableNext ==
  /\ turn' = turn
  /\ \/ turn = "site" /\ SiteNext /\ UNCHANGED <<routeVars, classVars, recVars, invVars, attrVars>>
     \/ turn = "routes" /\ RouteNext /\ UNCHANGED <<siteVars, classVars, recVars, invVars, attrVars>>
     \/ turn = "classification" /\ ClassNext /\ UNCHANGED <<siteVars, routeVars, recVars, invVars, attrVars>>
     \/ turn = "records" /\ RecNext /\ UNCHANGED <<siteVars, routeVars, classVars, invVars, attrVars>>
     \/ turn = "inventory" /\ InvNext /\ UNCHANGED <<siteVars, routeVars, classVars, recVars, attrVars>>
     \/ turn = "attribution" /\ AttrNext /\ UNCHANGED <<siteVars, routeVars, classVars, recVars, invVars>>

durableVars == <<turn, siteVars, routeVars, classVars, recVars, invVars, attrVars>>

\* The fairness of each component; in the initial state where the others stay
\* none of their fair actions is enabled.
DurableSpec ==
  /\ DurableInit /\ [][DurableNext]_durableVars
  /\ WF_siteVars(RunStep)
  /\ WF_recVars(RecWork \/ DeleteRows) /\ WF_recVars(RecStart)
  /\ AttrFairness

\* The types of all six.
DurableTypeOK ==
  turn \in Components /\ SiteTypeOK /\ RouteTypeOK /\ ClassTypeOK /\ RecTypeOK /\ InvTypeOK /\ AttrTypeOK
=============================================================================
