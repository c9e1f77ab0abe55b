---------------------------- MODULE Configuration ----------------------------
(***************************************************************************)
(* What operators configure over HTTP: device types and models, recipes,   *)
(* and the tenant key.  The three share connections and statements but no  *)
(* state, so a behaviour follows the requests for one of them, which       *)
(* section says.                                                           *)
(***************************************************************************)
EXTENDS DeviceTypes

CONSTANTS
    RecipeIds, StoredRecipes, SeedRecipes, MaxRecipes,
    Tenants, BrokerKeys, Default

VARIABLES
    section,
    recipes, pending, offered, answered,
    owners, tenants, keyRow, saving, vouched

recipeState == <<recipes, pending, offered, answered>>
keyState == <<owners, tenants, keyRow, saving, vouched>>
configVars == <<section, catalogueVars, recipeState, keyState>>

INSTANCE Recipes
INSTANCE TenantKey

ASSUME RecipeAssumption ==
    /\ StoredRecipes \in Seq(RecipeIds)
    /\ SeedRecipes \in Seq(RecipeIds)

ConfigInit ==
    /\ section \in {"types", "recipes", "key"}
    /\ CatalogueInit
    /\ RecipeInit
    /\ KeyInit

ConfigNext ==
    \/ /\ section = "types"
       /\ CatalogueNext
       /\ UNCHANGED <<section, recipeState, keyState>>
    \/ /\ section = "recipes"
       /\ RecipeNext
       /\ UNCHANGED <<section, catalogueVars, keyState>>
    \/ /\ section = "key"
       /\ KeyNext
       /\ UNCHANGED <<section, catalogueVars, recipeState>>

ConfigSpec == ConfigInit /\ [][ConfigNext]_configVars

=============================================================================
