------------------------------- MODULE Recipes -------------------------------
(***************************************************************************)
(* The recipes of the machines: RecipeManager                              *)
(* (src/app/recipe/recipe_manager.cpp) and the routes below                *)
(* /api/v1/recipes that change something.                                  *)
(*                                                                         *)
(* The manager is a vector without a mutex, used by one thread per         *)
(* connection.  A request is split where it looks a recipe up before it    *)
(* changes the list, so that another one can come in between; finer        *)
(* interleavings corrupt the vector, have no defined outcome, and are left *)
(* out.                                                                    *)
(*                                                                         *)
(* A recipe is its id: what else PUT changes decides nothing.  load_recipes*)
(* and sync_from_cloud are empty and have no caller.                       *)
(***************************************************************************)
EXTENDS Naturals, Sequences, SequencesExt

CONSTANTS
    Clients,        \* requests under way at the same time (bound)
    RecipeIds,      \* recipe ids, sent by clients or stored
    StoredRecipes,  \* active rows of the recipes table, which no statement of
                    \* the service writes
    SeedRecipes,    \* what seed_mock_data pushes (scaled down)
    MaxRecipes,     \* length of the list (bound)
    None

VARIABLES
    recipes,    \* Impl::recipes
    pending,    \* per client: the call to come with its id, None between requests
    offered,    \* history: the ids that the answers so far, those of earlier
                \* processes included, say there are
    answered    \* history: the ids that this process gave such an answer for

recipeVars == <<recipes, pending, offered, answered>>

-----------------------------------------------------------------------------
(* find_by_id, and the find_if of the other methods *)
FindById(r) == Contains(recipes, r)

Await(h, method, r) == pending' = [pending EXCEPT ![h] = [method |-> method, id |-> r]]
Awaits(h, method) == pending[h] # None /\ pending[h].method = method

(* push_back, and the answer. *)
PushBack(r) ==
    /\ Len(recipes) < MaxRecipes
    /\ recipes' = Append(recipes, r)

Answer(h) ==
    /\ offered' = offered \cup {pending[h].id}
    /\ answered' = answered \cup {pending[h].id}
    /\ pending' = [pending EXCEPT ![h] = None]

(* POST /api/v1/recipes: create_recipe turns a duplicate down. *)
CreateFind(h, r) ==
    /\ pending[h] = None
    /\ ~FindById(r)
    /\ Await(h, "create_recipe", r)
    /\ UNCHANGED <<recipes, offered, answered>>

CreatePush(h) ==
    /\ Awaits(h, "create_recipe")
    /\ PushBack(pending[h].id)
    /\ Answer(h)

(* PUT /api/v1/recipes/{id}: a copy of the recipe is changed and handed to
   update_recipe, which pushes it if the recipe has disappeared. *)
PutFind(h, r) ==
    /\ pending[h] = None
    /\ FindById(r)
    /\ Await(h, "update_recipe", r)
    /\ UNCHANGED <<recipes, offered, answered>>

UpdateRecipe(h) ==
    /\ Awaits(h, "update_recipe")
    /\ \/ FindById(pending[h].id) /\ UNCHANGED recipes
       \/ ~FindById(pending[h].id) /\ PushBack(pending[h].id)
    /\ Answer(h)

(* Mutant: find_if and erase, as the other managers do. *)
MutRemoveRecipe(h, r) ==
    /\ pending[h] = None
    /\ recipes' = RemoveFirst(recipes, r)
    /\ offered' = offered \ {r}
    /\ answered' = answered \cup {r}
    /\ UNCHANGED pending

(* remove_if and erase: the others move up, in their order; kept[i] is where the
   i-th of them was. *)
EraseAll(r) ==
    \E n \in 0..Len(recipes) : \E kept \in [1..n -> DOMAIN recipes] :
        /\ \A i, j \in 1..n : i < j => kept[i] < kept[j]
        /\ {kept[i] : i \in 1..n} = {k \in DOMAIN recipes : recipes[k] # r}
        /\ recipes' = [i \in 1..n |-> recipes[kept[i]]]

(* DELETE /api/v1/recipes/{id}: whether or not there is one. *)
RemoveRecipe(h, r) ==
    /\ pending[h] = None
    /\ EraseAll(r)
    /\ offered' = offered \ {r}
    /\ answered' = answered \cup {r}
    /\ UNCHANGED pending

-----------------------------------------------------------------------------
(* load_from_database; seed_mock_data if nothing was loaded. *)
Loaded == IF StoredRecipes = <<>> THEN SeedRecipes ELSE StoredRecipes

RecipeInit ==
    /\ recipes = Loaded
    /\ pending = [h \in Clients |-> None]
    /\ offered = ToSet(Loaded)
    /\ answered = {}

(* A crash and a new process. *)
RecipeRestart ==
    /\ recipes' = Loaded
    /\ pending' = [h \in Clients |-> None]
    /\ answered' = {}
    /\ UNCHANGED offered

RecipeRequest(h) ==
    \/ \E r \in RecipeIds : CreateFind(h, r) \/ PutFind(h, r) \/ RemoveRecipe(h, r)
    \/ CreatePush(h)
    \/ UpdateRecipe(h)

RecipeNext == (\E h \in Clients : RecipeRequest(h)) \/ RecipeRestart

RecipeSpec == RecipeInit /\ [][RecipeNext]_recipeVars

-----------------------------------------------------------------------------
(* However requests overlap, the list offers what the requests answered by this
   process say: a recipe that was created or updated is there until a DELETE of
   it, and after a DELETE it is gone until it is written again - also when two
   POSTs that raced have put it there twice (create_recipe, update_recipe,
   remove_recipe).  What only an earlier process answered is undone: such a
   recipe is there as the table or the seed has it (load_from_database). *)
RecipesAsAnswered ==
    \A r \in RecipeIds :
        r \in ToSet(recipes) <=> r \in IF r \in answered THEN offered ELSE ToSet(Loaded)
=============================================================================
