SPECIFICATION ConfigSpec
CONSTANTS
    None = none
    TypeCodes = {other, coffee, tea}
    ModelCodes = {m1}
    Other = other
    Seeds = {other, coffee}
    Clients = {c1, c2}
    MayFail = TRUE
    MaxCreated = 2
    latte = latte
    RecipeIds = {latte, mocha}
    StoredRecipes <- NoRows
    SeedRecipes <- Seeded
    MaxRecipes = 4
    Tenants = {t1}
    BrokerKeys = {b1}
    Default = default
SYMMETRY ClientSymmetry
INVARIANTS
    CreatedOnce
    ChecksStayTrue
    RecipesAsAnswered
    KeyVouchedFor
