\* Draws of one contestant against BYEs, named under the primary or an
\* alias field: the champion cell stays empty for the alias draws.
CONSTANTS
    n1 = n1
    n2 = n2
    Names <- MCNames
    REST = REST
    NONE = NONE
    Draws <- MCAliasDraws
    MaxBuilds = 1
SPECIFICATION Spec
INVARIANT ChampionIffUncontested
CHECK_DEADLOCK FALSE
