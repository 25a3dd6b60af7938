------------------------------ MODULE MCPwospf ------------------------------
EXTENDS Pwospf
CONSTANTS a, b, c, lan
Sym == Permutations(Routers)
MCAttached == (lan :> Routers)
=============================================================================
