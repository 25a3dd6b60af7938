---------------------------- MODULE MCArpTables ----------------------------
\* Two next hops, two packets whose sources lie behind the one and the other
\* hop, and a hardware table with a single row.
EXTENDS ArpTables
CONSTANTS h1, h2, p1, p2

MCBack == (p1 :> h2) @@ (p2 :> h1)
=============================================================================
