-------------------------------- MODULE MCLoop --------------------------------
(* Instances of MainLoop for TLC: how many deeds of each kind a run has.    *)
EXTENDS MainLoop

Of(n) == [k \in Kinds |-> IF k \in DOMAIN n THEN n[k] ELSE 0]

\* Only the clock, or only the characters.
Late == {Of([delay |-> 3, outage |-> 4])}
Fights ==
  {Of([lag |-> 1, flee |-> 2, hit |-> 2]), Of([hit |-> 2, extract |-> 1]),
   Of([flee |-> 1, hit |-> 1, extract |-> 1])}
Weaves == {Of([hit |-> 1, extract |-> 1, affect |-> 2, cure |-> 1])}
Players == Permutations(Chars \ Mobs)
All == Late \union Fights \union Weaves
===============================================================================
