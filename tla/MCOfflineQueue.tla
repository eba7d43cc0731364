---------------------------- MODULE MCOfflineQueue ----------------------------
(* Two tabs, each with an entry to save: a tab can write over the entry of *)
(* the other, or load it and send it too.                                  *)
EXTENDS OfflineQueue, TLC

CONSTANTS k1, k2, t1, t2

OneEach == (t1 :> {k1}) @@ (t2 :> {k2})

\* Bound: while both tabs are open and both entries exist, no loop runs; the
\* drawers and the user still change and store the lists.
LoopsApart ==
  (\A t \in Tab : tab[t].open) /\ (\A k \in Key : fate[k] # "new") => \A t \in Tab : ~Running(t)

\* Bound: one of the entries is found too old, and by tabs that follow each other.
OneAges == old # {} => Cardinality(old) = 1 /\ ~shared
===============================================================================
