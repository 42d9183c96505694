----------------------------- MODULE MCMonster -----------------------------
(* A small map: two steps from the start to the edge, and two places that a *)
(* player may be at, one on the map and one beyond what a monster that      *)
(* stands at the edge can hit.                                              *)
EXTENDS Monster

MCPlayerPlaces == {0, 4}

MCStartPlaces == {0}
=============================================================================
