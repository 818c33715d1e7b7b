---------------------------- MODULE MCLayerAccess ----------------------------
(***************************************************************************)
(* A data source with two layers, one of which has a feature without a     *)
(* geometry, one with an empty layer, and one without layers.              *)
(***************************************************************************)
EXTENDS LayerAccess

MCSources ==
  {<< << <<0, 0>>, <<1, 1>>, <<0, 1>> >>, << <<2, 0>>, NoPoint, <<0, 3>> >> >>,
   << <<>> >>,
   <<>>}

MCLayerIdxs == {-1, 0, 1, 2}

\* A turn by 45 degrees, scaled.
MCTransform(p) == <<p[1] + p[2], p[2] - p[1]>>

MCGeomVectors == {<<>>, << <<0, 0>>, <<1, 1>>, <<0, 1>> >>}
=============================================================================
