---------------------------- MODULE MCVideoPump -----------------------------
(* Instances of VideoPump: sliced pictures with parameter sets before the  *)
(* first one or before the second one, and pictures of one slice.          *)
EXTENDS VideoPump

N(p, k) == [pic |-> p, kind |-> k]

MCStreams ==
    { << N(1, "params"), N(1, "first"), N(1, "next"), N(2, "first") >>,
      << N(1, "first"), N(2, "params"), N(2, "first"), N(2, "next") >>,
      << N(1, "first"), N(2, "first"), N(3, "params"), N(3, "first") >> }
=============================================================================
