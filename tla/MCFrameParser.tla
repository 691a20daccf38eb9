---------------------------- MODULE MCFrameParser ----------------------------
(* Constant values for the run of FrameParser: two-digit lengths in base 4. *)
EXTENDS FrameParser

MCPayloads == {<<>>, <<3>>, <<0, 2>>}

\* A length below 3, one above the maximum (cut short), an unknown channel.
MCBadFrames == {<<2, 0, 1, 1>>, <<3, 3, 0>>, <<0, 1, 2, 1, 0, 3>>}
==============================================================================
