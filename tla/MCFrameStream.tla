---------------------------- MODULE MCFrameStream ----------------------------
(* Instances of FrameStream. *)
EXTENDS FrameStream

CONSTANTS image1, image2

MCImages == {image1, image2}

\* A screen without images, one with more than the cache holds, two that show
\* one each, one of another size, and one that fails validate_state.
MCScreens ==
    {[size |-> "small", images |-> i, fits |-> TRUE] : i \in SUBSET MCImages}
    \cup {[size |-> "large", images |-> {image1}, fits |-> TRUE],
          [size |-> "small", images |-> {image1}, fits |-> FALSE]}
=============================================================================
