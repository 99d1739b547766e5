---------------------------- MODULE MCSlideshow ----------------------------
\* Four files, of which one is a thumbnail and another has an alpha channel.
EXTENDS Slideshow

MCFiles == 1..4
MCThumbnails == {2}
MCTransparent == {3}
=============================================================================
