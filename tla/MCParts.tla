------------------------------- MODULE MCParts -------------------------------
(***************************************************************************)
(* An instance of Parts for TLC.                                           *)
(***************************************************************************)
EXTENDS Parts

\* Two items: one with a hole, and one with more edges than a height map of two
\* can have.
ItemPlaces == << <<5, <<1, 1, 0, 1>> >>, <<14, <<1, 1, 2, 1>> >> >>
=============================================================================
