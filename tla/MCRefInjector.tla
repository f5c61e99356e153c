---------------------------- MODULE MCRefInjector ----------------------------
(* A small instance of RefInjector for TLC. *)
EXTENDS RefInjector, TLC

\* Model values
CONSTANTS
  first,  \* a chunk that begins a page and has the opening <head> tag
  late,   \* one with the tag after something that does not look like HTML
  rest    \* one without the tag
==============================================================================
