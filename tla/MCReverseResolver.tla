-------------------------- MODULE MCReverseResolver --------------------------
(***************************************************************************)
(* A small instance of ReverseResolver: more addresses than may be pending *)
(* at once, and polls that repeat one.                                     *)
(***************************************************************************)
EXTENDS ReverseResolver

CONSTANTS a1, a2, a3, a4

\* Two sockets to one address, an address alone, and more addresses than fit.
SmallPolls == {<<a1, a1>>, <<a2>>, <<a4, a3, a2, a1>>}

=============================================================================
