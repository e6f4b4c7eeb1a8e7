------------------------------- MODULE MCGraph -------------------------------
(* An instance of Graph for TLC. *)
EXTENDS Graph

\* A route of three transfers from a to d, a short cut and a way back.
MCDetours ==
    {<<"a", "b">>, <<"b", "c">>, <<"c", "d">>, <<"a", "c">>, <<"c", "b">>}

==============================================================================
