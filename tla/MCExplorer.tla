------------------------------ MODULE MCExplorer ------------------------------
(* Instances of Explorer for TLC. *)
EXTENDS Explorer

LOCAL R(kind, stamp) == [kind |-> kind, stamp |-> stamp]

\* Rows of three kinds in turn, some in one block, one without a timestamp.
MCMixed ==
    <<R("normal", 1), R("token", 1), R("internal", 2), R("normal", 3),
      R("token", 0), R("normal", 4), R("token", 4), R("internal", 5)>>

==============================================================================
