---- MODULE MCPatriciaIndex ----
(* Small instances of PatriciaIndex for TLC. *)
EXTENDS PatriciaIndex

CONSTANTS v1, v2

\* Three keys that share bits, and one that is a prefix of two.
MCKeys == {<<0, 0>>, <<0, 1, 0>>, <<0, 1, 1>>, <<0, 1>>}
MCBatches ==
    {(<<0, 1, 0>> :> v1) @@ (<<0, 1, 1>> :> v1),
     (<<0, 0>> :> v1) @@ (<<0, 1>> :> v2),
     (<<0, 0>> :> v2) @@ (<<0, 1, 0>> :> v2)}
MCRemovals == {{<<0, 1, 1>>}, {<<0, 0>>, <<0, 1>>, <<0, 1, 0>>}}
====
