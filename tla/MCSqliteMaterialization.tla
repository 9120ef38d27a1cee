---- MODULE MCSqliteMaterialization ----
(* Small instances of SqliteMaterialization for TLC. *)
EXTENDS SqliteMaterialization, TLC

Silent == [word |-> 1, links |-> {}, names |-> {}, claims |-> {},
           properties |-> {}, uuid |-> 0, marker |-> 0]
Content(path, aliases, own, blocks) ==
    [path |-> path, aliases |-> aliases, own |-> own, blocks |-> blocks]
NoBlocks == [b \in {} |-> Silent]

\* Two blocks that can change places between two pages, and a UUID that moves
\* from one to the other; the third page refers to pages and blocks that come and go.
Named == [Silent EXCEPT !.uuid = 1, !.marker = 1, !.word = 2]
Unnamed == [Named EXCEPT !.uuid = 0, !.claims = {1}]
Other == [Silent EXCEPT !.claims = {1}, !.names = {2}, !.properties = {1},
                        !.links = {Page(1), Block(11)}]
MCContents ==
    (1 :> {Content(2, {1}, Silent, 11 :> Named),
           Content(1, {1, 2}, [Silent EXCEPT !.links = {Block(12)}], NoBlocks),
           Content(2, {}, [Silent EXCEPT !.properties = {1}], 12 :> Named)}) @@
    (2 :> {Content(2, {1}, [Silent EXCEPT !.names = {1, 2}], 11 :> Unnamed),
           Content(1, {2}, Silent, 12 :> Other)}) @@
    (3 :> {Content(1, {1}, [Silent EXCEPT !.links = {Page(1), Page(2), Block(11), Block(12)},
                                          !.names = {1}], NoBlocks)})

MCQueries ==
    {[read |-> r, of |-> 1] : r \in {"pages", "taskBlocks"}}
====
