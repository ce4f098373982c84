------------------------------ MODULE MCObjects -------------------------------
(***************************************************************************)
(* Graphs of up to three objects, with shared, cyclic and unreachable ones.*)
(***************************************************************************)
EXTENDS Objects

Slotted(x, y) == CreatedSlotted(PrimitiveShape("SLOTTED"), <<x, y>>)
Shape(name) == CreatedShape(name, Nil, "SLOTTED")

Roots ==
    {Obj(Writer, RootAddress, FirstFree - 3, PrimitiveShape("SLOTTED"), links, <<>>) :
        links \in {<<2, Nil>>, <<3, Nil>>, <<2, 2>>, <<2, 3>>, <<3, 2>>}}

\* A shape and its name or an instance of it, or a collection and what it
\* contains, cycles included.
Pairs ==
    {<<Shape(3), CreatedString(<<1>>)>>, <<Shape(3), CreatedString(<<2, 1, 3>>)>>,
     <<Shape(Nil), CreatedSlotted(2, <<>>)>>}
    \cup
    {<<Slotted(x, y), third>> :
        x \in {Nil, 3}, y \in {Nil, 1, 2},
        third \in {CreatedString(<<1, 2>>), Slotted(Nil, Nil), Slotted(2, 1),
                   CreatedInteger(7)}}

MCGraphs == {<<root>> \o pair : root \in Roots, pair \in Pairs}

\* A chain of two below the root: the smallest graph with a stub at depth 1.
MCChain ==
    {<<Obj(Writer, RootAddress, FirstFree - 3, PrimitiveShape("SLOTTED"), <<2, Nil>>, <<>>),
       Slotted(3, Nil), CreatedString(<<1>>)>>}
===============================================================================
