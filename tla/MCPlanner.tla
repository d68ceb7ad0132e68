----------------------------- MODULE MCPlanner -----------------------------
(* Small instances of Planner: anchors 1, 2 and 5 are bare, 3 is a router and 4 a host. *)
EXTENDS Planner

Shape(src, via, dst) == [src |-> src, via |-> via, dst |-> dst, closed |-> FALSE, direction |-> Undeclared, control |-> FALSE]
Ring(src, via, dst)  == [Shape(src, via, dst) EXCEPT !.closed = TRUE]
Control(shape)       == [shape EXCEPT !.control = TRUE]

MCShapes == {
    Shape(1, <<3>>, 4), Shape(1, <<5, 2>>, 4), Shape(2, <<>>, 1), Control(Shape(2, <<>>, 4)),
    Ring(1, <<2>>, 5), Ring(4, <<1>>, 2)}
MCMembers   == {{1, 2, 4}, {2, 5}}
MCHandPipes == {{1, 2}}

Links(shapes) == [i \in DOMAIN shapes |-> <<OpTo("link", 1000 * i, shapes[i])>>]
Grouped       == <<OpTo("group", 1, {1, 2, 4})>>
MCBoards == {
    <<>>,
    Links(<<Shape(1, <<3, 2>>, 4)>>) \o <<Grouped>>,
    Links(<<Shape(1, <<>>, 2), Shape(2, <<>>, 4), Shape(3, <<>>, 2)>>) \o <<<<Op("pipe", {1, 2})>>, Grouped>>,
    Links(<<Shape(1, <<5, 2>>, 4)>>),
    Links(<<Ring(1, <<2>>, 5)>>)}
=============================================================================
