-------------------------- MODULE MCElementAccess --------------------------
(***************************************************************************)
(* Instances of ElementAccess: every depth with one to four channels in    *)
(* two small shapes, a few of them in shapes that leave gaps when they are *)
(* cut, and shapes that are refused.                                       *)
(***************************************************************************)
EXTENDS ElementAccess

Made(size, depth, channels) == [size |-> size, depth |-> depth, channels |-> channels]

MCCreated ==
    {Made(size, depth, channels) :
        size \in {<<1, 2>>, <<1, 2, 1>>}, depth \in DOMAIN elemSize1, channels \in 1 .. 4}
    \cup {Made(<<2, 2>>, "Int16", 3)}
    \cup {Made(size, "Int16", 1) : size \in {<<2, 2, 3>>, <<2, 3>>}}
    \cup {Made(<<2, 2, 1, 2>>, "UInt8", 1), Made(<<4>>, "UInt8", 1), Made(<<2, 0>>, "UInt8", 1),
          Made(<<1, 1, 1, 1, 1>>, "UInt8", 1),
          Made(<<1, 1, 1, 1, 1, 1>>, "UInt8", 1)}

MCExternal ==
    {Made(<<2, 2>>, depth, channels) : depth \in {"UInt8", "Float32"}, channels \in {1, 3}}
    \cup {Made(size, "UInt16", 1) : size \in {<<3, 2>>, <<2, 2, 2>>, <<2, 1, 2>>}}
    \cup {Made(<<1, 2, 1, 2, 1>>, "UInt8", 1)}

MCTargets ==
    [size : {<<2, 2>>, <<1, 4>>, <<4, 1>>, <<2, 1, 2>>, <<3, 2>>, <<2, 0>>, <<4>>,
             <<2, 1, 1, 1, 2>>},
     channels : 1 .. 3]
==============================================================================
