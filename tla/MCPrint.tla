------------------------------ MODULE MCPrint -------------------------------
(***************************************************************************)
(* Messages for TLC: one directive of every kind with arguments at the     *)
(* edges (no digit, a digit more, the sign, the largest and the least      *)
(* integer, sixteen and seventeen binary digits), and two or three of a    *)
(* few of them, which fill the buffer to its last character and beyond.    *)
(***************************************************************************)
EXTENDS KernelPrint

Ints ==
  {0, 1, -1, 7, 9, 10, -10, 15, 16, 255, 256, -255, 9999, 10000, 65535, -65535,
   65536, 99999, 131071, -131071, -131072}

Directives ==
  {<<k, v>> : k \in {"d", "x", "b", "p"}, v \in Ints}
    \cup {<<"lit", 65>>, <<"c", 66>>, <<"c", EOS>>, <<"s", <<>>>>,
          <<"s", <<67, 68, 69>>>>, <<"%", 0>>}

Few == {<<"lit", 10>>, <<"c", EOS>>, <<"d", -10>>, <<"x", 255>>, <<"b", 6>>,
        <<"p", 0>>, <<"s", <<67, 68, 69, 70>>>>, <<"%", 0>>}

SmallMessages ==
  {<<>>} \cup {<<d>> : d \in Directives}
    \cup {<<d, e>> : d, e \in Few} \cup {<<d, e, f>> : d, e, f \in Few}
=============================================================================
