---------------------------- MODULE MCWimOverwrite ----------------------------
(***************************************************************************)
(* Contents of one to five bytes in chunks of three, read two at a time;   *)
(* files are added and replaced, with duplicates among them and of what    *)
(* was there, or nothing is added.  The messages of the two workers hold   *)
(* one or two chunks, and there are one or two of them.                    *)
(***************************************************************************)
EXTENDS WimOverwrite

J(old, rep, new, solid, ctype, ord, integ) ==
    [old |-> old, replaced |-> rep, new |-> new, solid |-> solid, ctype |-> ctype, order_ok |-> ord,
     integrity |-> integ]
MCSize == [a |-> 2, b |-> 5, c |-> 4, d |-> 3, e |-> 1]
MCJobs == {J(<<"a">>, {}, <<"b", "d">>, FALSE, "lzx", TRUE, FALSE),
           J(<<"a", "d">>, {"d"}, <<"b", "b", "c">>, FALSE, "lzx", TRUE, TRUE),
           J(<<"a", "d">>, {"d"}, <<"c">>, FALSE, "lzx", FALSE, TRUE),
           J(<<"a">>, {}, <<>>, FALSE, "lzx", TRUE, TRUE),
           J(<<"b", "d">>, {}, <<"c", "d", "e", "a">>, TRUE, "lzms", TRUE, FALSE),
           J(<<"a">>, {}, <<"a">>, TRUE, "lzms", TRUE, FALSE),
           J(<<"a">>, {}, <<"b">>, FALSE, "none", FALSE, FALSE)}
MCShapes == {<<1, 1>>, <<1, 2>>, <<2, 1>>, <<2, 2>>}
=============================================================================
