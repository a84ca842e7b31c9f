------------------------------- MODULE MCSeals -------------------------------
(***************************************************************************)
(* Instances of IBFT2Seals: chains of small validator sets that grow and   *)
(* shrink, with seals in several orders and missing where they may be.     *)
(***************************************************************************)
EXTENDS IBFT2Seals

CONSTANTS a, b, c, d, e, g

Block(validators, seals) == [validators |-> validators, seals |-> seals]

\* Three validators: all of them must seal.  The sets shrink to one and grow.
Shrinking ==
    <<Block(<<a, b, c>>, <<a, b, c>>), Block(<<b, c>>, <<c, b>>),
      Block(<<c>>, <<c>>), Block(<<c, d>>, <<d, c>>)>>

\* Four validators: one may be missing, at the end or in the middle.
Growing ==
    <<Block(<<a, b, c>>, <<c, a, b>>), Block(<<a, b, c, d>>, <<c, b, a>>),
      Block(<<a, b, c, d>>, <<d, a, c>>), Block(<<b, c, d>>, <<b, d, c>>),
      Block(<<b, c, d, e>>, <<e, d, c, b>>)>>

\* Five validators, of which the last one was replaced in two blocks.
Replacing ==
    <<Block(<<a, b, c, d, e>>, <<e, d, c, b>>),
      Block(<<a, b, c, d>>, <<b, a, d>>),
      Block(<<a, b, c, d, g>>, <<a, g, c, d, b>>)>>

\* Six validators of which one may be faulty.
Six == <<Block(<<a, b, c, d, e, g>>, <<a, b, c, d, e, g>>)>>

\* Four validators of which one may be faulty.
Four == <<Block(<<a, b, c, d>>, <<a, b, c, d>>)>>

MCChains == {Shrinking, Growing, Replacing, Six, Four}
MCFour == {Four}
MCLists == {<<a, b>>, <<a, a>>, <<a, Outsider>>, <<Outsider, Outsider, Outsider>>}
=============================================================================
