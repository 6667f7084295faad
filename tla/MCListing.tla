------------------------------ MODULE MCListing -----------------------------
(* Listing with arrays of four characters: names that fill them, names that *)
(* are cut off, and a name with a comma.                                    *)
EXTENDS Listing

ShortAddresses == {<<"i">>, <<"i", "p">>}
SomeUsers ==
  {<<"b">>, <<"b", "o", "b">>, <<"b", "o", "b", "b", "y">>, <<"b", ",">>}
=============================================================================
