---------------------------- MODULE MCAddressBook ----------------------------
(* Instances of AddressBook for TLC: two spellings of one address, another *)
(* address, and a file of three rows.                                      *)
EXTENDS AddressBook, TLC

CONSTANTS elm, elmDotted, oak,     \* texts: the first two have one key
          main, north,             \* names of turfs
          t1, t2, van1

TextsDef == {elm, elmDotted, oak}
KeyOfDef == (elm :> elm) @@ (elmDotted :> elm) @@ (oak :> oak)

RowOf(name, text, house) ==
  [name |-> name, text |-> text, house |-> house, person |-> None, located |-> FALSE]

\* One household twice, once by its external id; a second turf, and on it a row
\* without an address.
FilesDef == {<<RowOf(main, elm, van1), RowOf(main, elm, None), RowOf(north, None, None)>>}

TurfsBeforeDef == (t1 :> main) @@ (t2 :> None)

Symmetry == Permutations(Homes) \cup Permutations(Places)
=============================================================================
