---------------------------- MODULE MCInventory ----------------------------
(* A small repository: an excluded directory written in capitals with a file  *)
(* in it, a README.md at the root and one below, a link, and an output        *)
(* directory inside the repository.                                           *)
EXTENDS Inventory

Repository == {
  <<"README.md">>, <<"main.go">>, <<"link">>,
  <<"Vendor">>, <<"Vendor", "main.go">>,
  <<"fixtures">>, <<"fixtures", "README.md">>, <<"fixtures", "plain.gooo">>,
  <<"out">>, <<"out", "main.go">>}

Dirs == {<<"Vendor">>, <<"fixtures">>, <<"out">>}

MCKind == [p \in Repository |->
             IF p \in Dirs THEN "dir" ELSE IF p = <<"link">> THEN "other" ELSE "regular"]

MCNames == UNION {Range(p) : p \in Repository}

MCExtension == [n \in MCNames |-> CASE n = "main.go"    -> ".go"
                                    [] n = "plain.gooo" -> ".gooo"
                                    [] n = "README.md"  -> ".md"
                                    [] OTHER            -> ""]

\* No line, one that does not end, two of which the second does not end.
MCContent == [p \in Repository |->
                CASE NameOf(p) = "README.md"  -> <<>>
                  [] NameOf(p) = "plain.gooo" -> <<"byte">>
                  [] p = <<"main.go">>        -> <<"byte", "newline", "byte">>
                  [] OTHER                    -> <<"newline", "byte", "newline">>]

MCLower == [n \in MCNames |-> IF n = "Vendor" THEN "vendor" ELSE n]
=============================================================================
