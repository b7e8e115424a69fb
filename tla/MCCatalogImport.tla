-------------------------- MODULE MCCatalogImport --------------------------
(***************************************************************************)
(* CatalogImport for TLC: three names of which two have one slug and the   *)
(* third has the slug the second of them is given, and workbooks in which  *)
(* they meet within a batch, across batches and across workbooks.          *)
(***************************************************************************)
EXTENDS CatalogImport, TLC

\* The words of the slugs, as numbers: a name may end in one.
Bolt == 101
Nail == 102
Slugs == "bolt" :> <<Bolt>> @@ "bolt!" :> <<Bolt>> @@ "bolt 2" :> <<Bolt, 2>>
         @@ "nail" :> <<Nail>>

Plain(name, parent) == [name |-> name, parent |-> parent, kind |-> "plain"]
Preserved(name, parent) == [name |-> name, parent |-> parent, kind |-> "preserved"]

Workbooks ==
    {<<Plain("bolt", "nuts"), Plain("bolt!", "nuts"), Plain("bolt 2", "nuts")>>,
     <<Preserved("bolt", "tools"), Plain("nail", "tools"),
       Plain("bolt!", "tools"), Plain("bolt 2", "tools")>>,
     <<Plain("bolt 2", "tools"), Plain("bolt", Blank)>>}

Symmetry == Permutations(Imports)
=============================================================================
