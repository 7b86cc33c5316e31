----------------------------- MODULE MCClients -----------------------------
(***************************************************************************)
(* The users' side of the system, for TLC.                                 *)
(***************************************************************************)
EXTENDS Clients, TLC

\* Two identifiers on the pages and two of the command line, each with a key of its own.
WebAndEthr == {"web", "ethr"}
TheirProvider == "web" :> "did:web" @@ "ethr" :> "did:ethr"
KeyOfDid == [d \in CliDids |-> IF d \in Ethr THEN 1 ELSE 2]
ThreeKeys == 1..3

\* An identifier "x" that is found by its DID too; one text, found by two words.
WithinText == {<<"a", "ab">>, <<"ab", "ab">>}
WithinDid == {<<"a", "x">>}

\* The configuration names what the parts take many of alike, so that one group of
\* permutations serves them all.
Symmetry == Permutations(Tasks) \cup Permutations(Own)

=============================================================================
