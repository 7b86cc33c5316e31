------------------------------ MODULE MCServer ------------------------------
(***************************************************************************)
(* The parts of the server, for TLC: the keys and key mappings of the      *)
(* documents, and the configurations of the objects.                       *)
(***************************************************************************)
EXTENDS Server, TLC

\* Two Ed25519 keys, one X25519 and one Secp256k1 key.
ServerKeys == {"ed1", "ed2", "x1", "secp1"}
TypeOfKey == "ed1" :> "Ed25519" @@ "ed2" :> "Ed25519" @@ "x1" :> "X25519" @@ "secp1" :> "Secp256k1"

Mapping(ed, secp) ==
    "Ed25519" :> ed @@ "Secp256k1" :> secp @@ "X25519" :> "X25519KeyAgreementKey2019"

\* The key mappings of the code, of the default configuration, and two others.
ES256K == "EcdsaSecp256k1VerificationKey2019"
CodeMapping == Mapping("Ed25519VerificationKey2020", ES256K)
Mappings ==
    {CodeMapping, Mapping("JsonWebKey2020", ES256K), Mapping("Ed25519VerificationKey2018", ES256K),
     Mapping("Ed25519VerificationKey2020", "JsonWebKey2020")}

(***************************************************************************)
(* Configurations: two top-level parts "a" and "c", and a part "a/b" of    *)
(* the first; each refers to up to two others.                             *)
(***************************************************************************)
APaths == {"a", "a/b", "c"}
ParentPath == "a" :> None @@ "a/b" :> "a" @@ "c" :> None

Item(ref, path) == [ref |-> ref, path |-> path]
Refs == {Item(TRUE, p) : p \in APaths}
UpTo(n, S) == UNION {[1..k -> S] : k \in 0..n}

\* a holds a/b, before or after what it refers to.
ItemsOfA ==
    {<<Item(FALSE, "a/b")>> \o s : s \in UpTo(1, Refs)}
    \cup {s \o <<Item(FALSE, "a/b")>> : s \in UpTo(1, Refs)}

Node(k, items) == [kind |-> k, items |-> items]
Configuration(root, ka, ia, ib, kc, ic) ==
    None :> Node("plain", root) @@ "a" :> Node(ka, ia) @@ "a/b" :> Node("require", ib)
    @@ "c" :> Node(kc, IF kc = "require" THEN ic ELSE <<>>)

Configurations ==
    {Configuration(root, ka, ia, ib, kc, ic) :
        root \in UpTo(2, Refs), ka \in {"plain", "require"}, ia \in ItemsOfA,
        ib \in UpTo(1, Refs), kc \in {"require", "unset", "falsy"}, ic \in UpTo(2, Refs)}

Symmetry == Permutations(Requests)
=============================================================================
