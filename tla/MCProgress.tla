----------------------------- MODULE MCProgress -----------------------------
(***************************************************************************)
(* Instance of Progress for TLC: the quick setup makes an identifier of    *)
(* did:web or one of did:peer, whose creation asks for more.               *)
(***************************************************************************)
EXTENDS Progress, TLC

WebAndPeer == "web" :> "did:web" @@ "peer" :> "did:peer"
=============================================================================
