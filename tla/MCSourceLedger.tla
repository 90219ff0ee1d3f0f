--------------------------- MODULE MCSourceLedger ---------------------------
(* Instances of SourceLedger for TLC. *)
EXTENDS SourceLedger, TLC

Bytes == {"a", "b"}
Tops == {1, 2}

(* A Copilot CLI session with its workspace.yaml under the first root, and a
   Claude history that both roots reach; the reader claims one of its contents. *)
Session == {1, 2, 3}
SessionTree == (1 :> {1, 2, 3}) @@ (2 :> {3})
SessionReaders == (1 :> [d \in Bytes |-> "kept"])
                  @@ (2 :> [d \in Bytes |-> "kept"])
                  @@ (3 :> ("a" :> "reprojected" @@ "b" :> "unsupported"))
Workspace == 1 :> 2
Yaml == {2}

(* A Pi history and a Claude history under one root; of their sessions git
   tells a project or nothing, the index of Codex a title or nothing. *)
Histories == {1, 2}
OneTree == 1 :> {1, 2}
HistoriesReaders == (1 :> [d \in Bytes |-> "rescanned"]) @@ (2 :> [d \in Bytes |-> "reprojected"])
NoSidecar == [f \in {} |-> f]
=============================================================================
