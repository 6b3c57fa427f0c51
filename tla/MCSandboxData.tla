--------------------------- MODULE MCSandboxData ---------------------------
(***************************************************************************)
(* What fills a sandbox and what fills a model request, in components that *)
(* share no state, side by side: a behaviour runs the one that part names  *)
(* and the others stand still, so the state graph is the union of theirs.  *)
(***************************************************************************)
EXTENDS MemoryStore, FileStore, SandboxProviders, Materializer, ModelContext

VARIABLE part

Parts == {"memory", "files", "providers", "materializer", "context"}

\* a Skill, or a tool between an approval and a client's tool
MCToolBatches == {<<"skill">>, <<"use", "ask", "custom">>}

MCHome == [t \in MemTools |-> "s1"]

DataInit ==
    /\ part \in Parts
    /\ MemoryInit
    /\ FileStoreInit
    /\ ProviderInit
    /\ MaterializerInit
    /\ ContextInit
    /\ part # "providers" => kind = "docker"
    /\ part # "materializer" => protocol = "git"
    /\ part # "context" => ledger = <<>>

\* the components other than p stand still
OthersRest(p) ==
    /\ UNCHANGED part
    /\ IF p = "memory" THEN TRUE ELSE UNCHANGED memVars
    /\ IF p = "files" THEN TRUE ELSE UNCHANGED fileVars
    /\ IF p = "providers" THEN TRUE ELSE UNCHANGED providerVars
    /\ IF p = "materializer" THEN TRUE ELSE UNCHANGED matVars
    /\ IF p = "context" THEN TRUE ELSE UNCHANGED contextVars

DataNext ==
    \/ part = "memory" /\ MemoryNext /\ OthersRest("memory")
    \/ part = "files" /\ FileStoreNext /\ OthersRest("files")
    \/ part = "providers" /\ ProviderNext /\ OthersRest("providers")
    \/ part = "materializer" /\ MaterializerNext /\ OthersRest("materializer")
    \/ part = "context" /\ ContextNext /\ OthersRest("context")

DataVars == <<part, memVars, fileVars, providerVars, matVars, contextVars>>
DataSpec == DataInit /\ [][DataNext]_DataVars

\* Every component's state is well formed.
DataTypeOK ==
    /\ MemoryTypeOK
    /\ FileStoreTypeOK
    /\ ProviderTypeOK
    /\ MaterializerTypeOK
    /\ ContextTypeOK
=============================================================================
